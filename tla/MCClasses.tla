----------------------------- MODULE MCClasses -----------------------------
EXTENDS Classes
MCArity == "init" :> 1 @@ "m" :> 0

(* One instance, of which one field is set, and four values on the stack;  *)
(* or two instances and three values.                                      *)
FieldsSet == {f \in (DOMAIN instances) \X Names :
                instances[f[1]].fields[f[2]] # None}
Small ==
  /\ Len(stack) <= 4 /\ Cardinality(FieldsSet) <= 1
  /\ 2 * Len(instances) + Len(stack) + Cardinality(FieldsSet) <= 7
=============================================================================
