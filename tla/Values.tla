------------------------------- MODULE Values -------------------------------
(***************************************************************************)
(* Values of the language, as far as classes tell them apart.              *)
(***************************************************************************)
EXTENDS Naturals, SequencesExt

CONSTANTS
  Names,  \* of methods and of fields
  init,   \* the name vm.initString, one of them
  Arity   \* the number of parameters of the methods of each name

ASSUME ValuesAssumption == init \in Names /\ Arity \in [Names -> Nat]

nil           == [kind |-> "nil"]
Class(c)      == [kind |-> "class", id |-> c]
Instance(i)   == [kind |-> "instance", id |-> i]

(* Code: a method of class c, or a function, in no class.                  *)
Method(c, name) == [class |-> c, name |-> name]
Script          == [kind |-> "closure", method |-> Method(0, "script")]
Function        == [kind |-> "closure", method |-> Method(0, "function")]
ArityOf(method) == IF method.class = 0 THEN 0 ELSE Arity[method.name]

Bound(receiver, method) ==
  [kind |-> "bound", receiver |-> receiver, method |-> method]

(* What a table gives for a name that is not in it.                        *)
None      == [kind |-> "none"]
NoMethod  == Method(0, "none")
NoFields  == [name \in Names |-> None]
NoMethods == [name \in Names |-> NoMethod]

Drop(s, n) == SubSeq(s, 1, Len(s) - n)
Top(s, n)  == SubSeq(s, Len(s) - n + 1, Len(s))
=============================================================================
