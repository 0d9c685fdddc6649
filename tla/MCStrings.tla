----------------------------- MODULE MCStrings -----------------------------
(* Instance of Strings: three texts, two addresses for each.  The hash     *)
(* codes of two of them agree in an array of 4 slots and in one of 8, at   *)
(* the last slot, and the third is the next slot on the way.               *)
EXTENDS Strings, TLC

CONSTANTS a1, a2, b1, b2, c1, c2

MCKey     == {a1, a2, b1, b2, c1, c2}
MCCharsOf == (a1 :> "a") @@ (a2 :> "a") @@ (b1 :> "b") @@ (b2 :> "b")
               @@ (c1 :> "c") @@ (c2 :> "c")
MCHash    == [k \in MCKey |-> CASE MCCharsOf[k] = "a" -> 7
                                [] MCCharsOf[k] = "b" -> 15
                                [] OTHER              -> 8]
=============================================================================
