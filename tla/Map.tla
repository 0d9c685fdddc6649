-------------------------------- MODULE Map --------------------------------
(***************************************************************************)
(* What a table of the interpreter promises to its clients (globals,       *)
(* methods, fields, the set of interned strings): a finite map.            *)
(*                                                                         *)
(* This is the abstract specification that module Table implements.  It    *)
(* knows nothing of slots, probing, tombstones or growth.                  *)
(***************************************************************************)
CONSTANTS Key, Value, ABSENT   \* ABSENT is not a value

VARIABLES
  dict,   \* the value of each key, or ABSENT
  ret     \* what the last completed call returned

mapVars == <<dict, ret>>

(* A result: the boolean the C function returns, and the value tableGet    *)
(* stores through its out-parameter (ABSENT when it stores none).          *)
Result(ok, v) == [ok |-> ok, value |-> v]

Present(k) == dict[k] # ABSENT

Init ==
  /\ dict = [k \in Key |-> ABSENT]
  /\ ret  = Result(FALSE, ABSENT)

Get(k) ==
  /\ ret' = Result(Present(k), dict[k])
  /\ UNCHANGED dict

(* Set answers whether the key is new. *)
Set(k, v) ==
  /\ dict' = [dict EXCEPT ![k] = v]
  /\ ret'  = Result(~Present(k), ABSENT)

(* Delete answers whether the key was there. *)
Delete(k) ==
  /\ dict' = [dict EXCEPT ![k] = ABSENT]
  /\ ret'  = Result(Present(k), ABSENT)

(* Forget every key that is not in live. *)
Retain(live) ==
  /\ dict' = [k \in Key |-> IF k \in live THEN dict[k] ELSE ABSENT]
  /\ UNCHANGED ret

Clear ==
  /\ dict' = [k \in Key |-> ABSENT]
  /\ UNCHANGED ret

Next ==
  \/ \E k \in Key : Get(k) \/ Delete(k)
  \/ \E k \in Key, v \in Value : Set(k, v)
  \/ \E live \in SUBSET Key : Retain(live)
  \/ Clear

Spec == Init /\ [][Next]_mapVars
=============================================================================
