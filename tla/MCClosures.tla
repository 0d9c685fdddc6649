----------------------------- MODULE MCClosures -----------------------------
(* Instance of Closures.                                                   *)
EXTENDS Closures

(* The state without what is left in the slots above stackTop.             *)
Visible ==
  <<[s \in 0..(stackTop - 1) |-> stack[s]], stackTop, frames, closures,
    upvalues, openUpvalues, filling, global, ready>>
=============================================================================
