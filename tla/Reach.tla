------------------------------- MODULE Reach -------------------------------
(***************************************************************************)
(* Reachability in the graph of the heap, without recursion: the objects   *)
(* reached from a set are those in every closed set around it.             *)
(***************************************************************************)
CONSTANT Obj   \* addresses of objects

(* A set that contains the objects in from and all that it refers to.      *)
Closed(S, from, edges) ==
  /\ from \subseteq S
  /\ \A o \in S : edges[o] \subseteq S

(* The least such set: what a program that holds from can get at.          *)
ReachableFrom(from, edges) ==
  {o \in Obj : \A S \in SUBSET Obj : Closed(S, from, edges) => o \in S}
=============================================================================
