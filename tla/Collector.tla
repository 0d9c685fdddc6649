----------------------------- MODULE Collector -----------------------------
(***************************************************************************)
(* The garbage collector of memory.c, driven by the allocations of         *)
(* object.c: mark from the roots, trace with a gray stack, drop the weak   *)
(* strings, sweep the list of all objects.                                 *)
(*                                                                         *)
(* reallocate decides whether to collect before it allocates, so a         *)
(* collection runs in the middle of an allocation, with what the new       *)
(* object will refer to in the hands of the caller and in no object yet:   *)
(* that a root reaches it all the while is the duty of the caller.  The    *)
(* program does not run while the collector does.                          *)
(*                                                                         *)
(* The byte counter against nextGC (or the stress build) decides when to   *)
(* collect; here any allocation may.  The orders of the gray stack and of  *)
(* the list of objects are left open.                                      *)
(***************************************************************************)
EXTENDS Reach

VARIABLES
  heap,      \* the list vm.objects
  roots,     \* what markRoots visits
  refs,      \* what blackenObject visits in an object
  strings,   \* vm.strings
  marked,    \* objects with isMarked set
  gray,      \* vm.grayStack
  unswept,   \* the part of the list that sweep has not visited
  phase,     \* idle: the program runs; mark, trace, sweep: collectGarbage;
             \* serve: reallocate returns the memory
  request    \* what the memory is for

vars == <<heap, roots, refs, strings, marked, gray, unswept, phase, request>>

program   == <<roots, refs>>
collector == <<marked, gray, unswept>>

(* Memory for an object with references, for a string, for a larger        *)
(* vm.strings to hold a string, or for an array that an object owns.       *)
Request(kind, out) == [kind |-> kind, out |-> out]
Array    == Request("array", {})
Requests ==
  {Request(kind, out) : kind \in {"object", "string", "array"}, out \in SUBSET Obj}
    \cup {Request("interning", {o}) : o \in Obj}

Phases == {"idle", "mark", "trace", "sweep", "serve"}

(* What the program can get at by following references.                    *)
Reachable == ReachableFrom(roots, refs)

Init ==
  /\ heap    = {}
  /\ roots   = {}
  /\ refs    = [o \in Obj |-> {}]
  /\ strings = {}
  /\ marked  = {}
  /\ gray    = {}
  /\ unswept = {}
  /\ phase   = "idle"
  /\ request = Array

----------------------------------------------------------------------------
(* The program between its allocations.                                    *)

(* It writes the references of an object it can reach: a field, an         *)
(* upvalue, a method, a constant.  Strings have none.                      *)
Write(o, out) ==
  /\ phase = "idle"
  /\ o \in Reachable \ strings
  /\ out \subseteq Reachable
  /\ refs' = [refs EXCEPT ![o] = out]
  /\ UNCHANGED <<heap, roots, strings, phase, request, collector>>

Root(o) ==
  /\ phase = "idle"
  /\ o \in Reachable
  /\ roots' = roots \cup {o}
  /\ UNCHANGED <<heap, refs, strings, phase, request, collector>>

Unroot(o) ==
  /\ phase = "idle"
  /\ o \in roots
  /\ roots' = roots \ {o}
  /\ UNCHANGED <<heap, refs, strings, phase, request, collector>>

(* copyString and takeString find the string in vm.strings.                *)
Interned(o) ==
  /\ phase = "idle"
  /\ o \in strings
  /\ roots' = roots \cup {o}
  /\ UNCHANGED <<heap, refs, strings, phase, request, collector>>

----------------------------------------------------------------------------
(* Allocation.                                                             *)

(* reallocate asks for memory and may collect first.  The model has memory *)
(* for as many objects as there are addresses.                             *)
Ask(r) ==
  /\ request' = r
  /\ phase' \in {"mark", "serve"}

reallocate(kind, out) ==
  /\ phase = "idle"
  /\ out \subseteq Reachable
  /\ kind # "object" => out = {}
  /\ kind # "array" => heap # Obj
  /\ Ask(Request(kind, out))
  /\ UNCHANGED <<heap, strings, program, collector>>

(* Variant that leaves isMarked as the memory comes: set. *)
allocateObjectMarked(o) ==
  /\ phase = "serve"
  /\ request.kind = "object"
  /\ o \notin heap
  /\ heap'   = heap \cup {o}
  /\ refs'   = [refs EXCEPT ![o] = request.out]
  /\ roots'  = roots \cup {o}
  /\ marked' = marked \cup {o}
  /\ phase' = "idle" /\ request' = Array
  /\ UNCHANGED <<strings, gray, unswept>>

(* A new object, unmarked, at the head of the list; the caller pushes it.  *)
(* allocateString goes on to tableSet, whose array may have to grow.       *)
allocateObject(o) ==
  /\ phase = "serve"
  /\ request.kind \in {"object", "string"}
  /\ o \notin heap
  /\ heap'  = heap \cup {o}
  /\ refs'  = [refs EXCEPT ![o] = request.out]
  /\ roots' = roots \cup {o}
  /\ IF request.kind = "string"
     THEN Ask(Request("interning", {o}))
     ELSE phase' = "idle" /\ request' = Array
  /\ UNCHANGED <<strings, collector>>

internString ==
  /\ phase = "serve"
  /\ request.kind = "interning"
  /\ strings' = strings \cup request.out
  /\ phase'   = "idle"
  /\ request' = Array
  /\ UNCHANGED <<heap, program, collector>>

growArray ==
  /\ phase = "serve"
  /\ request.kind = "array"
  /\ phase' = "idle"
  /\ UNCHANGED <<heap, strings, program, collector, request>>

----------------------------------------------------------------------------
(* collectGarbage.                                                         *)

(* markObject on each of the objects S: those without a mark get one and   *)
(* go on the gray stack.                                                   *)
markObjects(S, stack) ==
  /\ marked' = marked \cup S
  /\ gray'   = stack \cup (S \ marked)

markRoots ==
  /\ phase = "mark"
  /\ markObjects(roots, gray)
  /\ phase' = "trace"
  /\ UNCHANGED <<heap, strings, unswept, request, program>>

(* Variants of blackenObject: one that does not mark what the object       *)
(* refers to, one that pushes it whether or not it has a mark.             *)
blackenObjectBarely(o) ==
  /\ phase = "trace"
  /\ o \in gray
  /\ gray' = gray \ {o}
  /\ UNCHANGED <<heap, strings, marked, unswept, phase, request, program>>

blackenObjectAgain(o) ==
  /\ phase = "trace"
  /\ o \in gray
  /\ marked' = marked \cup refs[o]
  /\ gray'   = (gray \ {o}) \cup refs[o]
  /\ UNCHANGED <<heap, strings, unswept, phase, request, program>>

(* A turn of traceReferences.                                              *)
blackenObject(o) ==
  /\ phase = "trace"
  /\ o \in gray
  /\ markObjects(refs[o], gray \ {o})
  /\ UNCHANGED <<heap, strings, unswept, phase, request, program>>

(* Variant that leaves vm.strings alone. *)
tableRemoveWhiteNot ==
  /\ phase = "trace"
  /\ gray = {}
  /\ unswept' = heap
  /\ phase'   = "sweep"
  /\ UNCHANGED <<heap, strings, marked, gray, request, program>>

(* The gray stack is empty: the strings without a mark leave vm.strings,   *)
(* and the sweep starts.                                                   *)
tableRemoveWhite ==
  /\ phase = "trace"
  /\ gray = {}
  /\ strings' = strings \cap marked
  /\ unswept' = heap
  /\ phase'   = "sweep"
  /\ UNCHANGED <<heap, marked, gray, request, program>>

(* Variant of endSweep that stops at the last object of the list.          *)
endSweepEarly ==
  /\ phase = "sweep"
  /\ \A o1, o2 \in unswept : o1 = o2
  /\ unswept' = {}
  /\ marked'  = {}
  /\ phase'   = "serve"
  /\ UNCHANGED <<heap, strings, gray, request, program>>

(* A turn of the loop of sweep.                                            *)
sweepObject(o) ==
  /\ phase = "sweep"
  /\ o \in unswept
  /\ unswept' = unswept \ {o}
  /\ IF o \in marked
     THEN marked' = marked \ {o} /\ UNCHANGED <<heap, refs>>
     ELSE /\ heap' = heap \ {o}
          /\ refs' = [refs EXCEPT ![o] = {}]
          /\ UNCHANGED marked
  /\ UNCHANGED <<roots, strings, gray, phase, request>>

endSweep ==
  /\ phase = "sweep"
  /\ unswept = {}
  /\ phase' = "serve"
  /\ UNCHANGED <<heap, strings, request, program, collector>>

----------------------------------------------------------------------------
Program ==
  \/ \E o \in Obj, out \in SUBSET Obj : Write(o, out)
  \/ \E o \in Obj : Root(o) \/ Unroot(o) \/ Interned(o)
  \/ \E kind \in {"object", "string", "array"}, out \in SUBSET Obj :
       reallocate(kind, out)

Serve == growArray \/ internString \/ \E o \in Obj : allocateObject(o)

Collect ==
  \/ markRoots
  \/ tableRemoveWhite
  \/ endSweep
  \/ \E o \in Obj : blackenObject(o) \/ sweepObject(o)

Next == Program \/ Serve \/ Collect

Spec == Init /\ [][Next]_vars

(* collectGarbage is a call like any other: it runs to its end.            *)
FairSpec == Spec /\ WF_vars(Collect)

----------------------------------------------------------------------------
(* Properties.                                                             *)

(* Every variable holds objects, and the collector keeps marks, gray stack *)
(* and cursor only while it runs.                                          *)
TypeOK ==
  /\ heap \subseteq Obj
  /\ roots \subseteq Obj
  /\ refs \in [Obj -> SUBSET Obj]
  /\ strings \subseteq Obj
  /\ marked \subseteq Obj
  /\ gray \subseteq marked
  /\ unswept \subseteq heap
  /\ phase \in Phases
  /\ request \in Requests
  /\ phase \in {"idle", "serve", "mark"} => marked = {}
  /\ phase # "sweep" => unswept = {}

(* Whatever the program can get at, by references or by interning, and     *)
(* whatever an allocation under way is going to refer to, has not been     *)
(* freed: at any step of a collection, not only when it is over.           *)
NothingLiveIsFreed ==
  /\ Reachable \subseteq heap
  /\ strings \subseteq heap
  /\ phase # "idle" => request.out \subseteq heap

(* When the trace is over the marks are the reachable objects, no more and *)
(* no less; the sweep takes the marks off again as it passes and frees the *)
(* rest, so that it leaves exactly those.                                  *)
SweepIsExact ==
  phase = "sweep" =>
    /\ Reachable = marked \cup (heap \ unswept)
    /\ strings \subseteq Reachable

(* The heap as the program may think of it: once the trace is over, what   *)
(* has no mark and is still to be swept is gone.                           *)
HeapOfProgram ==
  IF phase = "sweep" THEN marked \cup (heap \ unswept) ELSE heap

AtOnce == INSTANCE GC WITH
  heap <- HeapOfProgram,
  refs <- [o \in Obj |-> IF o \in HeapOfProgram THEN refs[o] ELSE {}]

(* To the program a collection is one step that frees the unreachable.     *)
CollectsAtOnce == AtOnce!Spec

(* A collection that starts ends, and the allocation gets its memory.      *)
CollectionEnds == phase = "mark" ~> phase = "serve"
=============================================================================
