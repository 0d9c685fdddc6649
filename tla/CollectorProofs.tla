-------------------------- MODULE CollectorProofs --------------------------
(***************************************************************************)
(* Proofs about the collector, for every set of addresses and hence every  *)
(* graph of objects: nothing live is freed at any step of a collection,    *)
(* the sweep leaves exactly the reachable objects, and to the program a    *)
(* collection is a single step.                                            *)
(***************************************************************************)
EXTENDS Collector, TLAPS

----------------------------------------------------------------------------
(* Reachability.                                                           *)

Edges == [Obj -> SUBSET Obj]

LEMMA ReachableIsLeast ==
  ASSUME NEW from, NEW edges, NEW S \in SUBSET Obj, Closed(S, from, edges)
  PROVE  ReachableFrom(from, edges) \subseteq S
BY DEF ReachableFrom

LEMMA ReachableIsClosed ==
  ASSUME NEW from \in SUBSET Obj, NEW edges \in Edges
  PROVE  /\ ReachableFrom(from, edges) \in SUBSET Obj
         /\ Closed(ReachableFrom(from, edges), from, edges)
<1> DEFINE R == ReachableFrom(from, edges)
<1>1. R \subseteq Obj
  BY DEF ReachableFrom
<1>2. from \subseteq R
  BY DEF ReachableFrom, Closed
<1>3. ASSUME NEW o \in R, NEW p \in edges[o] PROVE p \in R
  <2>1. p \in Obj
    BY <1>1, <1>3 DEF Edges
  <2>2. ASSUME NEW S \in SUBSET Obj, Closed(S, from, edges) PROVE p \in S
    <3>1. o \in S
      BY <2>2, ReachableIsLeast
    <3> QED
      BY <3>1, <1>3, <2>2 DEF Closed
  <2> QED
    BY <2>1, <2>2 DEF ReachableFrom
<1> QED
  BY <1>1, <1>2, <1>3 DEF Closed

(* More roots and more references reach more; from what is reached already *)
(* they reach nothing new.                                                 *)
LEMMA ReachableFromReached ==
  ASSUME NEW from \in SUBSET Obj, NEW edges \in Edges,
         NEW from2 \in SUBSET Obj, NEW edges2 \in Edges,
         NEW S \in SUBSET Obj, Closed(S, from, edges),
         from2 \subseteq S, \A o \in S : edges2[o] \subseteq S
  PROVE  ReachableFrom(from2, edges2) \subseteq S
BY ReachableIsLeast DEF Closed

(* References of objects out of reach do not matter. *)
LEMMA ReachableInside ==
  ASSUME NEW from \in SUBSET Obj, NEW edges \in Edges, NEW edges2 \in Edges,
         NEW S \in SUBSET Obj, Closed(S, from, edges),
         \A o \in S : edges2[o] = edges[o]
  PROVE  ReachableFrom(from, edges2) = ReachableFrom(from, edges)
<1> DEFINE R1 == ReachableFrom(from, edges)
           R2 == ReachableFrom(from, edges2)
<1>1. R1 \in SUBSET Obj /\ Closed(R1, from, edges) /\ R1 \subseteq S
  BY ReachableIsClosed, ReachableIsLeast
<1>2. Closed(S, from, edges2)
  BY DEF Closed
<1>3. R2 \in SUBSET Obj /\ Closed(R2, from, edges2) /\ R2 \subseteq S
  BY <1>2, ReachableIsClosed, ReachableIsLeast
<1>4. Closed(R1, from, edges2)
  BY <1>1 DEF Closed
<1>5. Closed(R2, from, edges)
  BY <1>3 DEF Closed
<1> QED
  BY <1>1, <1>3, <1>4, <1>5, ReachableIsLeast

----------------------------------------------------------------------------
(* The inductive invariant.  What the program can get at is safe because   *)
(* the heap that it sees has no reference out of it (Consistent).  During  *)
(* the trace, marks are on reachable objects only, and every reference     *)
(* that leads out of the marks starts at a gray object (TricolorOK).  The  *)
(* sweep works on marks that are exact.                                    *)

Consistent ==
  /\ Closed(HeapOfProgram, roots, refs)
  /\ strings \subseteq HeapOfProgram
  /\ phase # "idle" => request.out \subseteq Reachable

TricolorOK ==
  phase = "trace" =>
    /\ roots \subseteq marked
    /\ marked \subseteq Reachable
    /\ \A o \in marked \ gray : refs[o] \subseteq marked

IInv ==
  /\ TypeOK
  /\ Consistent
  /\ TricolorOK
  /\ phase # "trace" => gray = {}
  /\ phase = "sweep" => HeapOfProgram = Reachable /\ marked \subseteq unswept

LEMMA Types ==
  ASSUME TypeOK
  PROVE  /\ roots \in SUBSET Obj
         /\ refs \in Edges
         /\ HeapOfProgram \in SUBSET Obj
         /\ HeapOfProgram \subseteq heap \cup marked
         /\ phase # "sweep" => HeapOfProgram = heap
BY DEF TypeOK, Edges, HeapOfProgram

LEMMA ReachableIsInHeap ==
  ASSUME IInv
  PROVE  /\ Reachable \in SUBSET Obj
         /\ Closed(Reachable, roots, refs)
         /\ Reachable \subseteq HeapOfProgram
BY Types, ReachableIsClosed, ReachableIsLeast DEF IInv, Consistent, Reachable

(* Steps outside a collection keep the invariant if they leave a heap that *)
(* is closed, and an allocation with nothing but reachable objects in hand. *)
LEMMA QuietStep ==
  ASSUME IInv, phase \in {"idle", "serve"}, phase' \in {"idle", "mark", "serve"},
         UNCHANGED <<marked, gray, unswept>>,
         heap' \in SUBSET Obj, roots' \in SUBSET heap', refs' \in Edges,
         strings' \in SUBSET heap',
         \A o \in heap' : refs'[o] \subseteq heap',
         request' \in Requests,
         phase' # "idle" => request'.out \subseteq Reachable'
  PROVE  IInv'
<1>1. marked = {} /\ gray = {} /\ unswept = {}
  BY DEF IInv, TypeOK
<1>2. TypeOK'
  BY <1>1 DEF TypeOK, Edges, Phases
<1>3. HeapOfProgram' = heap'
  BY DEF HeapOfProgram
<1>4. Consistent'
  BY <1>3 DEF Consistent, Closed
<1> QED
  BY <1>1, <1>2, <1>4 DEF IInv, TricolorOK

(* What holds between collections. *)
LEMMA Quiet ==
  ASSUME IInv, phase \in {"idle", "serve"}
  PROVE  /\ heap \in SUBSET Obj /\ roots \in SUBSET heap /\ refs \in Edges
         /\ strings \in SUBSET heap
         /\ \A o \in heap : refs[o] \subseteq heap
         /\ Reachable \subseteq heap
         /\ HeapOfProgram = heap
         /\ request \in Requests
         /\ phase # "idle" => request.out \subseteq Reachable
<1>1. HeapOfProgram = heap
  BY DEF HeapOfProgram
<1>2. heap \in SUBSET Obj /\ refs \in Edges /\ request \in Requests
  BY Types DEF IInv, TypeOK
<1> QED
  BY <1>1, <1>2, ReachableIsInHeap DEF IInv, Consistent, Closed

----------------------------------------------------------------------------
(* The steps.                                                              *)

LEMMA ProgramStep ==
  ASSUME IInv, Program
  PROVE  IInv'
<1>1. phase = "idle" /\ UNCHANGED <<heap, strings, marked, gray, unswept>>
  BY DEF Program, Write, Root, Unroot, Interned, reallocate, collector
<1>2. ASSUME NEW o \in Obj, NEW out \in SUBSET Obj, Write(o, out) PROVE IInv'
  <2>1. refs' = [refs EXCEPT ![o] = out] /\ out \subseteq heap
    BY <1>1, <1>2, Quiet DEF Write
  <2>2. refs' \in Edges /\ \A p \in heap : refs'[p] \subseteq heap
    BY <2>1, <1>1, Quiet DEF Edges
  <2>3. UNCHANGED <<roots, phase, request>>
    BY <1>2 DEF Write
  <2> QED
    BY <2>2, <2>3, <1>1, Quiet, QuietStep
<1>3. ASSUME NEW o \in Obj, Root(o) \/ Unroot(o) \/ Interned(o) PROVE IInv'
  <2>1. UNCHANGED <<refs, phase, request>>
    BY <1>3 DEF Root, Unroot, Interned
  <2>2. roots' \in SUBSET heap
    BY <1>1, <1>3, Quiet DEF Root, Unroot, Interned
  <2> QED
    BY <2>1, <2>2, <1>1, Quiet, QuietStep
<1>4. ASSUME NEW kind \in {"object", "string", "array"}, NEW out \in SUBSET Obj,
             reallocate(kind, out)
      PROVE  IInv'
  <2>1. /\ UNCHANGED <<roots, refs>> /\ phase' \in {"mark", "serve"}
        /\ request' = Request(kind, out) /\ out \subseteq Reachable
    BY <1>4 DEF reallocate, Ask, program
  <2>2. request' \in Requests /\ request'.out = out
    BY <2>1 DEF Request, Requests
  <2>3. Reachable' = Reachable
    BY <2>1 DEF Reachable
  <2> QED
    BY <2>1, <2>2, <2>3, <1>1, Quiet, QuietStep
<1> QED
  BY <1>2, <1>3, <1>4 DEF Program

(* An allocation has its references in hand; vm.strings grows for a string. *)
LEMMA RequestFacts ==
  ASSUME NEW r \in Requests
  PROVE  /\ r.out \in SUBSET Obj
         /\ r.kind = "interning" => \E o \in Obj : r.out = {o}
BY DEF Requests, Request

LEMMA ArrayIsRequest ==
  /\ Array \in Requests
  /\ Array.out = {}
BY DEF Array, Request, Requests

LEMMA InterningIsRequest ==
  ASSUME NEW o \in Obj
  PROVE  /\ Request("interning", {o}) \in Requests
         /\ Request("interning", {o}).out = {o}
<1>1. Request("interning", {o}) \in {Request("interning", {p}) : p \in Obj}
  OBVIOUS
<1>2. Request("interning", {o}) \in Requests
  BY <1>1 DEF Requests
<1>3. Request("interning", {o}).out = {o}
  BY DEF Request
<1> QED
  BY <1>2, <1>3

LEMMA ServeStep ==
  ASSUME IInv, Serve
  PROVE  IInv'
<1>1. phase = "serve" /\ UNCHANGED <<marked, gray, unswept>>
  BY DEF Serve, growArray, internString, allocateObject, collector
<1>2. CASE growArray
  BY <1>1, <1>2, Quiet, QuietStep DEF growArray, program
<1>3. CASE internString
  <2>1. /\ UNCHANGED <<heap, roots, refs>> /\ phase' = "idle" /\ request' = Array
        /\ strings' = strings \cup request.out
    BY <1>3 DEF internString, program
  <2>2. strings' \in SUBSET heap
    BY <2>1, <1>1, Quiet
  <2> QED
    BY <2>1, <2>2, <1>1, Quiet, QuietStep, ArrayIsRequest
<1>4. ASSUME NEW o \in Obj, allocateObject(o) PROVE IInv'
  <2>1. /\ heap' = heap \cup {o} /\ roots' = roots \cup {o}
        /\ refs' = [refs EXCEPT ![o] = request.out]
        /\ strings' = strings /\ o \notin heap
    BY <1>4 DEF allocateObject
  <2>2. request.out \subseteq heap
    BY <1>1, Quiet
  <2>3. /\ heap' \in SUBSET Obj /\ roots' \in SUBSET heap' /\ refs' \in Edges
        /\ strings' \in SUBSET heap'
        /\ \A p \in heap' : refs'[p] \subseteq heap'
    BY <2>1, <2>2, <1>1, Quiet DEF Edges
  <2>4. CASE request.kind = "string"
    <3>1. phase' \in {"mark", "serve"} /\ request' = Request("interning", {o})
      BY <2>4, <1>4 DEF allocateObject, Ask
    <3>2. roots' \subseteq Reachable'
      BY <2>3, ReachableIsClosed DEF Reachable, Closed
    <3>3. request' \in Requests /\ request'.out = {o}
      BY <3>1, InterningIsRequest
    <3>4. request'.out \subseteq Reachable'
      BY <3>2, <3>3, <2>1
    <3> QED
      BY <3>1, <3>3, <3>4, <2>3, <1>1, QuietStep
  <2>5. CASE request.kind # "string"
    <3>1. phase' = "idle" /\ request' = Array
      BY <2>5, <1>4 DEF allocateObject
    <3> QED
      BY <3>1, <2>3, <1>1, QuietStep, ArrayIsRequest
  <2> QED
    BY <2>4, <2>5
<1> QED
  BY <1>2, <1>3, <1>4 DEF Serve

LEMMA MarkRootsStep ==
  ASSUME IInv, markRoots
  PROVE  IInv' /\ HeapOfProgram' = HeapOfProgram
<1>1. /\ phase = "mark" /\ phase' = "trace"
      /\ UNCHANGED <<heap, strings, unswept, request, roots, refs>>
  BY DEF markRoots, program
<1>2. marked = {} /\ gray = {} /\ unswept = {}
  BY <1>1 DEF IInv, TypeOK
<1>3. marked' = roots /\ gray' = roots
  BY <1>2 DEF markRoots, markObjects
<1>4. HeapOfProgram' = HeapOfProgram /\ Reachable' = Reachable
  BY <1>1 DEF HeapOfProgram, Reachable
<1>5. TypeOK'
  BY <1>1, <1>2, <1>3 DEF IInv, TypeOK, Phases
<1>6. Consistent'
  BY <1>1, <1>4 DEF IInv, Consistent, Closed
<1>7. TricolorOK'
  BY <1>1, <1>3, <1>4, ReachableIsInHeap DEF TricolorOK, Closed
<1> QED
  BY <1>1, <1>4, <1>5, <1>6, <1>7 DEF IInv

LEMMA BlackenStep ==
  ASSUME IInv, NEW o \in Obj, blackenObject(o)
  PROVE  IInv' /\ HeapOfProgram' = HeapOfProgram
<1>1. /\ phase = "trace" /\ phase' = "trace" /\ o \in gray
      /\ UNCHANGED <<heap, strings, unswept, request, roots, refs>>
      /\ marked' = marked \cup refs[o]
      /\ gray' = (gray \ {o}) \cup (refs[o] \ marked)
  BY DEF blackenObject, markObjects, program
<1>2. HeapOfProgram' = HeapOfProgram /\ Reachable' = Reachable
  BY <1>1 DEF HeapOfProgram, Reachable
<1>3. /\ gray \subseteq marked /\ marked \subseteq Reachable /\ roots \subseteq marked
      /\ \A p \in marked \ gray : refs[p] \subseteq marked
  BY <1>1 DEF IInv, TypeOK, TricolorOK
<1>4. refs[o] \subseteq Reachable
  BY <1>1, <1>3, ReachableIsInHeap DEF Closed
<1>5. TypeOK'
  <2>1. marked' \subseteq Obj
    BY <1>1, <1>3, <1>4, ReachableIsInHeap
  <2>2. gray' \subseteq marked'
    BY <1>1, <1>3
  <2> QED
    BY <2>1, <2>2, <1>1 DEF IInv, TypeOK
<1>6. Consistent'
  BY <1>1, <1>2 DEF IInv, Consistent, Closed
<1>7. TricolorOK'
  BY <1>1, <1>2, <1>3, <1>4 DEF TricolorOK
<1> QED
  BY <1>1, <1>2, <1>5, <1>6, <1>7 DEF IInv

(* The step that makes the collection: no reference leads out of the marks *)
(* any more, so that they are all the reachable objects.                   *)
LEMMA RemoveWhiteStep ==
  ASSUME IInv, tableRemoveWhite
  PROVE  /\ IInv'
         /\ HeapOfProgram = heap
         /\ HeapOfProgram' = Reachable
         /\ strings' = strings \cap Reachable
<1>1. /\ phase = "trace" /\ phase' = "sweep" /\ gray = {}
      /\ UNCHANGED <<heap, marked, gray, request, roots, refs>>
      /\ strings' = strings \cap marked /\ unswept' = heap
  BY DEF tableRemoveWhite, program
<1>2. marked = Reachable
  <2>1. Closed(marked, roots, refs) /\ marked \subseteq Reachable
    BY <1>1 DEF IInv, TricolorOK, Closed
  <2>2. Reachable \subseteq marked
    BY <2>1, ReachableIsLeast DEF IInv, TypeOK, Reachable
  <2> QED
    BY <2>1, <2>2
<1>3. HeapOfProgram = heap
  BY <1>1 DEF HeapOfProgram
<1>4. marked \subseteq heap
  BY <1>2, <1>3, ReachableIsInHeap
<1>5. HeapOfProgram' = Reachable /\ Reachable' = Reachable
  BY <1>1, <1>2 DEF HeapOfProgram, Reachable
<1>6. TypeOK'
  BY <1>1, <1>4 DEF IInv, TypeOK, Phases
<1>7. Consistent'
  BY <1>1, <1>2, <1>5, ReachableIsInHeap DEF IInv, Consistent, Closed
<1> QED
  BY <1>1, <1>2, <1>3, <1>4, <1>5, <1>6, <1>7 DEF IInv, TricolorOK

LEMMA SweepStep ==
  ASSUME IInv, NEW o \in Obj, sweepObject(o)
  PROVE  /\ IInv'
         /\ HeapOfProgram' = HeapOfProgram
         /\ \A p \in HeapOfProgram : refs'[p] = refs[p]
<1>1. /\ phase = "sweep" /\ phase' = "sweep" /\ o \in unswept
      /\ unswept' = unswept \ {o}
      /\ UNCHANGED <<strings, gray, request, roots>>
  BY DEF sweepObject
<1>2. \/ o \in marked /\ marked' = marked \ {o} /\ heap' = heap /\ refs' = refs
      \/ /\ o \notin marked /\ marked' = marked /\ heap' = heap \ {o}
         /\ refs' = [refs EXCEPT ![o] = {}]
  BY DEF sweepObject
<1>3. /\ unswept \subseteq heap /\ marked \subseteq unswept /\ gray = {}
      /\ HeapOfProgram = Reachable /\ heap \subseteq Obj /\ refs \in Edges
      /\ HeapOfProgram = marked \cup (heap \ unswept)
  BY <1>1, Types DEF IInv, TypeOK, HeapOfProgram
<1>4. HeapOfProgram' = HeapOfProgram
  <2>1. HeapOfProgram' = marked' \cup (heap' \ unswept')
    BY <1>1 DEF HeapOfProgram
  <2> QED
    BY <2>1, <1>1, <1>2, <1>3
<1>5. refs' \in Edges /\ \A p \in HeapOfProgram : refs'[p] = refs[p]
  BY <1>1, <1>2, <1>3 DEF Edges
<1>6. Reachable' = Reachable
  <2>1. Closed(HeapOfProgram, roots, refs) /\ roots \in SUBSET Obj
    BY Types DEF IInv, Consistent
  <2>2. HeapOfProgram \in SUBSET Obj
    BY Types DEF IInv
  <2>3. ReachableFrom(roots, refs') = ReachableFrom(roots, refs)
    BY <2>1, <2>2, <1>3, <1>5, ReachableInside
  <2> QED
    BY <2>3, <1>1 DEF Reachable
<1>7. TypeOK'
  BY <1>1, <1>2, <1>3, <1>5 DEF IInv, TypeOK, Edges
<1>8. Consistent'
  <2>1. Closed(HeapOfProgram', roots', refs')
    BY <1>1, <1>4, <1>5 DEF IInv, Consistent, Closed
  <2> QED
    BY <2>1, <1>1, <1>4, <1>6 DEF IInv, Consistent
<1>9. marked' \subseteq unswept'
  BY <1>1, <1>2, <1>3
<1> QED
  BY <1>1, <1>3, <1>4, <1>5, <1>6, <1>7, <1>8, <1>9 DEF IInv, TricolorOK

LEMMA EndSweepStep ==
  ASSUME IInv, endSweep
  PROVE  IInv' /\ HeapOfProgram' = HeapOfProgram
<1>1. /\ phase = "sweep" /\ phase' = "serve" /\ unswept = {}
      /\ UNCHANGED <<heap, strings, marked, gray, unswept, request, roots, refs>>
  BY DEF endSweep, program, collector
<1>2. marked = {}
  BY <1>1 DEF IInv
<1>3. HeapOfProgram = heap /\ HeapOfProgram' = heap /\ Reachable' = Reachable
  BY <1>1, <1>2 DEF HeapOfProgram, Reachable
<1>4. TypeOK'
  BY <1>1, <1>2 DEF IInv, TypeOK, Phases
<1>5. Consistent'
  BY <1>1, <1>3 DEF IInv, Consistent, Closed
<1> QED
  BY <1>1, <1>2, <1>3, <1>4, <1>5 DEF IInv, TricolorOK

----------------------------------------------------------------------------
(* The theorems.                                                           *)

THEOREM InitIInv == Init => IInv
BY ArrayIsRequest
   DEF Init, IInv, TypeOK, Phases, Consistent, Closed, TricolorOK, HeapOfProgram

THEOREM IInvIsInductive == IInv /\ [Next]_vars => IInv'
<1> SUFFICES ASSUME IInv, [Next]_vars PROVE IInv'
  OBVIOUS
<1>1. CASE Program
  BY <1>1, ProgramStep
<1>2. CASE Serve
  BY <1>2, ServeStep
<1>3. CASE Collect
  BY <1>3, MarkRootsStep, BlackenStep, RemoveWhiteStep, SweepStep, EndSweepStep
     DEF Collect
<1>4. CASE UNCHANGED vars
  BY <1>4 DEF vars, IInv, TypeOK, Consistent, TricolorOK, HeapOfProgram, Reachable
<1> QED
  BY <1>1, <1>2, <1>3, <1>4 DEF Next

THEOREM Invariance == Spec => []IInv
BY InitIInv, IInvIsInductive, PTL DEF Spec

(* The variables of the collector keep their types. *)
THEOREM TypeCorrect == Spec => []TypeOK
<1>1. IInv => TypeOK
  BY DEF IInv
<1> QED
  BY <1>1, Invariance, PTL

(* No object that the program can still get at is freed. *)
THEOREM CollectorIsSafe == Spec => []NothingLiveIsFreed
<1>1. IInv => NothingLiveIsFreed
  <2> SUFFICES ASSUME IInv PROVE NothingLiveIsFreed
    OBVIOUS
  <2>1. HeapOfProgram \subseteq heap
    BY DEF IInv, TypeOK, HeapOfProgram
  <2> QED
    BY <2>1, ReachableIsInHeap DEF IInv, Consistent, NothingLiveIsFreed
<1> QED
  BY <1>1, Invariance, PTL

(* The sweep leaves exactly the reachable objects. *)
THEOREM SweepLeavesTheReachable == Spec => []SweepIsExact
<1>1. IInv => SweepIsExact
  BY DEF IInv, Consistent, SweepIsExact, HeapOfProgram
<1> QED
  BY <1>1, Invariance, PTL

----------------------------------------------------------------------------
(* The collector implements a collection in one step.                      *)

RefsOfProgram == [o \in Obj |-> IF o \in HeapOfProgram THEN refs[o] ELSE {}]

(* The program gets at the same objects by either set of references. *)
LEMMA LiveIsReachable ==
  ASSUME IInv
  PROVE  AtOnce!Live = Reachable
<1>1. AtOnce!Live = ReachableFrom(roots, RefsOfProgram)
  BY DEF AtOnce!Live, AtOnce!ReachableFrom, AtOnce!Closed, ReachableFrom, Closed,
         RefsOfProgram
<1>2. /\ roots \in SUBSET Obj /\ refs \in Edges /\ RefsOfProgram \in Edges
      /\ HeapOfProgram \in SUBSET Obj /\ Closed(HeapOfProgram, roots, refs)
      /\ \A o \in HeapOfProgram : RefsOfProgram[o] = refs[o]
  BY Types DEF IInv, Consistent, RefsOfProgram, Edges
<1>3. ReachableFrom(roots, RefsOfProgram) = ReachableFrom(roots, refs)
  BY <1>2, ReachableInside
<1> QED
  BY <1>1, <1>3 DEF Reachable

(* Steps of the collector that the program does not see. *)
LEMMA UnseenStep ==
  ASSUME HeapOfProgram' = HeapOfProgram, UNCHANGED <<roots, strings>>,
         \A o \in HeapOfProgram : refs'[o] = refs[o]
  PROVE  UNCHANGED AtOnce!gcVars
<1>1. RefsOfProgram' = RefsOfProgram
  BY DEF RefsOfProgram
<1> QED
  BY <1>1 DEF AtOnce!gcVars, RefsOfProgram

LEMMA ProgramImplements ==
  ASSUME IInv, Program
  PROVE  AtOnce!Next \/ UNCHANGED AtOnce!gcVars
<1>1. /\ phase = "idle" /\ UNCHANGED <<heap, strings, marked, gray, unswept>>
      /\ phase' # "sweep"
  BY DEF Program, Write, Root, Unroot, Interned, reallocate, Ask, collector
<1>2. HeapOfProgram = heap /\ HeapOfProgram' = heap /\ Reachable \subseteq heap
  BY <1>1, Quiet DEF HeapOfProgram
<1>3. ASSUME NEW o \in Obj, NEW out \in SUBSET Obj, Write(o, out)
      PROVE  AtOnce!Write(o, out)
  <2>1. /\ o \in Reachable /\ out \subseteq Reachable
        /\ refs' = [refs EXCEPT ![o] = out] /\ roots' = roots
    BY <1>3 DEF Write
  <2>2. RefsOfProgram' = [RefsOfProgram EXCEPT ![o] = out]
    BY <2>1, <1>2, Types DEF IInv, RefsOfProgram, Edges
  <2> QED
    BY <2>1, <2>2, <1>1, <1>2, LiveIsReachable DEF AtOnce!Write, RefsOfProgram
<1>4. ASSUME NEW o \in Obj, Root(o) PROVE AtOnce!Root(o)
  <2>1. RefsOfProgram' = RefsOfProgram
    BY <1>2, <1>4 DEF RefsOfProgram, Root
  <2> QED
    BY <2>1, <1>1, <1>2, <1>4, LiveIsReachable DEF AtOnce!Root, Root, RefsOfProgram
<1>5. ASSUME NEW o \in Obj, Unroot(o) PROVE AtOnce!Unroot(o)
  <2>1. RefsOfProgram' = RefsOfProgram
    BY <1>2, <1>5 DEF RefsOfProgram, Unroot
  <2> QED
    BY <2>1, <1>1, <1>2, <1>5 DEF AtOnce!Unroot, Unroot, RefsOfProgram
<1>6. ASSUME NEW o \in Obj, Interned(o) PROVE AtOnce!Intern(o)
  <2>1. RefsOfProgram' = RefsOfProgram
    BY <1>2, <1>6 DEF RefsOfProgram, Interned
  <2> QED
    BY <2>1, <1>1, <1>2, <1>6 DEF AtOnce!Intern, Interned, RefsOfProgram
<1>7. ASSUME NEW kind \in {"object", "string", "array"}, NEW out \in SUBSET Obj,
             reallocate(kind, out)
      PROVE  UNCHANGED AtOnce!gcVars
  BY <1>1, <1>2, <1>7, UnseenStep DEF reallocate, program
<1> QED
  BY <1>3, <1>4, <1>5, <1>6, <1>7 DEF Program, AtOnce!Next

LEMMA ServeImplements ==
  ASSUME IInv, Serve
  PROVE  AtOnce!Next \/ UNCHANGED AtOnce!gcVars
<1>1. phase = "serve" /\ phase' # "sweep"
  BY DEF Serve, growArray, internString, allocateObject, Ask
<1>2. /\ HeapOfProgram = heap /\ HeapOfProgram' = heap' /\ Reachable \subseteq heap
      /\ request.out \subseteq Reachable /\ request.out \in SUBSET Obj
      /\ heap \in SUBSET Obj /\ refs \in Edges
  BY <1>1, Quiet, RequestFacts DEF HeapOfProgram
<1>3. CASE growArray
  BY <1>2, <1>3, UnseenStep DEF growArray, program
<1>4. CASE internString
  <2>1. /\ strings' = strings \cup request.out
        /\ UNCHANGED <<heap, roots, refs>>
    BY <1>4 DEF internString, program
  <2>2. RefsOfProgram' = RefsOfProgram
    BY <2>1, <1>2 DEF RefsOfProgram
  <2>3. PICK o \in Obj : request.out = {o}
    BY <1>4, RequestFacts DEF IInv, TypeOK, internString
  <2> QED
    BY <2>1, <2>2, <2>3, <1>2, LiveIsReachable
       DEF AtOnce!Next, AtOnce!AddString, RefsOfProgram
<1>5. ASSUME NEW o \in Obj, allocateObject(o),
             NEW out \in SUBSET Obj, out = request.out
      PROVE  AtOnce!Allocate(o, out)
  <2>1. /\ o \notin heap /\ heap' = heap \cup {o} /\ roots' = roots \cup {o}
        /\ refs' = [refs EXCEPT ![o] = out] /\ strings' = strings
    BY <1>5 DEF allocateObject
  <2>2. RefsOfProgram' = [RefsOfProgram EXCEPT ![o] = out]
    BY <2>1, <1>2 DEF RefsOfProgram, Edges
  <2> QED
    BY <2>1, <2>2, <1>2, <1>5, LiveIsReachable DEF AtOnce!Allocate, RefsOfProgram
<1>6. ASSUME NEW o \in Obj, allocateObject(o) PROVE AtOnce!Next
  <2>1. PICK out \in SUBSET Obj : out = request.out
    BY <1>2
  <2>2. AtOnce!Allocate(o, out)
    BY <2>1, <1>5, <1>6
  <2> QED
    BY <2>2 DEF AtOnce!Next
<1> QED
  BY <1>3, <1>4, <1>6 DEF Serve

LEMMA CollectImplements ==
  ASSUME IInv, Collect
  PROVE  AtOnce!Next \/ UNCHANGED AtOnce!gcVars
<1>1. CASE markRoots
  BY <1>1, MarkRootsStep, UnseenStep DEF markRoots, program
<1>2. ASSUME NEW o \in Obj, blackenObject(o) PROVE UNCHANGED AtOnce!gcVars
  BY <1>2, BlackenStep, UnseenStep DEF blackenObject, program
<1>3. CASE tableRemoveWhite
  <2>1. /\ HeapOfProgram' = Reachable /\ HeapOfProgram = heap
        /\ strings' = strings \cap Reachable
    BY <1>3, RemoveWhiteStep
  <2>2. UNCHANGED <<roots, refs>> /\ Reachable \subseteq heap
    BY <1>3, <2>1, ReachableIsInHeap DEF tableRemoveWhite, program
  <2>3. RefsOfProgram' =
          [o \in Obj |-> IF o \in Reachable THEN RefsOfProgram[o] ELSE {}]
    BY <2>1, <2>2 DEF RefsOfProgram
  <2> QED
    BY <2>1, <2>2, <2>3, LiveIsReachable DEF AtOnce!Next, AtOnce!Collect, RefsOfProgram
<1>4. ASSUME NEW o \in Obj, sweepObject(o) PROVE UNCHANGED AtOnce!gcVars
  BY <1>4, SweepStep, UnseenStep DEF sweepObject
<1>5. CASE endSweep
  BY <1>5, EndSweepStep, UnseenStep DEF endSweep, program
<1> QED
  BY <1>1, <1>2, <1>3, <1>4, <1>5 DEF Collect

(* To the program a collection is one step that frees the unreachable. *)
THEOREM CollectorImplementsGC == Spec => CollectsAtOnce
<1>1. Init => AtOnce!Init
  BY DEF Init, AtOnce!Init, HeapOfProgram
<1>2. IInv /\ [Next]_vars => [AtOnce!Next]_(AtOnce!gcVars)
  <2> SUFFICES ASSUME IInv, [Next]_vars
               PROVE  AtOnce!Next \/ UNCHANGED AtOnce!gcVars
    OBVIOUS
  <2>1. CASE UNCHANGED vars
    BY <2>1, UnseenStep DEF vars, HeapOfProgram
  <2> QED
    BY <2>1, ProgramImplements, ServeImplements, CollectImplements DEF Next
<1> QED
  BY <1>1, <1>2, Invariance, PTL DEF Spec, CollectsAtOnce, AtOnce!Spec
=============================================================================
