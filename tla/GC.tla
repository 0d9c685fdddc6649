--------------------------------- MODULE GC ---------------------------------
(***************************************************************************)
(* What the collector promises to the rest of the interpreter: at any      *)
(* allocation the heap may shrink, at once, to exactly the objects that    *)
(* the roots reach, and the table of interned strings forgets the strings  *)
(* that went.  Module Collector implements this with marks, a gray stack   *)
(* and a sweep.                                                            *)
(***************************************************************************)
EXTENDS Reach

VARIABLES
  heap,      \* objects allocated and not freed
  roots,     \* objects named by the stack, frames, globals, compiler...
  refs,      \* the objects that an object refers to
  strings    \* the interned strings, weak references to the heap

gcVars == <<heap, roots, refs, strings>>

(* What the program can get at. *)
Live == ReachableFrom(roots, refs)

Init ==
  /\ heap    = {}
  /\ roots   = {}
  /\ refs    = [o \in Obj |-> {}]
  /\ strings = {}

(* A new object refers to live ones and is on the stack.                   *)
Allocate(o, out) ==
  /\ o \notin heap
  /\ out \subseteq Live
  /\ heap'  = heap \cup {o}
  /\ refs'  = [refs EXCEPT ![o] = out]
  /\ roots' = roots \cup {o}
  /\ UNCHANGED strings

AddString(o) ==
  /\ o \in Live
  /\ strings' = strings \cup {o}
  /\ UNCHANGED <<heap, roots, refs>>

(* The program changes the references of live objects.                     *)
Write(o, out) ==
  /\ o \in Live
  /\ out \subseteq Live
  /\ refs' = [refs EXCEPT ![o] = out]
  /\ UNCHANGED <<heap, roots, strings>>

Root(o) ==
  /\ o \in Live
  /\ roots' = roots \cup {o}
  /\ UNCHANGED <<heap, refs, strings>>

Unroot(o) ==
  /\ roots' = roots \ {o}
  /\ UNCHANGED <<heap, refs, strings>>

(* Interning finds a string again, a dead one too while it is there.       *)
Intern(o) ==
  /\ o \in strings
  /\ roots' = roots \cup {o}
  /\ UNCHANGED <<heap, refs, strings>>

Collect ==
  /\ heap'    = Live
  /\ strings' = strings \cap Live
  /\ refs'    = [o \in Obj |-> IF o \in Live THEN refs[o] ELSE {}]
  /\ UNCHANGED roots

Next ==
  \/ \E o \in Obj, out \in SUBSET Obj : Allocate(o, out) \/ Write(o, out)
  \/ \E o \in Obj : AddString(o) \/ Root(o) \/ Unroot(o) \/ Intern(o)
  \/ Collect

Spec == Init /\ [][Next]_gcVars
=============================================================================
