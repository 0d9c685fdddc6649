--------------------------- MODULE ClosuresProofs --------------------------
(***************************************************************************)
(* Upvalues stand for variables, whatever program runs and however large   *)
(* the stack, the frames and the numbers of closures and variables are.    *)
(***************************************************************************)
EXTENDS Closures, SequenceTheorems, WellFoundedInduction, TLAPS

----------------------------------------------------------------------------
(* The inductive invariant.                                                *)

Held       == Data \cup 1..Len(closures)
LocalType  == [variable : Variable, isCaptured : BOOLEAN]
FrameType  == [closure : 0..Len(closures), slots : Nat, locals : Seq(LocalType)]
ClosureType == [arity : 0..MaxArity, upvalues : Seq(1..Len(upvalues))]
UpvalueType ==
  [variable : Variable, location : (Slot \ {0}) \cup {CLOSED}, closed : Held]

(* The variables have their types, and the script's closure, which is no   *)
(* value of the language, lies only at the bottom of the stack.            *)
Typed ==
  /\ stack \in [Slot -> Data \cup 0..Len(closures)]
  /\ \A s \in Slot \ {0} : stack[s] # 0
  /\ stackTop \in 0..StackMax
  /\ frames \in Seq(FrameType)
  /\ closures \in Seq(ClosureType)
  /\ upvalues \in Seq(UpvalueType)
  /\ openUpvalues \in Seq(1..Len(upvalues))
  /\ filling \in 0..MaxUpvalues
  /\ global \in Held \cup {UNDEFINED}
  /\ ready \in BOOLEAN

(* The locals of call i are in the slots above frames[i].slots, up to this *)
(* one.                                                                    *)
TopLocal(i) == frames[i].slots + Len(frames[i].locals)

Stacked ==
  /\ Len(frames) <= FramesMax
  /\ frames = <<>> => stackTop = 0
  /\ frames # <<>> => frames[1].slots = 0 /\ ~ready
  /\ \A i \in 1..Len(frames) :
       /\ TopLocal(i) < stackTop
       /\ \A j \in (i + 1)..Len(frames) : TopLocal(i) < frames[j].slots

(* Position j of call i is a local variable.                               *)
IsLocal(i, j) == i \in 1..Len(frames) /\ j \in 1..Len(frames[i].locals)
LocalAt(i, j) == frames[i].locals[j]
SlotOf(i, j)  == frames[i].slots + j

Distinct ==
  \A i, j, k, l : IsLocal(i, j) /\ IsLocal(k, l)
                    /\ LocalAt(i, j).variable = LocalAt(k, l).variable
                 => i = k /\ j = l

(* An upvalue of the list stands for a captured local variable.            *)
Listed ==
  \A n \in 1..Len(openUpvalues) : \E i, j :
    /\ IsLocal(i, j)
    /\ LocalAt(i, j).isCaptured
    /\ LocalAt(i, j).variable = upvalues[openUpvalues[n]].variable
    /\ SlotOf(i, j) = Location(n)

Descending ==
  \A m, n \in 1..Len(openUpvalues) : m < n => Location(m) > Location(n)

(* An upvalue of a local variable is in the list.                          *)
Found ==
  \A u \in 1..Len(upvalues) : \A i, j :
    IsLocal(i, j) /\ LocalAt(i, j).variable = upvalues[u].variable =>
      /\ upvalues[u].location = SlotOf(i, j)
      /\ \E n \in 1..Len(openUpvalues) : openUpvalues[n] = u

Shared ==
  \A u, w \in 1..Len(upvalues) : upvalues[u].variable = upvalues[w].variable => u = w

(* Of a script from a file no upvalue is left behind.                      *)
NoneLeft ==
  ~Repl /\ (frames # <<>> \/ ready) =>
    \A u \in 1..Len(upvalues) : upvalues[u].location # CLOSED =>
      \E n \in 1..Len(openUpvalues) : openUpvalues[n] = u

(* The closure that OP_CLOSURE fills is on top of the stack.               *)
Fills ==
  filling > 0 =>
    frames # <<>> /\ closures # <<>> /\ stackTop > 0 /\ peek(0) = Len(closures)

IInv ==
  /\ Typed
  /\ Stacked
  /\ Distinct
  /\ Listed
  /\ Descending
  /\ Found
  /\ Shared
  /\ NoneLeft
  /\ Fills

----------------------------------------------------------------------------
(* Sequences.                                                              *)

LEMMA LastAndFront ==
  ASSUME NEW S, NEW s \in Seq(S), s # <<>>
  PROVE  /\ Len(s) \in Nat \ {0}
         /\ Last(s) = s[Len(s)] /\ Last(s) \in S
         /\ Front(s) \in Seq(S) /\ Len(Front(s)) = Len(s) - 1
         /\ \A i \in 1..(Len(s) - 1) : Front(s)[i] = s[i]
<1>1. Len(s) \in Nat \ {0}
  BY EmptySeq, LenProperties
<1>2. /\ Last(s) = s[Len(s)] /\ Last(s) \in S
  BY <1>1, ElementOfSeq DEF Last
<1>3. /\ Front(s) \in Seq(S) /\ Len(Front(s)) = Len(s) - 1
      /\ \A i \in 1..(Len(s) - 1) : Front(s)[i] = s[i]
  <2>1. \A i \in 1..(Len(s) - 1) : s[i] \in S
    BY <1>1, ElementOfSeq
  <2>2. Front(s) = SubSeq(s, 1, Len(s) - 1)
    BY DEF Front
  <2> DEFINE n == Len(s) - 1
  <2>3. \A i \in 1..n : s[i] \in S
    BY <2>1
  <2>4. n \in Nat
    BY <1>1
  <2> HIDE DEF n
  <2>5. /\ SubSeq(s, 1, n) \in Seq(S) /\ Len(SubSeq(s, 1, n)) = n
        /\ \A i \in 1..n : SubSeq(s, 1, n)[i] = s[i]
    BY <2>3, <2>4, SubSeqProperties
  <2> QED
    BY <2>2, <2>5 DEF n
<1> QED
  BY <1>1, <1>2, <1>3

(* t is s with e inserted at position p. *)
IsInsertion(t, s, p, e) ==
  /\ Len(t) = Len(s) + 1
  /\ \A i \in 1..(Len(s) + 1) :
       t[i] = IF i < p THEN s[i] ELSE IF i = p THEN e ELSE s[i - 1]

LEMMA Inserted ==
  ASSUME NEW S, NEW s \in Seq(S), NEW p \in 1..(Len(s) + 1), NEW e \in S
  PROVE  InsertAt(s, p, e) \in Seq(S) /\ IsInsertion(InsertAt(s, p, e), s, p, e)
<1> DEFINE a == SubSeq(s, 1, p - 1)
           b == SubSeq(s, p, Len(s))
<1>1. /\ a \in Seq(S) /\ Len(a) = p - 1 /\ \A i \in 1..(p - 1) : a[i] = s[i]
      /\ b \in Seq(S) /\ Len(b) = Len(s) - p + 1
      /\ \A i \in 1..(Len(s) - p + 1) : b[i] = s[p + i - 1]
  OBVIOUS
<1>2. InsertAt(s, p, e) = (a \o <<e>>) \o b
  BY DEF InsertAt
<1> HIDE DEF a, b
<1>3. /\ a \o <<e>> \in Seq(S) /\ Len(a \o <<e>>) = p
      /\ \A i \in 1..p : (a \o <<e>>)[i] = IF i < p THEN s[i] ELSE e
  BY <1>1, SMTT(30)
<1> DEFINE c == a \o <<e>>
<1>4. c \in Seq(S) /\ Len(c) = p /\ \A i \in 1..p : c[i] = IF i < p THEN s[i] ELSE e
  BY <1>3
<1> HIDE DEF c
<1>5. /\ c \o b \in Seq(S)
      /\ Len(c \o b) = Len(c) + Len(b)
      /\ \A i \in 1..(Len(c) + Len(b)) : (c \o b)[i] = IF i <= Len(c) THEN c[i] ELSE b[i - Len(c)]
  BY <1>1, <1>4, ConcatProperties
<1>6. Len(c) + Len(b) = Len(s) + 1
  BY <1>1, <1>4
<1>7. ASSUME NEW i \in 1..(Len(s) + 1)
      PROVE  (c \o b)[i] = IF i < p THEN s[i] ELSE IF i = p THEN e ELSE s[i - 1]
  <2>1. CASE i <= p
    BY <1>4, <1>5, <1>6, <2>1
  <2>2. CASE i > p
    <3>1. i - p \in 1..(Len(s) - p + 1) /\ p + (i - p) - 1 = i - 1
      BY <2>2
    <3>2. (c \o b)[i] = b[i - p]
      BY <1>4, <1>5, <1>6, <2>2
    <3> QED
      BY <1>1, <2>2, <3>1, <3>2
  <2> QED
    BY <1>6, <2>1, <2>2, LenProperties
<1> QED
  BY <1>2, <1>5, <1>6, <1>7 DEF c, IsInsertion

LEMMA FunctionIsSeq ==
  ASSUME NEW S, NEW n \in Nat, NEW f \in [1..n -> S]
  PROVE  f \in Seq(S) /\ Len(f) = n
<1>1. f \in Seq(S)
  BY SeqDef
<1>2. Len(f) \in Nat /\ 1..Len(f) = 1..n
  BY <1>1, LenProperties
<1>3. Len(f) = n
  <2>1. n \in 1..n \/ n = 0
    OBVIOUS
  <2>2. Len(f) \in 1..Len(f) \/ Len(f) = 0
    BY <1>2
  <2> QED
    BY <1>2, <2>1, <2>2
<1> QED
  BY <1>1, <1>3

LEMMA RangeIs ==
  ASSUME NEW S, NEW s \in Seq(S)
  PROVE  /\ Range(s) \subseteq S
         /\ \A x : x \in Range(s) <=> \E i \in 1..Len(s) : s[i] = x
BY DEF Range

(* A set of numbers that is not empty has a least one.                     *)
LEMMA First ==
  ASSUME NEW P, P \subseteq Nat, P # {}
  PROVE  \E p \in P : \A i \in P : p <= i
<1>1. PICK p \in P : \A i \in P : <<i, p>> \notin OpToRel(<, Nat)
  BY WFMin, NatLessThanWellFounded
<1>2. \A i \in P : ~(i < p)
  BY <1>1 DEF OpToRel
<1> QED
  BY <1>2

----------------------------------------------------------------------------
(* Calls and their local variables.                                        *)

LEMMA TypeFacts ==
  ASSUME IInv
  PROVE  /\ StackMax \in Nat /\ stackTop \in 0..StackMax
         /\ Len(frames) \in Nat /\ DOMAIN frames = 1..Len(frames)
         /\ Len(closures) \in Nat /\ DOMAIN closures = 1..Len(closures)
         /\ Len(upvalues) \in Nat /\ DOMAIN upvalues = 1..Len(upvalues)
         /\ Len(openUpvalues) \in Nat /\ DOMAIN openUpvalues = 1..Len(openUpvalues)
         /\ \A i \in 1..Len(frames) : frames[i] \in FrameType
         /\ \A c \in 1..Len(closures) : closures[c] \in ClosureType
         /\ \A u \in 1..Len(upvalues) : upvalues[u] \in UpvalueType
         /\ \A n \in 1..Len(openUpvalues) : openUpvalues[n] \in 1..Len(upvalues)
<1>1. StackMax \in Nat /\ stackTop \in 0..StackMax
  BY ClosuresAssumption DEF IInv, Typed
<1>2. /\ frames \in Seq(FrameType)
      /\ closures \in Seq(ClosureType)
      /\ upvalues \in Seq(UpvalueType)
      /\ openUpvalues \in Seq(1..Len(upvalues))
  BY DEF IInv, Typed
<1>3. /\ Len(frames) \in Nat /\ DOMAIN frames = 1..Len(frames)
      /\ \A i \in 1..Len(frames) : frames[i] \in FrameType
  BY <1>2, LenProperties, ElementOfSeq
<1>4. /\ Len(closures) \in Nat /\ DOMAIN closures = 1..Len(closures)
      /\ \A c \in 1..Len(closures) : closures[c] \in ClosureType
  BY <1>2, LenProperties, ElementOfSeq
<1>5. /\ Len(upvalues) \in Nat /\ DOMAIN upvalues = 1..Len(upvalues)
      /\ \A u \in 1..Len(upvalues) : upvalues[u] \in UpvalueType
  BY <1>2, LenProperties, ElementOfSeq
<1>6. /\ Len(openUpvalues) \in Nat /\ DOMAIN openUpvalues = 1..Len(openUpvalues)
      /\ \A n \in 1..Len(openUpvalues) : openUpvalues[n] \in 1..Len(upvalues)
  BY <1>2, LenProperties, ElementOfSeq
<1> QED
  BY <1>1, <1>3, <1>4, <1>5, <1>6

LEMMA LocalFacts ==
  ASSUME IInv, NEW i \in 1..Len(frames)
  PROVE  /\ frames[i].closure \in 0..Len(closures)
         /\ frames[i].slots \in Nat
         /\ frames[i].locals \in Seq(LocalType)
         /\ Len(frames[i].locals) \in Nat
         /\ DOMAIN frames[i].locals = 1..Len(frames[i].locals)
         /\ \A j \in 1..Len(frames[i].locals) :
              /\ frames[i].locals[j] \in LocalType
              /\ SlotOf(i, j) \in Slot \ {0}
              /\ SlotOf(i, j) < stackTop
<1>1. /\ frames[i].closure \in 0..Len(closures)
      /\ frames[i].slots \in Nat
      /\ frames[i].locals \in Seq(LocalType)
  BY TypeFacts DEF FrameType
<1>2. /\ Len(frames[i].locals) \in Nat
      /\ DOMAIN frames[i].locals = 1..Len(frames[i].locals)
      /\ \A j \in 1..Len(frames[i].locals) : frames[i].locals[j] \in LocalType
  BY <1>1, LenProperties, ElementOfSeq
<1>3. frames[i].slots + Len(frames[i].locals) < stackTop
  BY DEF IInv, Stacked, TopLocal
<1>4. ASSUME NEW j \in 1..Len(frames[i].locals)
      PROVE  SlotOf(i, j) \in Slot \ {0} /\ SlotOf(i, j) < stackTop
  BY <1>1, <1>2, <1>3, TypeFacts, SMTT(30) DEF SlotOf, Slot
<1> QED
  BY <1>1, <1>2, <1>4

(* The running call.                                                       *)
LEMMA TopFacts ==
  ASSUME IInv, frames # <<>>
  PROVE  /\ Len(frames) \in Nat \ {0}
         /\ Frame = frames[Len(frames)] /\ Frame \in FrameType
         /\ Frame.closure \in 0..Len(closures)
         /\ Frame.slots \in Nat
         /\ Locals \in Seq(LocalType) /\ Len(Locals) \in Nat
         /\ DOMAIN Locals = 1..Len(Locals)
         /\ Operands \in Nat
         /\ stackTop = Frame.slots + 1 + Len(Locals) + Operands
         /\ \A j \in 1..Len(Locals) :
              /\ IsLocal(Len(frames), j)
              /\ LocalAt(Len(frames), j) = Locals[j]
              /\ SlotOf(Len(frames), j) = Frame.slots + j
<1>1. Len(frames) \in Nat \ {0} /\ Frame = frames[Len(frames)] /\ Frame \in FrameType
  BY LastAndFront DEF IInv, Typed, Frame
<1>2. Len(frames) \in 1..Len(frames)
  BY <1>1
<1>3. /\ Frame.closure \in 0..Len(closures)
      /\ Frame.slots \in Nat
      /\ Locals \in Seq(LocalType) /\ Len(Locals) \in Nat
      /\ DOMAIN Locals = 1..Len(Locals)
  BY <1>1, <1>2, LocalFacts DEF Locals
<1>4. Frame.slots + Len(Locals) < stackTop
  BY <1>1, <1>2 DEF IInv, Stacked, TopLocal, Locals
<1>5. Operands \in Nat /\ stackTop = Frame.slots + 1 + Len(Locals) + Operands
  BY <1>3, <1>4, TypeFacts DEF Operands
<1>6. ASSUME NEW j \in 1..Len(Locals)
      PROVE  /\ IsLocal(Len(frames), j)
             /\ LocalAt(Len(frames), j) = Locals[j]
             /\ SlotOf(Len(frames), j) = Frame.slots + j
  BY <1>1, <1>2 DEF IsLocal, LocalAt, SlotOf, Locals
<1> QED
  BY <1>1, <1>3, <1>5, <1>6

----------------------------------------------------------------------------
(* What a step does to the variables and their upvalues.                   *)

OnVariables ==
  Distinct /\ Listed /\ Descending /\ Found /\ Shared /\ NoneLeft

(* Of the upvalues a step changes the values of closed ones at most.       *)
SameUpvalues ==
  /\ openUpvalues' = openUpvalues
  /\ Len(upvalues') = Len(upvalues)
  /\ \A u \in 1..Len(upvalues) :
       /\ upvalues'[u].variable = upvalues[u].variable
       /\ upvalues'[u].location = upvalues[u].location

LEMMA Quiet ==
  ASSUME IInv, frames' = frames, ready' = ready, SameUpvalues
  PROVE  OnVariables'
<1>1. \A n \in 1..Len(openUpvalues) :
        /\ openUpvalues[n] \in 1..Len(upvalues)
        /\ Location(n)' = Location(n)
        /\ upvalues[openUpvalues[n]]'.variable = upvalues[openUpvalues[n]].variable
  BY TypeFacts DEF SameUpvalues, Location
<1>2. /\ \A i, j : IsLocal(i, j)' <=> IsLocal(i, j)
      /\ \A i, j : LocalAt(i, j)' = LocalAt(i, j) /\ SlotOf(i, j)' = SlotOf(i, j)
  BY DEF IsLocal, LocalAt, SlotOf
<1>3. Distinct'
  BY <1>2 DEF IInv, Distinct
<1>4. Listed' /\ Descending'
  BY <1>1, <1>2 DEF IInv, Listed, Descending, SameUpvalues
<1>5. Found'
  BY <1>2 DEF IInv, Found, SameUpvalues
<1>6. Shared' /\ NoneLeft'
  BY DEF IInv, Shared, NoneLeft, SameUpvalues
<1> QED
  BY <1>3, <1>4, <1>5, <1>6 DEF OnVariables

(* A step that declares variables: it gives each slot a new variable.      *)
Declares ==
  /\ UNCHANGED <<upvalues, openUpvalues, ready>>
  /\ frames # <<>>
  /\ \A i, j : IsLocal(i, j) =>
       /\ IsLocal(i, j)'
       /\ LocalAt(i, j)' = LocalAt(i, j)
       /\ SlotOf(i, j)' = SlotOf(i, j)
  /\ \A i, j : IsLocal(i, j)' /\ ~IsLocal(i, j) =>
       LocalAt(i, j)'.variable \notin Living
  /\ \A i, j, k, l :
       /\ IsLocal(i, j)' /\ ~IsLocal(i, j)
       /\ IsLocal(k, l)' /\ ~IsLocal(k, l)
       /\ LocalAt(i, j)'.variable = LocalAt(k, l)'.variable
       => i = k /\ j = l

LEMMA LivingFacts ==
  ASSUME IInv
  PROVE  /\ \A i, j : IsLocal(i, j) => LocalAt(i, j).variable \in Living
         /\ \A u \in 1..Len(upvalues) : upvalues[u].variable \in Living
<1>1. ASSUME NEW i, NEW j, IsLocal(i, j)
      PROVE  LocalAt(i, j).variable \in Living
  <2>1. i \in 1..Len(frames) /\ j \in DOMAIN frames[i].locals
    BY <1>1, LocalFacts DEF IsLocal
  <2>2. frames[i] \in Range(frames)
    BY <2>1, TypeFacts DEF Range
  <2>3. LocalAt(i, j).variable \in LocalsOf(frames[i])
    BY <2>1 DEF LocalsOf, LocalAt
  <2> QED
    BY <2>2, <2>3 DEF Living
<1>2. ASSUME NEW u \in 1..Len(upvalues)
      PROVE  upvalues[u].variable \in Living
  <2>1. upvalues[u] \in Range(upvalues)
    BY TypeFacts DEF Range
  <2>2. upvalues[u].variable \in {w.variable : w \in Range(upvalues)}
    BY <2>1
  <2> QED
    BY <2>2 DEF Living
<1> QED
  BY <1>1, <1>2

LEMMA Declared ==
  ASSUME IInv, Declares
  PROVE  OnVariables'
<1> USE DEF Declares
<1>1. ASSUME NEW i, NEW j, NEW k, NEW l, IsLocal(i, j)', IsLocal(k, l)',
             LocalAt(i, j)'.variable = LocalAt(k, l)'.variable
      PROVE  i = k /\ j = l
  <2>1. CASE IsLocal(i, j) /\ IsLocal(k, l)
    BY <1>1, <2>1 DEF IInv, Distinct
  <2>2. CASE ~IsLocal(i, j) /\ IsLocal(k, l)
    BY <1>1, <2>2, LivingFacts
  <2>3. CASE IsLocal(i, j) /\ ~IsLocal(k, l)
    BY <1>1, <2>3, LivingFacts
  <2>4. CASE ~IsLocal(i, j) /\ ~IsLocal(k, l)
    BY <1>1, <2>4
  <2> QED
    BY <2>1, <2>2, <2>3, <2>4
<1>2. Distinct'
  BY <1>1 DEF Distinct
<1>3. Listed' /\ Descending'
  BY DEF IInv, Listed, Descending, Location
<1>4. Found'
  <2> SUFFICES ASSUME NEW u \in 1..Len(upvalues), NEW i, NEW j, IsLocal(i, j)',
                      LocalAt(i, j)'.variable = upvalues[u].variable
               PROVE  /\ upvalues[u].location = SlotOf(i, j)'
                      /\ \E n \in 1..Len(openUpvalues) : openUpvalues[n] = u
    BY DEF Found
  <2>1. IsLocal(i, j)
    BY LivingFacts
  <2> QED
    BY <2>1 DEF IInv, Found
<1>5. Shared' /\ NoneLeft'
  BY DEF IInv, Shared, NoneLeft
<1> QED
  BY <1>2, <1>3, <1>4, <1>5 DEF OnVariables

(* A step that takes the last local variable off, which no function        *)
(* captures.                                                               *)
Drops ==
  /\ UNCHANGED <<upvalues, openUpvalues, ready>>
  /\ frames # <<>>
  /\ \A i, j : IsLocal(i, j)' <=> IsLocal(i, j) /\ ~(i = Len(frames) /\ j = Len(Locals))
  /\ \A i, j : IsLocal(i, j)' =>
       /\ LocalAt(i, j)' = LocalAt(i, j)
       /\ SlotOf(i, j)' = SlotOf(i, j)
  /\ ~LocalAt(Len(frames), Len(Locals)).isCaptured

LEMMA Dropped ==
  ASSUME IInv, Drops
  PROVE  OnVariables'
<1> USE DEF Drops
<1>1. Distinct'
  BY DEF IInv, Distinct
<1>2. Listed'
  <2> SUFFICES ASSUME NEW n \in 1..Len(openUpvalues)
               PROVE  (\E i, j : /\ IsLocal(i, j)
                                 /\ LocalAt(i, j).isCaptured
                                 /\ LocalAt(i, j).variable = upvalues[openUpvalues[n]].variable
                                 /\ SlotOf(i, j) = Location(n))'
    BY DEF Listed
  <2>1. PICK i, j : /\ IsLocal(i, j)
                    /\ LocalAt(i, j).isCaptured
                    /\ LocalAt(i, j).variable = upvalues[openUpvalues[n]].variable
                    /\ SlotOf(i, j) = Location(n)
    BY DEF IInv, Listed
  <2>2. IsLocal(i, j)'
    BY <2>1
  <2> QED
    BY <2>1, <2>2 DEF Location
<1>3. Descending'
  BY DEF IInv, Descending, Location
<1>4. Found' /\ Shared' /\ NoneLeft'
  BY DEF IInv, Found, Shared, NoneLeft
<1> QED
  BY <1>1, <1>2, <1>3, <1>4 DEF OnVariables

----------------------------------------------------------------------------
(* Searching the list of open upvalues.                                    *)

LEMMA OpenFacts ==
  ASSUME IInv, NEW n \in 1..Len(openUpvalues)
  PROVE  /\ openUpvalues[n] \in 1..Len(upvalues)
         /\ Location(n) \in Slot \ {0} /\ Location(n) \in Nat /\ Location(n) < stackTop
         /\ Location(n) # CLOSED
<1>1. PICK i, j : IsLocal(i, j) /\ SlotOf(i, j) = Location(n)
  BY DEF IInv, Listed
<1>2. Location(n) \in Slot \ {0} /\ Location(n) < stackTop
  BY <1>1, LocalFacts DEF IsLocal
<1> QED
  BY <1>2, TypeFacts, ClosuresAssumption DEF Slot

LEMMA FirstNotAboveFacts ==
  ASSUME IInv, NEW slot \in Nat
  PROVE  /\ FirstNotAbove(slot) \in 1..(Len(openUpvalues) + 1)
         /\ \A n \in 1..(FirstNotAbove(slot) - 1) : Location(n) > slot
         /\ FirstNotAbove(slot) <= Len(openUpvalues) =>
              Location(FirstNotAbove(slot)) <= slot
<1> DEFINE P == {p \in 1..(Len(openUpvalues) + 1) :
                   p <= Len(openUpvalues) => Location(p) <= slot}
<1>1. Len(openUpvalues) \in Nat
  BY TypeFacts
<1>2. P \subseteq Nat /\ Len(openUpvalues) + 1 \in P
  BY <1>1
<1> HIDE DEF P
<1>3. PICK p \in P : \A i \in P : p <= i
  BY <1>2, First
<1> USE DEF P
<1>4. ASSUME NEW i \in 1..(p - 1)
      PROVE  Location(i) > slot
  <2>1. i \notin P /\ i <= Len(openUpvalues) /\ i \in 1..(Len(openUpvalues) + 1)
    BY <1>1, <1>3
  <2> QED
    BY <2>1, OpenFacts
<1>5. /\ p \in 1..(Len(openUpvalues) + 1)
      /\ \A i \in 1..(p - 1) : Location(i) > slot
      /\ p <= Len(openUpvalues) => Location(p) <= slot
  BY <1>3, <1>4
<1> QED
  BY <1>5 DEF FirstNotAbove

LEMMA FirstBelowFacts ==
  ASSUME IInv, NEW slot \in Nat
  PROVE  /\ FirstBelow(slot) \in 1..(Len(openUpvalues) + 1)
         /\ \A n \in 1..(FirstBelow(slot) - 1) : Location(n) >= slot
         /\ \A n \in FirstBelow(slot)..Len(openUpvalues) : Location(n) < slot
<1> DEFINE P == {p \in 1..(Len(openUpvalues) + 1) :
                   p <= Len(openUpvalues) => Location(p) < slot}
<1>1. Len(openUpvalues) \in Nat
  BY TypeFacts
<1>2. P \subseteq Nat /\ Len(openUpvalues) + 1 \in P
  BY <1>1
<1> HIDE DEF P
<1>3. PICK p \in P : \A i \in P : p <= i
  BY <1>2, First
<1> USE DEF P
<1>4. ASSUME NEW i \in 1..(p - 1)
      PROVE  Location(i) >= slot
  <2>1. i \notin P /\ i <= Len(openUpvalues) /\ i \in 1..(Len(openUpvalues) + 1)
    BY <1>1, <1>3
  <2> QED
    BY <2>1, OpenFacts
<1>5. /\ p \in 1..(Len(openUpvalues) + 1)
      /\ \A i \in 1..(p - 1) : Location(i) >= slot
      /\ p <= Len(openUpvalues) => Location(p) < slot
  BY <1>3, <1>4
<1> HIDE DEF P
<1>6. /\ FirstBelow(slot) \in 1..(Len(openUpvalues) + 1)
      /\ \A n \in 1..(FirstBelow(slot) - 1) : Location(n) >= slot
      /\ FirstBelow(slot) <= Len(openUpvalues) => Location(FirstBelow(slot)) < slot
  BY <1>5 DEF FirstBelow
<1>7. ASSUME NEW n \in FirstBelow(slot)..Len(openUpvalues)
      PROVE  Location(n) < slot
  <2>1. FirstBelow(slot) \in 1..Len(openUpvalues) /\ n \in 1..Len(openUpvalues)
    BY <1>1, <1>6
  <2>2. n = FirstBelow(slot) \/ Location(FirstBelow(slot)) > Location(n)
    BY <1>1, <1>6, <2>1 DEF IInv, Descending
  <2> QED
    BY <1>6, <2>1, <2>2, OpenFacts
<1> QED
  BY <1>6, <1>7

----------------------------------------------------------------------------
(* Closing.                                                                *)

(* The open upvalues from position n of the list on are closed upvalues.   *)
LEMMA CloseFacts ==
  ASSUME IInv, NEW n \in 0..Len(openUpvalues), CloseFirst(n)
  PROVE  /\ openUpvalues' \in Seq(1..Len(upvalues))
         /\ Len(openUpvalues') = Len(openUpvalues) - n
         /\ \A m \in 1..(Len(openUpvalues) - n) : openUpvalues'[m] = openUpvalues[n + m]
         /\ upvalues' \in Seq(UpvalueType) /\ Len(upvalues') = Len(upvalues)
         /\ \A u \in 1..Len(upvalues) : upvalues'[u].variable = upvalues[u].variable
         /\ \A m \in 1..n : upvalues'[openUpvalues[m]].location = CLOSED
         /\ \A u \in 1..Len(upvalues) :
              (\A m \in 1..n : openUpvalues[m] # u) => upvalues'[u] = upvalues[u]
<1>1. Len(openUpvalues) \in Nat
  BY TypeFacts
<1>2. /\ openUpvalues' \in Seq(1..Len(upvalues))
      /\ Len(openUpvalues') = Len(openUpvalues) - n
      /\ \A m \in 1..(Len(openUpvalues) - n) : openUpvalues'[m] = openUpvalues[n + m]
  <2>1. \A m \in (n + 1)..Len(openUpvalues) : openUpvalues[m] \in 1..Len(upvalues)
    BY <1>1, TypeFacts
  <2> DEFINE s == SubSeq(openUpvalues, n + 1, Len(openUpvalues))
             k == Len(openUpvalues)
  <2>2. openUpvalues' = s
    BY DEF CloseFirst
  <2>3. /\ s \in Seq(1..Len(upvalues))
        /\ Len(s) = IF n + 1 <= k THEN k - (n + 1) + 1 ELSE 0
        /\ \A m \in 1..(k - (n + 1) + 1) : s[m] = openUpvalues[n + 1 + m - 1]
    BY <1>1, <2>1, SubSeqProperties
  <2> HIDE DEF s
  <2> QED
    BY <1>1, <2>2, <2>3
<1>3. ASSUME NEW m \in 1..Len(openUpvalues)
      PROVE  stack[upvalues[openUpvalues[m]].location] \in Held
  <2>1. Location(m) \in Slot \ {0}
    BY OpenFacts
  <2>2. stack[Location(m)] \in Data \cup 0..Len(closures) /\ stack[Location(m)] # 0
    BY <2>1 DEF IInv, Typed
  <2> QED
    BY <2>2, TypeFacts DEF Held, Location
<1>4. upvalues' \in [1..Len(upvalues) -> UpvalueType]
  <2>1. ASSUME NEW u \in 1..Len(upvalues), NEW i \in 1..n, openUpvalues[i] = u
        PROVE  [variable |-> upvalues[u].variable,
                location |-> CLOSED,
                closed   |-> stack[upvalues[u].location]] \in UpvalueType
    <3>1. i \in 1..Len(openUpvalues)
      BY <1>1
    <3> QED
      BY <1>3, <2>1, <3>1, TypeFacts DEF UpvalueType
  <2> QED
    BY <2>1, TypeFacts DEF CloseFirst
<1>5. upvalues' \in Seq(UpvalueType) /\ Len(upvalues') = Len(upvalues)
  BY <1>4, FunctionIsSeq, TypeFacts
<1>6. \A u \in 1..Len(upvalues) : upvalues'[u].variable = upvalues[u].variable
  BY TypeFacts DEF CloseFirst
<1>7. \A m \in 1..n : upvalues'[openUpvalues[m]].location = CLOSED
  <2>1. \A m \in 1..n : openUpvalues[m] \in 1..Len(upvalues)
    BY <1>1, TypeFacts
  <2> QED
    BY <2>1, TypeFacts DEF CloseFirst
<1>8. \A u \in 1..Len(upvalues) :
        (\A m \in 1..n : openUpvalues[m] # u) => upvalues'[u] = upvalues[u]
  BY TypeFacts DEF CloseFirst
<1> QED
  BY <1>2, <1>5, <1>6, <1>7, <1>8

(* A step that closes the variables from a slot upwards.                   *)
Closes(slot) ==
  /\ closeUpvalues(slot)
  /\ frames # <<>>
  /\ \A i, j : IsLocal(i, j)' <=> IsLocal(i, j) /\ SlotOf(i, j) < slot
  /\ \A i, j : IsLocal(i, j)' =>
       /\ LocalAt(i, j)' = LocalAt(i, j)
       /\ SlotOf(i, j)' = SlotOf(i, j)

LEMMA Closed ==
  ASSUME IInv, NEW slot \in Nat, Closes(slot)
  PROVE  OnVariables'
<1> DEFINE n == FirstBelow(slot) - 1
           k == Len(openUpvalues)
<1>1. /\ k \in Nat /\ n \in 0..k
      /\ \A m \in 1..n : Location(m) >= slot
      /\ \A m \in (n + 1)..k : Location(m) < slot
  <2>1. k \in Nat /\ FirstBelow(slot) \in 1..(k + 1)
    BY FirstBelowFacts, TypeFacts
  <2>2. n \in 0..k /\ n + 1 = FirstBelow(slot)
    BY <2>1
  <2>3. \A m \in 1..n : Location(m) >= slot
    BY FirstBelowFacts
  <2>4. \A m \in (n + 1)..k : Location(m) < slot
    BY <2>2, FirstBelowFacts
  <2> QED
    BY <2>1, <2>2, <2>3, <2>4
<1>2. CloseFirst(n)
  BY DEF Closes, closeUpvalues
<1> HIDE DEF n
<1>3. /\ Len(openUpvalues') = k - n
      /\ \A m \in 1..(k - n) : openUpvalues'[m] = openUpvalues[n + m]
      /\ Len(upvalues') = Len(upvalues)
      /\ \A u \in 1..Len(upvalues) : upvalues'[u].variable = upvalues[u].variable
      /\ \A m \in 1..n : upvalues'[openUpvalues[m]].location = CLOSED
      /\ \A u \in 1..Len(upvalues) :
           (\A m \in 1..n : openUpvalues[m] # u) => upvalues'[u] = upvalues[u]
  BY <1>1, <1>2, CloseFacts
<1>4. \A i \in 1..k, j \in 1..k : openUpvalues[i] = openUpvalues[j] => i = j
  <2> SUFFICES ASSUME NEW i \in 1..k, NEW j \in 1..k, openUpvalues[i] = openUpvalues[j], i # j
               PROVE  FALSE
    OBVIOUS
  <2>1. Location(i) = Location(j) /\ Location(i) \in Nat
    BY OpenFacts DEF Location
  <2>2. i < j \/ j < i
    BY <1>1
  <2> QED
    BY <2>1, <2>2 DEF IInv, Descending
(* What is left of the list is as it was.                                  *)
<1>5. ASSUME NEW m \in 1..(k - n)
      PROVE  /\ n + m \in 1..k /\ n + m \in (n + 1)..k
             /\ openUpvalues'[m] = openUpvalues[n + m]
             /\ openUpvalues[n + m] \in 1..Len(upvalues)
             /\ upvalues'[openUpvalues[n + m]] = upvalues[openUpvalues[n + m]]
             /\ Location(m)' = Location(n + m)
  <2>1. n + m \in 1..k /\ n + m \in (n + 1)..k /\ openUpvalues'[m] = openUpvalues[n + m]
    BY <1>1, <1>3
  <2>2. openUpvalues[n + m] \in 1..Len(upvalues)
    BY <2>1, TypeFacts
  <2>3. \A i \in 1..n : i \in 1..k /\ i # n + m
    BY <1>1
  <2>4. \A i \in 1..n : openUpvalues[i] # openUpvalues[n + m]
    BY <1>4, <2>1, <2>3
  <2>5. upvalues'[openUpvalues[n + m]] = upvalues[openUpvalues[n + m]]
    BY <1>3, <2>2, <2>4
  <2> QED
    BY <2>1, <2>2, <2>5 DEF Location
<1>6. Distinct'
  BY DEF IInv, Distinct, Closes
<1>7. Listed'
  <2> SUFFICES ASSUME NEW m \in 1..(k - n)
               PROVE  (\E i, j : /\ IsLocal(i, j)
                                 /\ LocalAt(i, j).isCaptured
                                 /\ LocalAt(i, j).variable = upvalues[openUpvalues[m]].variable
                                 /\ SlotOf(i, j) = Location(m))'
    BY <1>3 DEF Listed
  <2>1. PICK i, j : /\ IsLocal(i, j)
                    /\ LocalAt(i, j).isCaptured
                    /\ LocalAt(i, j).variable = upvalues[openUpvalues[n + m]].variable
                    /\ SlotOf(i, j) = Location(n + m)
    BY <1>5 DEF IInv, Listed
  <2>2. SlotOf(i, j) < slot
    BY <1>1, <1>5, <2>1
  <2>3. IsLocal(i, j)' /\ LocalAt(i, j)' = LocalAt(i, j) /\ SlotOf(i, j)' = SlotOf(i, j)
    BY <2>1, <2>2 DEF Closes
  <2> QED
    BY <1>5, <2>1, <2>3
<1>8. Descending'
  <2> SUFFICES ASSUME NEW l \in 1..(k - n), NEW m \in 1..(k - n), l < m
               PROVE  Location(l)' > Location(m)'
    BY <1>3 DEF Descending
  <2>1. n + l \in 1..k /\ n + m \in 1..k /\ n + l < n + m
    BY <1>1, <1>5
  <2> QED
    BY <1>5, <2>1 DEF IInv, Descending
(* An upvalue that was listed still is, or is closed.                      *)
<1>9. ASSUME NEW u \in 1..Len(upvalues), NEW p \in 1..k, openUpvalues[p] = u
      PROVE  \/ \E m \in 1..(k - n) : openUpvalues'[m] = u
             \/ upvalues'[u].location = CLOSED /\ upvalues[u].location >= slot
  <2>1. CASE p <= n
    BY <1>1, <1>3, <1>9, <2>1 DEF Location
  <2>2. CASE p > n
    <3>1. p - n \in 1..(k - n) /\ n + (p - n) = p
      BY <1>1, <2>2
    <3> QED
      BY <1>3, <1>9, <3>1
  <2> QED
    BY <1>1, <2>1, <2>2
<1>10. Found'
  <2> SUFFICES ASSUME NEW u \in 1..Len(upvalues), NEW i, NEW j, IsLocal(i, j)',
                      LocalAt(i, j)'.variable = upvalues[u].variable
               PROVE  /\ upvalues'[u].location = SlotOf(i, j)'
                      /\ \E m \in 1..(k - n) : openUpvalues'[m] = u
    BY <1>3 DEF Found
  <2>1. IsLocal(i, j) /\ SlotOf(i, j) < slot /\ SlotOf(i, j) \in Nat
        /\ LocalAt(i, j)' = LocalAt(i, j) /\ SlotOf(i, j)' = SlotOf(i, j)
    BY LocalFacts, SMTT(30) DEF Closes, IsLocal, Slot
  <2>2. /\ upvalues[u].location = SlotOf(i, j)
        /\ \E m \in 1..k : openUpvalues[m] = u
    BY <2>1 DEF IInv, Found
  <2>3. PICK m \in 1..(k - n) : openUpvalues'[m] = u
    BY <1>9, <2>1, <2>2
  <2>4. upvalues'[u] = upvalues[u]
    BY <1>5, <2>3
  <2> QED
    BY <2>1, <2>2, <2>3, <2>4
<1>11. Shared'
  BY <1>3 DEF IInv, Shared
<1>12. NoneLeft'
  <2> SUFFICES ASSUME ~Repl, NEW u \in 1..Len(upvalues), upvalues'[u].location # CLOSED
               PROVE  \E m \in 1..(k - n) : openUpvalues'[m] = u
    BY <1>3 DEF NoneLeft
  <2>1. CASE \E m \in 1..n : openUpvalues[m] = u
    BY <1>3, <2>1
  <2>2. CASE \A m \in 1..n : openUpvalues[m] # u
    <3>1. upvalues[u].location # CLOSED
      BY <1>3, <2>2
    <3>2. \E m \in 1..k : openUpvalues[m] = u
      BY <3>1 DEF IInv, NoneLeft, Closes
    <3> QED
      BY <1>9, <3>2
  <2> QED
    BY <2>1, <2>2
<1> QED
  BY <1>6, <1>7, <1>8, <1>10, <1>11, <1>12 DEF OnVariables

----------------------------------------------------------------------------
(* Capturing.                                                              *)

(* A step that opens an upvalue of local j of call i, in its place.        *)
Opens(i, j) ==
  /\ UNCHANGED <<frames, ready>>
  /\ IsLocal(i, j)
  /\ LocalAt(i, j).isCaptured
  /\ LET slot == SlotOf(i, j)
         p    == FirstNotAbove(slot)
     IN  /\ ~(p <= Len(openUpvalues) /\ Location(p) = slot)
         /\ upvalues'     = Append(upvalues, Open(LocalAt(i, j).variable, slot))
         /\ openUpvalues' = InsertAt(openUpvalues, p, Len(upvalues) + 1)

LEMMA OpenTypes ==
  ASSUME IInv, NEW i, NEW j, Opens(i, j)
  PROVE  /\ upvalues' \in Seq(UpvalueType)
         /\ Len(upvalues') = Len(upvalues) + 1
         /\ \A u \in 1..Len(upvalues) : upvalues'[u] = upvalues[u]
         /\ upvalues'[Len(upvalues) + 1] = Open(LocalAt(i, j).variable, SlotOf(i, j))
         /\ openUpvalues' \in Seq(1..(Len(upvalues) + 1))
         /\ Len(openUpvalues') = Len(openUpvalues) + 1
         /\ \A m \in 1..(Len(openUpvalues) + 1) :
              openUpvalues'[m] =
                IF m < FirstNotAbove(SlotOf(i, j)) THEN openUpvalues[m]
                ELSE IF m = FirstNotAbove(SlotOf(i, j)) THEN Len(upvalues) + 1
                ELSE openUpvalues[m - 1]
<1> DEFINE new  == Open(LocalAt(i, j).variable, SlotOf(i, j))
           p    == FirstNotAbove(SlotOf(i, j))
<1>1. /\ upvalues \in Seq(UpvalueType)
      /\ openUpvalues \in Seq(1..Len(upvalues))
      /\ Len(upvalues) \in Nat
  BY TypeFacts DEF IInv, Typed
<1>2. /\ upvalues' = Append(upvalues, new)
      /\ openUpvalues' = InsertAt(openUpvalues, p, Len(upvalues) + 1)
  BY DEF Opens
<1>3. /\ LocalAt(i, j) \in LocalType /\ SlotOf(i, j) \in Slot \ {0}
      /\ SlotOf(i, j) \in Nat
  BY LocalFacts DEF Opens, IsLocal, LocalAt, Slot
<1>4. new \in UpvalueType
  BY <1>3, ClosuresAssumption DEF Open, UpvalueType, LocalType, Held
<1>5. p \in 1..(Len(openUpvalues) + 1)
  BY <1>3, FirstNotAboveFacts
<1> HIDE DEF new, p
<1>6. /\ upvalues' \in Seq(UpvalueType)
      /\ Len(upvalues') = Len(upvalues) + 1
      /\ \A u \in 1..Len(upvalues) : upvalues'[u] = upvalues[u]
      /\ upvalues'[Len(upvalues) + 1] = new
  BY <1>1, <1>2, <1>4, AppendProperties
<1>7. openUpvalues \in Seq(1..(Len(upvalues) + 1)) /\ Len(upvalues) + 1 \in 1..(Len(upvalues) + 1)
  BY <1>1, SeqMonotonic
<1>8. /\ openUpvalues' \in Seq(1..(Len(upvalues) + 1))
      /\ Len(openUpvalues') = Len(openUpvalues) + 1
      /\ \A m \in 1..(Len(openUpvalues) + 1) :
           openUpvalues'[m] = IF m < p THEN openUpvalues[m]
                              ELSE IF m = p THEN Len(upvalues) + 1
                              ELSE openUpvalues[m - 1]
  <2>1. PICK u, S : u = Len(upvalues) + 1 /\ S = 1..u
    OBVIOUS
  <2>2. openUpvalues \in Seq(S) /\ u \in S /\ openUpvalues' = InsertAt(openUpvalues, p, u)
    BY <1>2, <1>7, <2>1
  <2>3. /\ InsertAt(openUpvalues, p, u) \in Seq(S)
        /\ IsInsertion(InsertAt(openUpvalues, p, u), openUpvalues, p, u)
    BY <1>5, <2>2, Inserted
  <2> QED
    BY <2>1, <2>2, <2>3 DEF IsInsertion
<1> QED
  BY <1>6, <1>8 DEF new, p

LEMMA Opened ==
  ASSUME IInv, NEW i, NEW j, Opens(i, j)
  PROVE  OnVariables'
<1> DEFINE v    == LocalAt(i, j).variable
           slot == SlotOf(i, j)
           p    == FirstNotAbove(slot)
           k    == Len(openUpvalues)
           new  == Len(upvalues) + 1
<1>1. /\ k \in Nat /\ Len(upvalues) \in Nat /\ slot \in Nat /\ p \in 1..(k + 1)
      /\ \A m \in 1..(p - 1) : Location(m) > slot
      /\ p <= k => Location(p) <= slot
  <2>1. k \in Nat /\ Len(upvalues) \in Nat
    BY TypeFacts
  <2>2. slot \in Nat
    BY LocalFacts DEF Opens, IsLocal, Slot
  <2> HIDE DEF slot
  <2> QED
    BY <2>1, <2>2, FirstNotAboveFacts
<1>2. /\ Len(upvalues') = new
      /\ \A u \in 1..Len(upvalues) : upvalues'[u] = upvalues[u]
      /\ upvalues'[new] = Open(v, slot)
      /\ Len(openUpvalues') = k + 1
      /\ \A m \in 1..(k + 1) :
           openUpvalues'[m] = IF m < p THEN openUpvalues[m]
                              ELSE IF m = p THEN new
                              ELSE openUpvalues[m - 1]
  BY OpenTypes
<1>3. /\ IsLocal(i, j) /\ LocalAt(i, j).isCaptured
      /\ ~(p <= k /\ Location(p) = slot)
      /\ frames' = frames /\ ready' = ready
  BY DEF Opens
<1> HIDE DEF p, slot, v
(* Below the place are the locations of slots below.                       *)
<1>4. ASSUME NEW m \in p..k
      PROVE  Location(m) < slot
  <2>1. p \in 1..k /\ m \in 1..k /\ (m = p \/ p < m)
    BY <1>1
  <2>2. Location(p) \in Nat /\ Location(m) \in Nat
    BY <2>1, OpenFacts
  <2>3. Location(p) < slot
    BY <1>1, <1>3, <2>1, <2>2
  <2> QED
    BY <1>1, <2>1, <2>2, <2>3 DEF IInv, Descending
(* The variable had no upvalue.                                            *)
<1>5. \A u \in 1..Len(upvalues) : upvalues[u].variable # v
  <2> SUFFICES ASSUME NEW u \in 1..Len(upvalues), upvalues[u].variable = v
               PROVE  FALSE
    OBVIOUS
  <2>1. PICK m \in 1..k : openUpvalues[m] = u /\ Location(m) = slot
    BY <1>3 DEF IInv, Found, Location, v, slot
  <2>2. m \in 1..(p - 1) \/ m \in p..k
    BY <1>1
  <2> QED
    BY <1>1, <1>4, <2>1, <2>2
<1>6. ASSUME NEW m \in 1..(k + 1)
      PROVE  /\ m < p => /\ m \in 1..k /\ openUpvalues'[m] = openUpvalues[m]
                         /\ upvalues'[openUpvalues[m]] = upvalues[openUpvalues[m]]
                         /\ Location(m)' = Location(m)
             /\ m = p => openUpvalues'[m] = new /\ Location(m)' = slot
             /\ m > p => /\ m - 1 \in 1..k /\ openUpvalues'[m] = openUpvalues[m - 1]
                         /\ upvalues'[openUpvalues[m - 1]] = upvalues[openUpvalues[m - 1]]
                         /\ Location(m)' = Location(m - 1)
  <2>1. CASE m < p
    <3>1. m \in 1..k /\ openUpvalues'[m] = openUpvalues[m]
      BY <1>1, <1>2, <2>1
    <3> QED
      BY <1>1, <1>2, <2>1, <3>1, TypeFacts DEF Location
  <2>2. CASE m = p
    BY <1>1, <1>2, <2>2 DEF Location, Open
  <2>3. CASE m > p
    <3>1. m - 1 \in 1..k /\ openUpvalues'[m] = openUpvalues[m - 1]
      BY <1>1, <1>2, <2>3
    <3> QED
      BY <1>1, <1>2, <2>3, <3>1, TypeFacts DEF Location
  <2> QED
    BY <1>1, <2>1, <2>2, <2>3
<1>7. /\ \A a, b : IsLocal(a, b)' <=> IsLocal(a, b)
      /\ \A a, b : LocalAt(a, b)' = LocalAt(a, b) /\ SlotOf(a, b)' = SlotOf(a, b)
  BY <1>3 DEF IsLocal, LocalAt, SlotOf
<1>8. Distinct'
  BY <1>7 DEF IInv, Distinct
<1>9. Listed'
  <2> SUFFICES ASSUME NEW m \in 1..(k + 1)
               PROVE  (\E a, b : /\ IsLocal(a, b)
                                 /\ LocalAt(a, b).isCaptured
                                 /\ LocalAt(a, b).variable = upvalues[openUpvalues[m]].variable
                                 /\ SlotOf(a, b) = Location(m))'
    BY <1>2 DEF Listed
  <2>1. CASE m < p
    BY <1>6, <1>7, <2>1 DEF IInv, Listed
  <2>2. CASE m = p
    <3>1. openUpvalues'[m] = new /\ Location(m)' = slot
      BY <1>6, <2>2
    <3>2. upvalues'[new].variable = v
      BY <1>2 DEF Open
    <3> QED
      BY <1>3, <1>7, <3>1, <3>2 DEF v, slot
  <2>3. CASE m > p
    BY <1>6, <1>7, <2>3 DEF IInv, Listed
  <2> QED
    BY <1>1, <2>1, <2>2, <2>3
<1>10. Descending'
  <2> SUFFICES ASSUME NEW l \in 1..(k + 1), NEW m \in 1..(k + 1), l < m
               PROVE  Location(l)' > Location(m)'
    BY <1>2 DEF Descending
  <2>1. CASE m < p
    BY <1>1, <1>6, <2>1 DEF IInv, Descending
  <2>2. CASE m = p
    BY <1>1, <1>6, <2>2
  <2>3. CASE l < p /\ m > p
    <3>1. l \in 1..(p - 1) /\ m - 1 \in p..k
      BY <1>1, <2>3
    <3>2. Location(l) > slot /\ Location(m - 1) < slot /\ l \in 1..k /\ m - 1 \in 1..k
      BY <1>1, <1>4, <3>1
    <3>3. Location(l)' = Location(l) /\ Location(m)' = Location(m - 1)
      BY <1>6, <2>3
    <3>4. Location(l) \in Nat /\ Location(m - 1) \in Nat
      BY <3>2, OpenFacts
    <3> QED
      BY <1>1, <3>2, <3>3, <3>4
  <2>4. CASE l = p
    <3>1. m - 1 \in p..k
      BY <1>1, <2>4
    <3>2. Location(m - 1) < slot /\ m - 1 \in 1..k
      BY <1>1, <1>4, <3>1
    <3> QED
      BY <1>1, <1>6, <2>4, <3>2, OpenFacts
  <2>5. CASE l > p
    <3>1. l - 1 < m - 1 /\ l - 1 \in 1..k /\ m - 1 \in 1..k /\ m > p
      BY <1>1, <1>6, <2>5
    <3>2. Location(l - 1) > Location(m - 1)
      BY <3>1 DEF IInv, Descending
    <3> QED
      BY <1>6, <2>5, <3>1, <3>2
  <2> QED
    BY <1>1, <2>1, <2>2, <2>3, <2>4, <2>5
(* Every upvalue of the list stays in it, and the new one is there.        *)
<1>11. ASSUME NEW u, \/ u = new
                     \/ \E m \in 1..k : openUpvalues[m] = u
       PROVE  \E m \in 1..(k + 1) : openUpvalues'[m] = u
  <2>1. CASE u = new
    BY <1>1, <1>2, <2>1
  <2>2. CASE \E m \in 1..k : openUpvalues[m] = u
    <3>1. PICK m \in 1..k : openUpvalues[m] = u
      BY <2>2
    <3>2. CASE m < p
      BY <1>1, <1>2, <3>1, <3>2
    <3>3. CASE m >= p
      <4>1. m + 1 \in 1..(k + 1) /\ ~(m + 1 < p) /\ m + 1 # p /\ (m + 1) - 1 = m
        BY <1>1, <3>3
      <4> QED
        BY <1>2, <3>1, <4>1
    <3> QED
      BY <1>1, <3>2, <3>3
  <2> QED
    BY <1>11, <2>1, <2>2
<1>12. \A u \in 1..new : u \in 1..Len(upvalues) \/ u = new
  BY <1>1
<1>13. Found'
  <2> SUFFICES ASSUME NEW u \in 1..new, NEW a, NEW b, IsLocal(a, b),
                      LocalAt(a, b).variable = upvalues'[u].variable
               PROVE  /\ upvalues'[u].location = SlotOf(a, b)
                      /\ \E m \in 1..(k + 1) : openUpvalues'[m] = u
    BY <1>2, <1>7 DEF Found
  <2>1. CASE u \in 1..Len(upvalues)
    <3>1. /\ upvalues[u].location = SlotOf(a, b)
          /\ \E m \in 1..k : openUpvalues[m] = u
      BY <1>2, <2>1 DEF IInv, Found
    <3> QED
      BY <1>2, <1>11, <2>1, <3>1
  <2>2. CASE u = new
    <3>1. upvalues'[u].variable = v /\ upvalues'[u].location = slot
      BY <1>2, <2>2 DEF Open
    <3>2. a = i /\ b = j
      BY <1>3, <3>1 DEF IInv, Distinct, v
    <3> QED
      BY <1>11, <2>2, <3>1, <3>2 DEF slot
  <2> QED
    BY <1>12, <2>1, <2>2
<1>14. Shared'
  <2>1. upvalues'[new].variable = v
    BY <1>2 DEF Open
  <2> QED
    BY <1>2, <1>5, <1>12, <2>1 DEF IInv, Shared
<1>15. NoneLeft'
  <2> SUFFICES ASSUME ~Repl, NEW u \in 1..new, upvalues'[u].location # CLOSED
               PROVE  \E m \in 1..(k + 1) : openUpvalues'[m] = u
    BY <1>2 DEF NoneLeft
  <2>1. frames # <<>>
    BY <1>1, <1>3 DEF IsLocal
  <2> QED
    BY <1>2, <1>11, <1>12, <2>1 DEF IInv, NoneLeft
<1> QED
  BY <1>8, <1>9, <1>10, <1>13, <1>14, <1>15 DEF OnVariables

----------------------------------------------------------------------------
(* Values.                                                                 *)

Cells == [Slot -> Data \cup 0..Len(closures)]

LEMMA HeldFacts ==
  ASSUME IInv
  PROVE  /\ Held \subseteq Data \cup 0..Len(closures)
         /\ \A v \in Held : v # 0 /\ v # UNDEFINED
         /\ \A v \in Data \cup 0..Len(closures) : v # 0 => v \in Held
         /\ \A v \in Held \ Data : v \in 1..Len(closures)
BY TypeFacts, ClosuresAssumption DEF Held

LEMMA PutFacts ==
  ASSUME IInv, NEW s \in Slot, NEW v \in Held
  PROVE  /\ [stack EXCEPT ![s] = v] \in Cells
         /\ \A r \in Slot \ {0} : [stack EXCEPT ![s] = v][r] # 0
<1>1. stack \in Cells /\ \A r \in Slot \ {0} : stack[r] # 0
  BY DEF IInv, Typed, Cells
<1> QED
  BY <1>1, HeldFacts DEF Cells

LEMMA SlotFacts ==
  ASSUME IInv, NEW s \in Slot \ {0}
  PROVE  stack[s] \in Held
BY HeldFacts DEF IInv, Typed

LEMMA PeekFacts ==
  ASSUME IInv, frames # <<>>, NEW n \in Nat, n < Operands
  PROVE  /\ stackTop - 1 - n \in Slot \ {0}
         /\ peek(n) = stack[stackTop - 1 - n]
         /\ peek(n) \in Held
<1>1. stackTop - 1 - n \in Slot \ {0}
  <2>1. Frame.slots \in Nat /\ Len(Locals) \in Nat /\ Operands \in Nat
        /\ stackTop = Frame.slots + 1 + Len(Locals) + Operands
    BY TopFacts
  <2>2. stackTop - 1 - n \in Nat \ {0}
    BY <2>1
  <2> QED
    BY <2>2, TypeFacts DEF Slot
<1> QED
  BY <1>1, SlotFacts DEF peek

LEMMA CapturedFacts ==
  ASSUME IInv, frames # <<>>, NEW k \in DOMAIN UpvaluesOf(Frame.closure)
  PROVE  /\ UpvaluesOf(Frame.closure)[k] \in 1..Len(upvalues)
         /\ Read(UpvaluesOf(Frame.closure)[k]) \in Held
<1>1. Frame.closure \in 1..Len(closures) /\ UpvaluesOf(Frame.closure) = closures[Frame.closure].upvalues
  BY TopFacts, TypeFacts DEF UpvaluesOf
<1>2. UpvaluesOf(Frame.closure) \in Seq(1..Len(upvalues))
  BY <1>1, TypeFacts DEF ClosureType
<1>3. UpvaluesOf(Frame.closure)[k] \in 1..Len(upvalues)
  BY <1>2, LenProperties, ElementOfSeq
<1>4. \A u \in 1..Len(upvalues) :
        upvalues[u].closed \in Held
          /\ (upvalues[u].location \in Slot \ {0} \/ upvalues[u].location = CLOSED)
  BY TypeFacts DEF UpvalueType
<1>5. \A u \in 1..Len(upvalues) : Read(u) \in Held
  BY <1>4, SlotFacts DEF Read
<1> QED
  BY <1>3, <1>5

----------------------------------------------------------------------------
(* The instructions.                                                       *)

LEMMA InvariantHolds ==
  ASSUME Typed', Stacked', OnVariables', Fills'
  PROVE  IInv'
BY DEF IInv, OnVariables

(* Instructions on values: the calls and the list stay as they are.        *)
LEMMA Plain ==
  ASSUME IInv, Running,
         UNCHANGED <<frames, closures, openUpvalues, filling, ready>>,
         stack' \in Cells, \A s \in Slot \ {0} : stack'[s] # 0,
         stackTop' \in (Frame.slots + 1 + Len(Locals))..StackMax,
         upvalues' \in Seq(UpvalueType), SameUpvalues,
         global' \in Held \cup {UNDEFINED}
  PROVE  IInv'
<1>1. frames # <<>> /\ filling = 0
  BY DEF Running
<1>2. Typed'
  <2>1. stackTop' \in 0..StackMax
    BY <1>1, TopFacts, TypeFacts
  <2>2. FrameType' = FrameType /\ UpvalueType' = UpvalueType /\ Held' = Held /\ ClosureType' = ClosureType
    BY DEF FrameType, UpvalueType, Held, ClosureType, SameUpvalues
  <2> QED
    BY <2>1, <2>2 DEF IInv, Typed, Cells, SameUpvalues
<1>3. Stacked'
  <2>1. \A i \in 1..Len(frames) : i = Len(frames) \/ Len(frames) \in (i + 1)..Len(frames)
    <3>1. Len(frames) \in Nat
      BY TypeFacts
    <3> QED
      BY <3>1
  <2>2. ASSUME NEW i \in 1..Len(frames)
        PROVE  TopLocal(i) < stackTop'
    <3>1. TopLocal(i) \in Nat
      BY LocalFacts DEF TopLocal
    <3>2. Frame = frames[Len(frames)] /\ Frame.slots \in Nat /\ Len(Locals) \in Nat
      BY <1>1, TopFacts
    <3>3. CASE i = Len(frames)
      BY <1>1, <3>2, <3>3, TypeFacts DEF TopLocal, Locals
    <3>4. CASE Len(frames) \in (i + 1)..Len(frames)
      <4>1. TopLocal(i) < Frame.slots
        BY <3>2, <3>4 DEF IInv, Stacked
      <4> QED
        BY <3>1, <3>2, <4>1, TypeFacts
    <3> QED
      BY <2>1, <3>3, <3>4
  <2> QED
    BY <1>1, <2>2 DEF IInv, Stacked, TopLocal
<1>4. OnVariables'
  BY Quiet
<1>5. Fills'
  BY <1>1 DEF Fills
<1> QED
  BY <1>2, <1>3, <1>4, <1>5, InvariantHolds

LEMMA SameHeap ==
  ASSUME IInv, UNCHANGED heap
  PROVE  upvalues' \in Seq(UpvalueType) /\ SameUpvalues
BY DEF IInv, Typed, heap, SameUpvalues

LEMMA Pushed ==
  ASSUME IInv, Running, NEW v \in Held, push(v), UNCHANGED <<frames, heap, global, ready>>
  PROVE  IInv'
<1>1. frames # <<>> /\ global \in Held \cup {UNDEFINED}
  BY DEF Running, IInv, Typed
<1>2. /\ stackTop \in Slot /\ stack' = [stack EXCEPT ![stackTop] = v]
      /\ stackTop' \in (Frame.slots + 1 + Len(Locals))..StackMax
  BY <1>1, TopFacts, TypeFacts, SMTT(30) DEF push, Slot
<1> QED
  BY <1>1, <1>2, PutFacts, SameHeap, Plain DEF heap

LEMMA ConstantStep ==
  ASSUME IInv, NEW v \in Data, OP_CONSTANT(v)
  PROVE  IInv'
BY Pushed DEF OP_CONSTANT, Held

LEMMA GetLocalStep ==
  ASSUME IInv, NEW j, OP_GET_LOCAL(j)
  PROVE  IInv'
<1>1. Running /\ frames # <<>> /\ j \in 1..Len(Locals)
  BY TopFacts DEF OP_GET_LOCAL, Running
<1>2. Frame.slots + j \in Slot \ {0}
  BY <1>1, TopFacts, LocalFacts DEF IsLocal
<1> QED
  BY <1>1, <1>2, SlotFacts, Pushed DEF OP_GET_LOCAL

LEMMA GetUpvalueStep ==
  ASSUME IInv, NEW k, OP_GET_UPVALUE(k)
  PROVE  IInv'
BY CapturedFacts, Pushed DEF OP_GET_UPVALUE, Running

LEMMA PopStep ==
  ASSUME IInv, OP_POP
  PROVE  IInv'
<1>1. Running /\ frames # <<>> /\ global \in Held \cup {UNDEFINED} /\ stack \in Cells
      /\ \A s \in Slot \ {0} : stack[s] # 0
  BY DEF OP_POP, Running, IInv, Typed, Cells
<1>2. stackTop' \in (Frame.slots + 1 + Len(Locals))..StackMax
  BY <1>1, TopFacts, TypeFacts, SMTT(30) DEF OP_POP, pop
<1> QED
  BY <1>1, <1>2, SameHeap, Plain DEF OP_POP, pop, heap

LEMMA SetLocalStep ==
  ASSUME IInv, NEW j, OP_SET_LOCAL(j)
  PROVE  IInv'
<1>1. Running /\ frames # <<>> /\ j \in 1..Len(Locals) /\ global \in Held \cup {UNDEFINED}
  BY TopFacts DEF OP_SET_LOCAL, Running, IInv, Typed
<1>2. Frame.slots + j \in Slot
  BY <1>1, TopFacts, LocalFacts DEF IsLocal
<1>3. peek(0) \in Held
  BY <1>1, PeekFacts, TopFacts DEF OP_SET_LOCAL
<1>4. stackTop' \in (Frame.slots + 1 + Len(Locals))..StackMax
  BY <1>1, TopFacts, TypeFacts DEF OP_SET_LOCAL
<1> QED
  BY <1>1, <1>2, <1>3, <1>4, PutFacts, SameHeap, Plain DEF OP_SET_LOCAL, heap

LEMMA SetUpvalueStep ==
  ASSUME IInv, NEW k, OP_SET_UPVALUE(k)
  PROVE  IInv'
<1> DEFINE u == UpvaluesOf(Frame.closure)[k]
<1>1. /\ Running /\ frames # <<>> /\ global \in Held \cup {UNDEFINED}
      /\ stack \in Cells /\ \A s \in Slot \ {0} : stack[s] # 0
      /\ upvalues \in Seq(UpvalueType)
      /\ UNCHANGED <<stackTop, frames, closures, openUpvalues, filling, global, ready>>
  BY DEF OP_SET_UPVALUE, Running, IInv, Typed, Cells
<1>2. u \in 1..Len(upvalues)
  BY <1>1, CapturedFacts DEF OP_SET_UPVALUE
<1>3. peek(0) \in Held
  BY <1>1, PeekFacts, TopFacts DEF OP_SET_UPVALUE
<1>4. stackTop' \in (Frame.slots + 1 + Len(Locals))..StackMax
  BY <1>1, TopFacts, TypeFacts
<1>5. /\ upvalues[u] \in UpvalueType
      /\ upvalues[u].location # CLOSED => upvalues[u].location \in Slot \ {0}
  BY <1>2, TypeFacts DEF UpvalueType
<1> HIDE DEF u
<1>6. CASE upvalues[u].location = CLOSED
  <2>1. stack' = stack /\ upvalues' = [upvalues EXCEPT ![u].closed = peek(0)]
    BY <1>6 DEF OP_SET_UPVALUE, u
  <2> DEFINE w == [upvalues[u] EXCEPT !.closed = peek(0)]
  <2>2. w \in UpvalueType /\ w.variable = upvalues[u].variable /\ w.location = upvalues[u].location
    BY <1>3, <1>5 DEF UpvalueType
  <2>3. upvalues' = [upvalues EXCEPT ![u] = w]
    BY <2>1
  <2> HIDE DEF w
  <2>4. /\ upvalues' \in Seq(UpvalueType) /\ Len(upvalues') = Len(upvalues)
        /\ \A v \in 1..Len(upvalues) : upvalues'[v] = IF v = u THEN w ELSE upvalues[v]
    BY <1>1, <1>2, <2>2, <2>3, ExceptSeq
  <2>5. SameUpvalues
    BY <1>1, <2>2, <2>4 DEF SameUpvalues
  <2> QED
    BY <1>1, <1>4, <2>1, <2>4, <2>5, Plain
<1>7. CASE upvalues[u].location # CLOSED
  <2>1. upvalues' = upvalues /\ stack' = [stack EXCEPT ![upvalues[u].location] = peek(0)]
    BY <1>7 DEF OP_SET_UPVALUE, u
  <2>2. SameUpvalues
    BY <1>1, <2>1 DEF SameUpvalues
  <2> QED
    BY <1>1, <1>3, <1>4, <1>5, <1>7, <2>1, <2>2, PutFacts, Plain
<1> QED
  BY <1>6, <1>7

(* After a runtime error there are no calls.                               *)
LEMMA ErrorStep ==
  ASSUME IInv, Running, runtimeError
  PROVE  IInv'
<1>1. /\ stackTop' = 0 /\ frames' = <<>> /\ openUpvalues' = <<>> /\ ready' = Repl
      /\ UNCHANGED <<stack, closures, upvalues, filling, global>>
  BY DEF runtimeError
<1>2. Typed'
  <2>1. FrameType' = FrameType /\ UpvalueType' = UpvalueType /\ Held' = Held /\ ClosureType' = ClosureType
    BY <1>1 DEF FrameType, UpvalueType, Held, ClosureType
  <2>2. <<>> \in Seq(FrameType) /\ <<>> \in Seq(1..Len(upvalues))
    BY EmptySeq
  <2> QED
    BY <1>1, <2>1, <2>2, ClosuresAssumption DEF IInv, Typed
<1>3. Len(frames') = 0 /\ Len(openUpvalues') = 0
  BY <1>1, EmptySeq
<1>4. Stacked'
  BY <1>1, <1>3, ClosuresAssumption DEF Stacked
<1>5. \A i, j : ~IsLocal(i, j)'
  BY <1>3 DEF IsLocal
<1>6. OnVariables'
  BY <1>1, <1>3, <1>5 DEF OnVariables, Distinct, Listed, Descending, Found, Shared, NoneLeft, IInv
<1>7. Fills'
  BY <1>1 DEF Running, Fills
<1> QED
  BY <1>2, <1>4, <1>6, <1>7, InvariantHolds

LEMMA GetGlobalStep ==
  ASSUME IInv, OP_GET_GLOBAL
  PROVE  IInv'
<1>1. CASE global = UNDEFINED
  BY <1>1, ErrorStep DEF OP_GET_GLOBAL
<1>2. CASE global # UNDEFINED
  <2>1. global \in Held
    BY <1>2 DEF IInv, Typed
  <2> QED
    BY <1>2, <2>1, Pushed DEF OP_GET_GLOBAL
<1> QED
  BY <1>1, <1>2

(* A step that gives the global the value on top of the stack, and may     *)
(* take it off.                                                            *)
LEMMA Assigned ==
  ASSUME IInv, Running, Operands > 0, global' = peek(0), stack' = stack,
         stackTop' \in {stackTop, stackTop - 1}, UNCHANGED <<frames, heap, ready>>
  PROVE  IInv'
<1>1. frames # <<>> /\ stack \in Cells /\ \A s \in Slot \ {0} : stack[s] # 0
  BY DEF Running, IInv, Typed, Cells
<1>2. peek(0) \in Held
  BY <1>1, PeekFacts, TopFacts
<1>3. stackTop' \in (Frame.slots + 1 + Len(Locals))..StackMax
  BY <1>1, TopFacts, TypeFacts
<1> QED
  BY <1>1, <1>2, <1>3, SameHeap, Plain DEF heap

LEMMA DefineGlobalStep ==
  ASSUME IInv, OP_DEFINE_GLOBAL
  PROVE  IInv'
BY Assigned DEF OP_DEFINE_GLOBAL, pop

LEMMA SetGlobalStep ==
  ASSUME IInv, OP_SET_GLOBAL
  PROVE  IInv'
BY Assigned, ErrorStep DEF OP_SET_GLOBAL

LEMMA WrongOperandStep ==
  ASSUME IInv, WrongOperand
  PROVE  IInv'
BY ErrorStep DEF WrongOperand

(* Steps that change the local variables of the running call.              *)
LEMMA LocalsChange ==
  ASSUME IInv, frames # <<>>, NEW ls \in Seq(LocalType), WithLocals(ls)
  PROVE  /\ frames' \in Seq(FrameType) /\ Len(frames') = Len(frames) /\ frames' # <<>>
         /\ \A i \in 1..Len(frames) :
              /\ frames'[i].slots = frames[i].slots
              /\ frames'[i].closure = frames[i].closure
              /\ frames'[i].locals = IF i = Len(frames) THEN ls ELSE frames[i].locals
<1> DEFINE f == [Frame EXCEPT !.locals = ls]
<1>1. /\ frames \in Seq(FrameType) /\ Len(frames) \in 1..Len(frames)
      /\ Frame = frames[Len(frames)] /\ Frame \in FrameType
  BY TopFacts DEF IInv, Typed
<1>2. /\ f \in FrameType /\ f.slots = Frame.slots /\ f.closure = Frame.closure
      /\ f.locals = ls
  BY <1>1 DEF FrameType
<1>3. frames' = ReplaceAt(frames, Len(frames), f)
  BY DEF WithLocals
<1> HIDE DEF f
<1>4. /\ frames' \in Seq(FrameType) /\ Len(frames') = Len(frames)
      /\ \A i \in 1..Len(frames) : frames'[i] = IF i = Len(frames) THEN f ELSE frames[i]
  BY <1>1, <1>2, <1>3, ExceptSeq DEF ReplaceAt
<1>5. frames' # <<>>
  BY <1>1, <1>4, EmptySeq
<1> QED
  BY <1>1, <1>2, <1>4, <1>5

LEMMA LocalsStack ==
  ASSUME IInv, frames # <<>>, NEW ls \in Seq(LocalType), WithLocals(ls),
         ready' = ready, stackTop' \in Int, Frame.slots + Len(ls) < stackTop'
  PROVE  Stacked'
<1>1. /\ Len(frames') = Len(frames) /\ frames' # <<>>
      /\ \A i \in 1..Len(frames) :
           /\ frames'[i].slots = frames[i].slots
           /\ frames'[i].locals = IF i = Len(frames) THEN ls ELSE frames[i].locals
  BY LocalsChange
<1>2. /\ Len(frames) \in Nat /\ Len(ls) \in Nat
      /\ Frame = frames[Len(frames)] /\ Frame.slots \in Nat
  BY TopFacts, LenProperties
<1>3. \A i \in 1..Len(frames) : i # Len(frames) => Len(frames) \in (i + 1)..Len(frames)
  BY <1>2
<1>4. ASSUME NEW i \in 1..Len(frames), i # Len(frames)
      PROVE  TopLocal(i)' = TopLocal(i) /\ TopLocal(i) < Frame.slots /\ TopLocal(i) \in Nat
  <2>1. TopLocal(i)' = TopLocal(i) /\ TopLocal(i) \in Nat
    BY <1>1, <1>4, LocalFacts DEF TopLocal
  <2>2. TopLocal(i) < frames[Len(frames)].slots
    BY <1>3, <1>4 DEF IInv, Stacked
  <2> QED
    BY <1>2, <2>1, <2>2
<1>5. ASSUME NEW i \in 1..Len(frames)
      PROVE  TopLocal(i)' < stackTop'
  <2>1. CASE i = Len(frames)
    BY <1>1, <1>2, <2>1 DEF TopLocal
  <2>2. CASE i # Len(frames)
    BY <1>2, <1>4, <2>2
  <2> QED
    BY <2>1, <2>2
<1>6. ASSUME NEW i \in 1..Len(frames), NEW j \in (i + 1)..Len(frames)
      PROVE  TopLocal(i)' < frames'[j].slots
  <2>1. i # Len(frames) /\ j \in 1..Len(frames)
    BY <1>2
  <2> QED
    BY <1>1, <1>4, <2>1 DEF IInv, Stacked
<1>7. frames'[1].slots = 0 /\ ~ready'
  <2>1. 1 \in 1..Len(frames)
    BY TopFacts
  <2> QED
    BY <1>1, <2>1 DEF IInv, Stacked
<1> QED
  BY <1>1, <1>5, <1>6, <1>7 DEF IInv, Stacked

LEMMA LocalsAre ==
  ASSUME IInv, frames # <<>>, NEW ls \in Seq(LocalType), WithLocals(ls)
  PROVE  /\ \A i, j : IsLocal(i, j)' <=>
                        IF i = Len(frames) THEN j \in 1..Len(ls) ELSE IsLocal(i, j)
         /\ \A i, j : IsLocal(i, j)' =>
              /\ LocalAt(i, j)' = IF i = Len(frames) THEN ls[j] ELSE LocalAt(i, j)
              /\ SlotOf(i, j)' = SlotOf(i, j)
<1>1. Len(frames) \in 1..Len(frames)
  BY TopFacts
<1> QED
  BY <1>1, LocalsChange DEF IsLocal, LocalAt, SlotOf

(* A new local variable.                                                   *)
LEMMA FreshFacts ==
  ASSUME NEW n \in Nat, CanDeclare(n)
  PROVE  /\ Fresh(n) \in [1..n -> Variable \ Living]
         /\ \A i, j \in 1..n : Fresh(n)[i] = Fresh(n)[j] => i = j
<1>1. Fresh(n) \in NewVariables(n)
  BY DEF CanDeclare, Fresh
<1> QED
  BY <1>1 DEF NewVariables

LEMMA OneDeclared ==
  ASSUME IInv, frames # <<>>, CanDeclare(1), NEW isCaptured \in BOOLEAN,
         WithLocals(Append(Locals, Local(Fresh(1)[1], isCaptured))),
         UNCHANGED <<upvalues, openUpvalues, ready>>,
         stackTop' \in Int, Frame.slots + Len(Locals) + 1 < stackTop'
  PROVE  frames' \in Seq(FrameType) /\ frames' # <<>> /\ Stacked' /\ OnVariables'
<1> DEFINE new == Local(Fresh(1)[1], isCaptured)
           ls  == Append(Locals, new)
<1>1. Fresh(1)[1] \in Variable \ Living
  BY FreshFacts
<1>2. new \in LocalType /\ new.variable = Fresh(1)[1]
  BY <1>1 DEF Local, LocalType
<1>3. Locals \in Seq(LocalType) /\ Len(Locals) \in Nat /\ Frame.slots \in Nat
  BY TopFacts
<1> HIDE DEF new
<1>4. /\ ls \in Seq(LocalType) /\ Len(ls) = Len(Locals) + 1
      /\ \A j \in 1..Len(Locals) : ls[j] = Locals[j]
      /\ ls[Len(Locals) + 1] = new
  BY <1>2, <1>3, AppendProperties
<1>5. WithLocals(ls)
  BY DEF new
<1> HIDE DEF ls
<1>6. frames' \in Seq(FrameType) /\ frames' # <<>>
  BY <1>4, <1>5, LocalsChange
<1>7. Stacked'
  <2>1. Frame.slots + Len(ls) < stackTop'
    BY <1>3, <1>4
  <2> QED
    BY <1>4, <1>5, <2>1, LocalsStack
<1>8. Declares
  <2>1. /\ \A i, j : IsLocal(i, j)' <=>
                       IF i = Len(frames) THEN j \in 1..Len(ls) ELSE IsLocal(i, j)
        /\ \A i, j : IsLocal(i, j)' =>
             /\ LocalAt(i, j)' = IF i = Len(frames) THEN ls[j] ELSE LocalAt(i, j)
             /\ SlotOf(i, j)' = SlotOf(i, j)
    BY <1>4, <1>5, LocalsAre
  <2>2. \A j : /\ IsLocal(Len(frames), j) <=> j \in 1..Len(Locals)
               /\ j \in 1..Len(Locals) => LocalAt(Len(frames), j) = Locals[j]
    BY TopFacts DEF IsLocal, Locals
  <2>3. ASSUME NEW i, NEW j, IsLocal(i, j)
        PROVE  IsLocal(i, j)' /\ LocalAt(i, j)' = LocalAt(i, j) /\ SlotOf(i, j)' = SlotOf(i, j)
    <3>1. i = Len(frames) => j \in 1..Len(Locals) /\ j \in 1..Len(ls) /\ ls[j] = LocalAt(i, j)
      BY <1>3, <1>4, <2>2, <2>3
    <3> QED
      BY <2>1, <2>3, <3>1
  <2>4. ASSUME NEW i, NEW j, IsLocal(i, j)', ~IsLocal(i, j)
        PROVE  i = Len(frames) /\ j = Len(Locals) + 1 /\ LocalAt(i, j)' = new
    <3>1. i = Len(frames) /\ j \in 1..Len(ls) /\ ~(j \in 1..Len(Locals))
      BY <2>1, <2>2, <2>4
    <3> QED
      BY <1>3, <1>4, <2>1, <2>4, <3>1
  <2> QED
    BY <1>1, <1>2, <2>3, <2>4 DEF Declares
<1> QED
  BY <1>6, <1>7, <1>8, Declared

LEMMA DefineVariableStep ==
  ASSUME IInv, NEW isCaptured \in BOOLEAN, defineVariable(isCaptured)
  PROVE  IInv'
<1>1. /\ frames # <<>> /\ Operands = 1 /\ filling = 0 /\ CanDeclare(1)
      /\ WithLocals(Append(Locals, Local(Fresh(1)[1], isCaptured)))
      /\ UNCHANGED <<stack, stackTop, closures, upvalues, openUpvalues, filling, global, ready>>
  BY DEF defineVariable, Running, heap
<1>2. stackTop' \in Int /\ Frame.slots + Len(Locals) + 1 < stackTop'
  BY <1>1, TopFacts, TypeFacts
<1>3. frames' \in Seq(FrameType) /\ Stacked' /\ OnVariables'
  BY <1>1, <1>2, OneDeclared
<1>4. Typed'
  <2>1. FrameType' = FrameType /\ UpvalueType' = UpvalueType /\ Held' = Held /\ ClosureType' = ClosureType
    BY <1>1 DEF FrameType, UpvalueType, Held, ClosureType
  <2> QED
    BY <1>1, <1>3, <2>1 DEF IInv, Typed
<1>5. Fills'
  BY <1>1 DEF Fills
<1> QED
  BY <1>3, <1>4, <1>5, InvariantHolds

(* A new closure, on top of the stack, to be filled.                       *)
LEMMA NewClosureTypes ==
  ASSUME IInv, NEW n \in 0..MaxArity, newClosure(n), filling' \in 0..MaxUpvalues,
         UNCHANGED <<upvalues, openUpvalues, global, ready>>
  PROVE  /\ frames' \in Seq(FrameType) => Typed'
         /\ frames' # <<>> => Fills'
<1> DEFINE c == [arity |-> n, upvalues |-> <<>>]
           k == Len(closures)
<1>1. /\ closures' = Append(closures, c) /\ stackTop < StackMax
      /\ stack' = [stack EXCEPT ![stackTop] = k + 1] /\ stackTop' = stackTop + 1
  BY DEF newClosure, push
<1>2. c \in ClosureType
  <2>1. <<>> \in Seq(1..Len(upvalues))
    BY EmptySeq
  <2> QED
    BY <2>1 DEF ClosureType
<1> HIDE DEF c
<1>3. closures' \in Seq(ClosureType) /\ Len(closures') = k + 1 /\ k \in Nat
  BY <1>1, <1>2, AppendProperties, TypeFacts DEF IInv, Typed
<1>4. /\ FrameType \subseteq FrameType' /\ ClosureType' = ClosureType
      /\ UpvalueType \subseteq UpvalueType' /\ Held \subseteq Held'
  BY <1>3 DEF FrameType, ClosureType, UpvalueType, Held
<1>5. stackTop \in Slot /\ stackTop' \in 1..StackMax
  BY <1>1, TypeFacts DEF Slot
<1>6. /\ stack' \in [Slot -> Data \cup 0..Len(closures')]
      /\ \A s \in Slot \ {0} : stack'[s] # 0
      /\ stack'[stackTop] = k + 1
  BY <1>1, <1>3, <1>5 DEF IInv, Typed
<1>7. ASSUME frames' \in Seq(FrameType)
      PROVE  Typed'
  <2>1. frames' \in Seq(FrameType')
    BY <1>4, <1>7, SeqMonotonic
  <2>2. upvalues' \in Seq(UpvalueType')
    BY <1>4, SeqMonotonic DEF IInv, Typed
  <2> QED
    BY <1>3, <1>4, <1>5, <1>6, <2>1, <2>2 DEF IInv, Typed
<1>8. ASSUME frames' # <<>>
      PROVE  Fills'
  <2>1. closures' # <<>>
    BY <1>3, EmptySeq
  <2>2. peek(0)' = stack'[stackTop' - 1 - 0] /\ stackTop' - 1 - 0 = stackTop
    BY <1>1, TypeFacts DEF peek
  <2> QED
    BY <1>3, <1>5, <1>6, <1>8, <2>1, <2>2 DEF Fills
<1> QED
  BY <1>7, <1>8

LEMMA ClosureStep ==
  ASSUME IInv, NEW n \in 0..MaxArity, NEW count \in 0..MaxUpvalues, OP_CLOSURE(n, count)
  PROVE  IInv'
<1>1. /\ frames # <<>> /\ newClosure(n) /\ filling' = count
      /\ UNCHANGED <<frames, upvalues, openUpvalues, global, ready>>
  BY DEF OP_CLOSURE, Running
<1>2. Typed' /\ Fills'
  BY <1>1, NewClosureTypes DEF IInv, Typed
<1>3. Stacked'
  <2>1. stackTop' = stackTop + 1
    BY <1>1 DEF newClosure, push
  <2>2. \A i \in 1..Len(frames) : TopLocal(i) \in Nat
    BY LocalFacts DEF TopLocal
  <2> QED
    BY <1>1, <2>1, <2>2, TypeFacts DEF IInv, Stacked, TopLocal
<1>4. OnVariables'
  BY <1>1, Quiet DEF SameUpvalues
<1> QED
  BY <1>2, <1>3, <1>4, InvariantHolds

LEMMA ClosureLocalStep ==
  ASSUME IInv, NEW n \in 0..MaxArity, NEW count \in 0..MaxUpvalues,
         NEW isCaptured \in BOOLEAN, OP_CLOSURE_LOCAL(n, count, isCaptured)
  PROVE  IInv'
<1>1. /\ frames # <<>> /\ Operands = 0 /\ CanDeclare(1)
      /\ newClosure(n) /\ filling' = count
      /\ WithLocals(Append(Locals, Local(Fresh(1)[1], isCaptured)))
      /\ UNCHANGED <<upvalues, openUpvalues, global, ready>>
  BY DEF OP_CLOSURE_LOCAL, Running
<1>2. stackTop' \in Int /\ Frame.slots + Len(Locals) + 1 < stackTop'
  <2>1. stackTop' = stackTop + 1
    BY <1>1 DEF newClosure, push
  <2> QED
    BY <1>1, <2>1, TopFacts, TypeFacts
<1>3. frames' \in Seq(FrameType) /\ frames' # <<>> /\ Stacked' /\ OnVariables'
  BY <1>1, <1>2, OneDeclared
<1> QED
  BY <1>1, <1>3, NewClosureTypes, InvariantHolds

(* A call: the arguments are the local variables of the new frame.         *)
LEMMA CallStep ==
  ASSUME IInv, NEW n \in 0..MaxArity, OP_CALL(n)
  PROVE  IInv'
<1> DEFINE callee == peek(n)
           vs     == Fresh(n)
           ls     == [i \in 1..n |-> Local(vs[i], TRUE)]
           base   == stackTop - n - 1
           k      == Len(frames)
<1>1. CASE callee \in Data \/ arity(callee) # n \/ k = FramesMax
  BY <1>1, ErrorStep DEF OP_CALL
<1>2. CASE ~(callee \in Data \/ arity(callee) # n \/ k = FramesMax)
  <2>1. /\ frames # <<>> /\ filling = 0 /\ n < Operands /\ n \in Nat
        /\ CanDeclare(n)
        /\ frames' = Append(frames, CallFrame(callee, base, ls))
        /\ UNCHANGED <<stack, stackTop, closures, upvalues, openUpvalues, filling, global, ready>>
    BY <1>2, ClosuresAssumption, TopFacts DEF OP_CALL, Running, heap
  <2>2. /\ k \in Nat \ {0} /\ k < FramesMax
        /\ frames \in Seq(FrameType)
    BY <1>2, <2>1, TopFacts, ClosuresAssumption DEF IInv, Typed, Stacked
  <2>3. callee \in 0..Len(closures)
    BY <1>2, <2>1, PeekFacts, HeldFacts, TypeFacts
  <2>4. base \in Nat \ {0} /\ base + n < stackTop /\ Frame.slots + Len(Locals) < base
    <3>1. Frame.slots \in Nat /\ Len(Locals) \in Nat /\ Operands \in Nat
          /\ stackTop = Frame.slots + 1 + Len(Locals) + Operands
      BY <2>1, TopFacts
    <3> QED
      BY <2>1, <3>1, SMTT(30)
  <2>5. /\ vs \in [1..n -> Variable \ Living]
        /\ \A i, j \in 1..n : vs[i] = vs[j] => i = j
    BY <2>1, FreshFacts
  <2> HIDE DEF vs, base, callee
  <2>6. /\ ls \in Seq(LocalType) /\ Len(ls) = n
        /\ \A i \in 1..n : ls[i].variable = vs[i]
    <3>1. ls \in [1..n -> LocalType] /\ \A i \in 1..n : ls[i].variable = vs[i]
      BY <2>5 DEF Local, LocalType
    <3> QED
      BY <2>1, <3>1, FunctionIsSeq
  <2> HIDE DEF ls
  <2> DEFINE f == CallFrame(callee, base, ls)
  <2>7. /\ f \in FrameType /\ f.closure = callee /\ f.slots = base /\ f.locals = ls
    BY <2>3, <2>4, <2>6 DEF CallFrame, FrameType
  <2> HIDE DEF f
  <2>8. /\ frames' \in Seq(FrameType) /\ Len(frames') = k + 1
        /\ \A i \in 1..k : frames'[i] = frames[i]
        /\ frames'[k + 1] = f
    BY <2>1, <2>2, <2>7, AppendProperties DEF f
  <2>9. frames' # <<>> /\ \A i \in 1..(k + 1) : i \in 1..k \/ i = k + 1
    BY <2>2, <2>8, EmptySeq
  <2>10. Typed'
    <3>1. FrameType' = FrameType /\ UpvalueType' = UpvalueType /\ Held' = Held /\ ClosureType' = ClosureType
      BY <2>1 DEF FrameType, UpvalueType, Held, ClosureType
    <3> QED
      BY <2>1, <2>8, <3>1 DEF IInv, Typed
  <2>11. ASSUME NEW i \in 1..k
         PROVE  TopLocal(i)' = TopLocal(i) /\ TopLocal(i) \in Nat /\ TopLocal(i) < base
    <3>1. TopLocal(i)' = TopLocal(i) /\ TopLocal(i) \in Nat
      BY <2>8, LocalFacts DEF TopLocal
    <3>2. Frame = frames[k] /\ Frame.slots \in Nat /\ Len(Locals) \in Nat
      BY <2>1, TopFacts
    <3>3. i = k => TopLocal(i) = Frame.slots + Len(Locals)
      BY <3>2 DEF TopLocal, Locals
    <3>4. i # k => TopLocal(i) < Frame.slots
      <4>1. i # k => k \in (i + 1)..k
        BY <2>2
      <4> QED
        BY <3>2, <4>1 DEF IInv, Stacked
    <3> QED
      BY <2>4, <3>1, <3>2, <3>3, <3>4
  <2> PICK q : q = k + 1
    OBVIOUS
  <2>12. /\ frames'[q].slots = base /\ frames'[q].locals = ls
         /\ TopLocal(q)' = base + n
    <3>1. frames'[q].slots = base /\ frames'[q].locals = ls
      BY <2>7, <2>8
    <3> QED
      BY <2>6, <3>1 DEF TopLocal
  <2>13. Stacked'
    <3>1. ASSUME NEW i \in 1..(q)
          PROVE  TopLocal(i)' < stackTop'
      <4>1. CASE i = q
        BY <2>1, <2>4, <2>12, <4>1
      <4>2. CASE i \in 1..k
        BY <2>1, <2>11, <4>2 DEF IInv, Stacked
      <4> QED
        BY <2>9, <4>1, <4>2
    <3>2. ASSUME NEW i \in 1..(q), NEW j \in (i + 1)..(q)
          PROVE  TopLocal(i)' < frames'[j].slots
      <4>1. i \in 1..k /\ (j \in (i + 1)..k \/ j = q)
        BY <2>2
      <4>2. CASE j \in (i + 1)..k
        <5>1. j \in 1..k
          BY <4>1, <4>2, <2>2
        <5> QED
          BY <2>8, <2>11, <4>1, <4>2, <5>1 DEF IInv, Stacked
      <4>3. CASE j = q
        BY <2>7, <2>8, <2>11, <4>1, <4>3
      <4> QED
        BY <4>1, <4>2, <4>3
    <3>3. frames'[1].slots = 0 /\ ~ready'
      BY <2>1, <2>2, <2>8 DEF IInv, Stacked
    <3> QED
      BY <2>2, <2>8, <2>9, <3>1, <3>2, <3>3, ClosuresAssumption DEF Stacked
  <2>14. Declares
    <3>1. \A i, j : IsLocal(i, j)' <=> IsLocal(i, j) \/ (i = q /\ j \in 1..n)
      BY <2>2, <2>6, <2>7, <2>8, <2>9 DEF IsLocal
    <3>2. ASSUME NEW i, NEW j, IsLocal(i, j)
          PROVE  LocalAt(i, j)' = LocalAt(i, j) /\ SlotOf(i, j)' = SlotOf(i, j)
      BY <2>8, <3>2 DEF IsLocal, LocalAt, SlotOf
    <3>3. ASSUME NEW j \in 1..n
          PROVE  LocalAt(q, j)'.variable = vs[j]
      BY <2>6, <2>12 DEF LocalAt
    <3>4. ASSUME NEW i, NEW j, IsLocal(i, j)', ~IsLocal(i, j)
          PROVE  /\ i = q /\ j \in 1..n
                 /\ LocalAt(i, j)'.variable = vs[j] /\ vs[j] \notin Living
      BY <2>5, <3>1, <3>3, <3>4
    <3> QED
      BY <2>1, <2>5, <3>1, <3>2, <3>4 DEF Declares
  <2>15. Fills'
    BY <2>1 DEF Fills
  <2> QED
    BY <2>10, <2>13, <2>14, <2>15, Declared, InvariantHolds
<1> QED
  BY <1>1, <1>2

(* The end of a scope takes the last local variable off, and its value.    *)
LEMMA EndsScopeFacts ==
  ASSUME IInv, NEW isCaptured \in BOOLEAN, EndsScope(isCaptured)
  PROVE  /\ frames # <<>> /\ frames' # <<>> /\ filling = 0
         /\ UNCHANGED <<stack, closures, filling, global, ready>>
         /\ Len(Locals) \in Nat \ {0}
         /\ SlotOf(Len(frames), Len(Locals)) = stackTop - 1
         /\ IsLocal(Len(frames), Len(Locals))
         /\ LocalAt(Len(frames), Len(Locals)).isCaptured = isCaptured
         /\ stackTop' = stackTop - 1 /\ stackTop' \in 0..StackMax
         /\ Stacked'
         /\ frames' \in Seq(FrameType)
         /\ \A i, j : IsLocal(i, j)' <=>
              IsLocal(i, j) /\ ~(i = Len(frames) /\ j = Len(Locals))
         /\ \A i, j : IsLocal(i, j)' =>
              /\ LocalAt(i, j)' = LocalAt(i, j)
              /\ SlotOf(i, j)' = SlotOf(i, j)
<1> DEFINE ls == Front(Locals)
           n  == Len(Locals)
<1>1. /\ frames # <<>> /\ filling = 0 /\ Operands = 0 /\ n > arity(Frame.closure)
      /\ Last(Locals).isCaptured = isCaptured
      /\ WithLocals(ls)
      /\ stackTop' = stackTop - 1
      /\ UNCHANGED <<stack, closures, filling, global, ready>>
  BY DEF EndsScope, Running, pop
<1>2. /\ Locals \in Seq(LocalType) /\ n \in Nat /\ Frame.slots \in Nat
      /\ stackTop = Frame.slots + 1 + n
      /\ Frame.closure \in 0..Len(closures)
  BY <1>1, TopFacts
<1>3. arity(Frame.closure) \in Nat
  BY <1>2, TypeFacts, ClosuresAssumption DEF arity, ClosureType
<1>4. n \in Nat \ {0} /\ Locals # <<>>
  BY <1>1, <1>2, <1>3, EmptySeq
<1>5. /\ ls \in Seq(LocalType) /\ Len(ls) = n - 1
      /\ \A j \in 1..(n - 1) : ls[j] = Locals[j]
      /\ Last(Locals) = Locals[n]
  BY <1>2, <1>4, LastAndFront
<1> HIDE DEF ls
<1>6. /\ n \in 1..n
      /\ \A j : j \in 1..(n - 1) <=> j \in 1..n /\ j # n
  BY <1>4
<1>7. /\ IsLocal(Len(frames), n) /\ SlotOf(Len(frames), n) = stackTop - 1
      /\ LocalAt(Len(frames), n).isCaptured = isCaptured
  BY <1>1, <1>2, <1>5, <1>6, TopFacts, SMTT(30)
<1>8. frames' \in Seq(FrameType) /\ frames' # <<>>
  BY <1>1, <1>5, LocalsChange
<1>9. stackTop' \in 0..StackMax /\ stackTop' \in Int /\ Frame.slots + Len(ls) < stackTop'
  BY <1>1, <1>2, <1>4, <1>5, TypeFacts, SMTT(30)
<1>10. Stacked'
  BY <1>1, <1>5, <1>9, LocalsStack
<1>11. /\ \A i, j : IsLocal(i, j)' <=>
                      IF i = Len(frames) THEN j \in 1..Len(ls) ELSE IsLocal(i, j)
       /\ \A i, j : IsLocal(i, j)' =>
            /\ LocalAt(i, j)' = IF i = Len(frames) THEN ls[j] ELSE LocalAt(i, j)
            /\ SlotOf(i, j)' = SlotOf(i, j)
  BY <1>1, <1>5, LocalsAre
<1>12. \A j : /\ IsLocal(Len(frames), j) <=> j \in 1..n
              /\ j \in 1..n => LocalAt(Len(frames), j) = Locals[j]
  BY <1>1, TopFacts DEF IsLocal, Locals
<1>13. \A i, j : IsLocal(i, j)' <=> IsLocal(i, j) /\ ~(i = Len(frames) /\ j = n)
  BY <1>5, <1>6, <1>11, <1>12
<1>14. ASSUME NEW i, NEW j, IsLocal(i, j)'
       PROVE  LocalAt(i, j)' = LocalAt(i, j) /\ SlotOf(i, j)' = SlotOf(i, j)
  <2>1. i = Len(frames) => j \in 1..(n - 1) /\ j \in 1..n
    BY <1>5, <1>6, <1>11, <1>14
  <2> QED
    BY <1>5, <1>11, <1>12, <1>14, <2>1
<1> QED
  BY <1>1, <1>4, <1>7, <1>8, <1>9, <1>10, <1>13, <1>14

LEMMA SameTypes ==
  ASSUME IInv, UNCHANGED <<closures, filling, global>>, ready' \in BOOLEAN,
         stack' \in Cells, \A s \in Slot \ {0} : stack'[s] # 0,
         stackTop' \in 0..StackMax, frames' \in Seq(FrameType),
         upvalues' \in Seq(UpvalueType), Len(upvalues') = Len(upvalues),
         openUpvalues' \in Seq(1..Len(upvalues))
  PROVE  Typed'
<1>1. FrameType' = FrameType /\ UpvalueType' = UpvalueType /\ Held' = Held /\ ClosureType' = ClosureType
  BY DEF FrameType, UpvalueType, Held, ClosureType
<1> QED
  BY <1>1 DEF IInv, Typed, Cells

LEMMA PopLocalStep ==
  ASSUME IInv, OP_POP_LOCAL
  PROVE  IInv'
<1>1. EndsScope(FALSE) /\ UNCHANGED <<upvalues, openUpvalues>>
  BY DEF OP_POP_LOCAL
<1>2. /\ frames # <<>> /\ filling = 0
      /\ UNCHANGED <<stack, closures, filling, global, ready>>
      /\ ~LocalAt(Len(frames), Len(Locals)).isCaptured
      /\ stackTop' \in 0..StackMax
      /\ Stacked'
      /\ frames' \in Seq(FrameType)
      /\ \A i, j : IsLocal(i, j)' <=>
           IsLocal(i, j) /\ ~(i = Len(frames) /\ j = Len(Locals))
      /\ \A i, j : IsLocal(i, j)' =>
           /\ LocalAt(i, j)' = LocalAt(i, j)
           /\ SlotOf(i, j)' = SlotOf(i, j)
  BY <1>1, EndsScopeFacts
<1>3. Typed'
  BY <1>1, <1>2, SameTypes DEF IInv, Typed, Cells
<1>4. OnVariables'
  BY <1>1, <1>2, Dropped DEF Drops
<1>5. Fills'
  BY <1>2 DEF Fills
<1> QED
  BY <1>2, <1>3, <1>4, <1>5, InvariantHolds

(* Closing leaves every variable its type.                                 *)
LEMMA CloseTypes ==
  ASSUME IInv, NEW slot \in Nat, closeUpvalues(slot)
  PROVE  /\ upvalues' \in Seq(UpvalueType) /\ Len(upvalues') = Len(upvalues)
         /\ openUpvalues' \in Seq(1..Len(upvalues))
<1>1. FirstBelow(slot) - 1 \in 0..Len(openUpvalues)
  <2>1. Len(openUpvalues) \in Nat /\ FirstBelow(slot) \in 1..(Len(openUpvalues) + 1)
    BY FirstBelowFacts, TypeFacts
  <2> QED
    BY <2>1
<1> QED
  BY <1>1, CloseFacts DEF closeUpvalues

LEMMA CloseUpvalueStep ==
  ASSUME IInv, OP_CLOSE_UPVALUE
  PROVE  IInv'
<1>1. EndsScope(TRUE) /\ closeUpvalues(stackTop - 1)
  BY DEF OP_CLOSE_UPVALUE
<1>2. /\ frames # <<>> /\ filling = 0
      /\ UNCHANGED <<stack, closures, filling, global, ready>>
      /\ stackTop' = stackTop - 1 /\ stackTop' \in 0..StackMax
      /\ Stacked'
      /\ frames' \in Seq(FrameType)
      /\ IsLocal(Len(frames), Len(Locals))
      /\ SlotOf(Len(frames), Len(Locals)) = stackTop - 1
      /\ \A i, j : IsLocal(i, j)' <=>
           IsLocal(i, j) /\ ~(i = Len(frames) /\ j = Len(Locals))
      /\ \A i, j : IsLocal(i, j)' =>
           /\ LocalAt(i, j)' = LocalAt(i, j)
           /\ SlotOf(i, j)' = SlotOf(i, j)
  BY <1>1, EndsScopeFacts
<1>3. stackTop - 1 \in Nat
  BY <1>2, TypeFacts
<1>4. Typed'
  BY <1>1, <1>2, <1>3, CloseTypes, SameTypes DEF IInv, Typed, Cells
<1>5. ASSUME NEW i, NEW j, IsLocal(i, j), ~(i = Len(frames) /\ j = Len(Locals))
      PROVE  SlotOf(i, j) < stackTop - 1
  <2>1. /\ i \in 1..Len(frames) /\ j \in 1..Len(frames[i].locals)
        /\ frames[i].slots \in Nat /\ Len(frames[i].locals) \in Nat
    BY <1>5, LocalFacts DEF IsLocal
  <2>2. Frame = frames[Len(frames)] /\ stackTop - 1 = Frame.slots + Len(Locals) /\ Frame.slots \in Nat
        /\ Len(frames) \in Nat /\ Len(Locals) \in Nat
    BY <1>2, TopFacts DEF SlotOf
  <2>3. CASE i = Len(frames)
    BY <1>5, <2>1, <2>2, <2>3 DEF SlotOf, Locals
  <2>4. CASE i # Len(frames)
    <3>1. Len(frames) \in (i + 1)..Len(frames)
      BY <2>1, <2>2, <2>4
    <3>2. TopLocal(i) < Frame.slots
      BY <2>1, <2>2, <3>1 DEF IInv, Stacked
    <3> QED
      BY <2>1, <2>2, <3>2 DEF SlotOf, TopLocal
  <2> QED
    BY <2>3, <2>4
<1>6. Closes(stackTop - 1)
  <2>1. ~(SlotOf(Len(frames), Len(Locals)) < stackTop - 1)
    BY <1>2, <1>3
  <2> QED
    BY <1>1, <1>2, <1>5, <2>1 DEF Closes
<1>7. OnVariables'
  BY <1>3, <1>6, Closed
<1>8. Fills'
  BY <1>2 DEF Fills
<1> QED
  BY <1>2, <1>4, <1>7, <1>8, InvariantHolds

(* A return takes the call off and closes its variables.                   *)
LEMMA ReturnStep ==
  ASSUME IInv, OP_RETURN
  PROVE  IInv'
<1> DEFINE k == Len(frames)
<1>1. /\ frames # <<>> /\ filling = 0 /\ Operands = 1
      /\ closeUpvalues(Frame.slots)
      /\ frames' = Front(frames)
      /\ UNCHANGED <<closures, filling, global>>
  BY DEF OP_RETURN, Running
<1>2. /\ k \in Nat \ {0} /\ Frame = frames[k] /\ Frame.slots \in Nat
      /\ Len(Locals) \in Nat /\ stackTop = Frame.slots + 2 + Len(Locals)
      /\ stackTop \in 0..StackMax /\ StackMax \in Nat
      /\ frames \in Seq(FrameType)
  BY <1>1, TopFacts, TypeFacts DEF IInv, Typed
<1>3. /\ frames' \in Seq(FrameType) /\ Len(frames') = k - 1
      /\ \A i \in 1..(k - 1) : frames'[i] = frames[i]
  BY <1>1, <1>2, LastAndFront
<1>4. \A i \in 1..(k - 1) : i \in 1..k /\ k \in (i + 1)..k /\ i # k
  BY <1>2
<1>5. ASSUME NEW i \in 1..(k - 1)
      PROVE  TopLocal(i)' = TopLocal(i) /\ TopLocal(i) \in Nat /\ TopLocal(i) < Frame.slots
  <2>1. TopLocal(i)' = TopLocal(i)
    BY <1>3 DEF TopLocal
  <2>2. TopLocal(i) \in Nat
    BY <1>4, LocalFacts DEF TopLocal
  <2>3. TopLocal(i) < Frame.slots
    BY <1>2, <1>4 DEF IInv, Stacked
  <2> QED
    BY <2>1, <2>2, <2>3
<1>6. /\ ready' \in BOOLEAN
      /\ frames' # <<>> => ready' = ready
      /\ stackTop' \in 0..StackMax
      /\ IF k = 1 THEN stackTop' = 0 ELSE stackTop' = Frame.slots + 1
      /\ stack' \in Cells /\ \A s \in Slot \ {0} : stack'[s] # 0
  <2>1. CASE k = 1
    <3>1. Locals = <<>> /\ stackTop' = stackTop - 2 /\ ready' = Repl /\ stack' = stack
      BY <2>1 DEF OP_RETURN
    <3>2. Len(Locals) = 0 /\ Frame.slots = 0
      BY <1>1, <1>2, <2>1, <3>1, EmptySeq DEF IInv, Stacked
    <3>3. frames' = <<>>
      BY <1>3, <2>1, EmptySeq
    <3> QED
      BY <1>2, <2>1, <3>1, <3>2, <3>3, ClosuresAssumption DEF IInv, Typed, Cells
  <2>2. CASE k # 1
    <3>1. /\ stackTop' = Frame.slots + 1 /\ ready' = ready
          /\ stack' = [stack EXCEPT ![Frame.slots] = peek(0)]
      BY <2>2 DEF OP_RETURN
    <3>2. peek(0) \in Held /\ Frame.slots \in Slot
      BY <1>1, <1>2, PeekFacts DEF Slot
    <3>3. stack' \in Cells /\ \A s \in Slot \ {0} : stack'[s] # 0
      BY <3>1, <3>2, PutFacts
    <3>4. ready' \in BOOLEAN /\ ready' = ready
      BY <3>1 DEF IInv, Typed
    <3>5. Frame.slots + 1 \in 0..StackMax
      BY <1>2
    <3> QED
      BY <2>2, <3>1, <3>3, <3>4, <3>5
  <2> QED
    BY <2>1, <2>2
<1>7. Typed'
  <2>1. /\ upvalues' \in Seq(UpvalueType) /\ Len(upvalues') = Len(upvalues)
        /\ openUpvalues' \in Seq(1..Len(upvalues))
    BY <1>1, <1>2, CloseTypes
  <2>2. /\ UNCHANGED <<closures, filling, global>> /\ ready' \in BOOLEAN
        /\ stack' \in Cells /\ \A s \in Slot \ {0} : stack'[s] # 0
        /\ stackTop' \in 0..StackMax /\ frames' \in Seq(FrameType)
    BY <1>1, <1>3, <1>6
  <2> QED
    BY <2>1, <2>2, SameTypes
<1>8. Stacked'
  <2>1. ASSUME NEW i \in 1..(k - 1)
        PROVE  /\ TopLocal(i)' < stackTop'
               /\ \A j \in (i + 1)..(k - 1) : TopLocal(i)' < frames'[j].slots
    <3>1. k # 1
      BY <1>2
    <3>2. TopLocal(i)' < stackTop'
      BY <1>2, <1>5, <1>6, <3>1
    <3>3. \A j \in (i + 1)..(k - 1) : j \in 1..(k - 1) /\ j \in (i + 1)..k
      BY <1>2
    <3>4. \A j \in (i + 1)..(k - 1) : TopLocal(i)' < frames'[j].slots
      BY <1>3, <1>4, <1>5, <3>3 DEF IInv, Stacked
    <3> QED
      BY <3>2, <3>4
  <2>2. frames' = <<>> => stackTop' = 0
    <3>1. frames' = <<>> => k = 1
      BY <1>2, <1>3, EmptySeq
    <3> QED
      BY <1>6, <3>1
  <2>3. frames' # <<>> => frames'[1].slots = 0 /\ ~ready'
    <3>1. frames' # <<>> => 1 \in 1..(k - 1)
      BY <1>3, EmptySeq
    <3> QED
      BY <1>1, <1>3, <1>6, <3>1 DEF IInv, Stacked
  <2>4. k - 1 <= FramesMax
    BY <1>2, ClosuresAssumption DEF IInv, Stacked
  <2> QED
    BY <1>3, <2>1, <2>2, <2>3, <2>4 DEF Stacked
<1>9. Closes(Frame.slots)
  <2>1. \A i : i \in 1..k => i = k \/ i \in 1..(k - 1)
    BY <1>2
  <2>2. ASSUME NEW i \in 1..(k - 1), NEW j
        PROVE  /\ IsLocal(i, j)' <=> IsLocal(i, j)
               /\ LocalAt(i, j)' = LocalAt(i, j) /\ SlotOf(i, j)' = SlotOf(i, j)
               /\ IsLocal(i, j) => SlotOf(i, j) < Frame.slots
    <3>1. /\ IsLocal(i, j)' <=> IsLocal(i, j)
          /\ LocalAt(i, j)' = LocalAt(i, j) /\ SlotOf(i, j)' = SlotOf(i, j)
      BY <1>3, <1>4 DEF IsLocal, LocalAt, SlotOf
    <3>2. ASSUME IsLocal(i, j)
          PROVE  SlotOf(i, j) < Frame.slots
      <4>1. frames[i].slots \in Nat /\ Len(frames[i].locals) \in Nat
        BY <1>4, LocalFacts
      <4>2. SlotOf(i, j) <= TopLocal(i) /\ SlotOf(i, j) \in Nat
        BY <3>2, <4>1 DEF IsLocal, SlotOf, TopLocal
      <4> QED
        BY <1>2, <1>5, <4>2
    <3> QED
      BY <3>1, <3>2
  <2>3. ASSUME NEW j, IsLocal(k, j)
        PROVE  ~(SlotOf(k, j) < Frame.slots)
    BY <1>2, <2>3 DEF IsLocal, SlotOf
  <2>4. \A i, j : IsLocal(i, j)' => i \in 1..(k - 1)
    BY <1>3 DEF IsLocal
  <2>5. \A i, j : IsLocal(i, j) => i = k \/ i \in 1..(k - 1)
    BY <2>1 DEF IsLocal
  <2> QED
    BY <1>1, <2>2, <2>3, <2>4, <2>5 DEF Closes
<1>10. OnVariables'
  BY <1>2, <1>9, Closed
<1>11. Fills'
  BY <1>1 DEF Fills
<1> QED
  BY <1>7, <1>8, <1>10, <1>11, InvariantHolds

(* OP_CLOSURE's loop adds an upvalue to the new closure.                   *)
LEMMA FillFacts ==
  ASSUME IInv, filling > 0, NEW u \in Nat, Fill(u),
         upvalues' \in Seq(UpvalueType), Len(upvalues) <= Len(upvalues'),
         u \in 1..Len(upvalues'), openUpvalues' \in Seq(1..Len(upvalues'))
  PROVE  Typed' /\ Stacked' /\ Fills'
<1> DEFINE c == Len(closures)
           s == closures[c].upvalues
           f == [closures[c] EXCEPT !.upvalues = Append(s, u)]
           T == [arity : 0..MaxArity, upvalues : Seq(1..Len(upvalues'))]
<1>1. /\ frames # <<>> /\ closures # <<>> /\ peek(0) = c /\ filling \in 0..MaxUpvalues
      /\ closures \in Seq(ClosureType) /\ upvalues \in Seq(UpvalueType)
      /\ UNCHANGED <<stack, stackTop, frames, global, ready>>
      /\ filling' = filling - 1
  BY DEF IInv, Fills, Typed, Fill
<1>2. c \in Nat \ {0} /\ c \in 1..c /\ Len(upvalues) \in Nat /\ Len(upvalues') \in Nat
      /\ MaxUpvalues \in Nat
  BY <1>1, EmptySeq, LenProperties, ClosuresAssumption
<1>3. Seq(1..Len(upvalues)) \subseteq Seq(1..Len(upvalues'))
  BY <1>2, SeqMonotonic
<1>4. ClosureType \subseteq T
  BY <1>3 DEF ClosureType
<1>5. closures[c] \in ClosureType
  BY <1>1, <1>2, ElementOfSeq
<1>6. s \in Seq(1..Len(upvalues'))
  BY <1>3, <1>5 DEF ClosureType
<1>7. Append(s, u) \in Seq(1..Len(upvalues'))
  BY <1>6, AppendProperties
<1>8. f \in T
  BY <1>5, <1>7 DEF ClosureType
<1>9. closures' = [closures EXCEPT ![c] = f]
  BY <1>1 DEF Fill
<1>10. closures \in Seq(T)
  BY <1>1, <1>4, SeqMonotonic
<1> HIDE DEF f, T
<1>11. closures' \in Seq(T) /\ Len(closures') = Len(closures)
  BY <1>2, <1>8, <1>9, <1>10, ExceptSeq
<1>12. Typed'
  <2>1. FrameType' = FrameType /\ UpvalueType' = UpvalueType /\ Held' = Held /\ ClosureType' = T
    BY <1>11 DEF FrameType, UpvalueType, Held, ClosureType, T
  <2>2. filling' \in 0..MaxUpvalues
    BY <1>1, <1>2
  <2> QED
    BY <1>1, <1>11, <2>1, <2>2 DEF IInv, Typed
<1>13. Stacked'
  BY <1>1 DEF IInv, Stacked, TopLocal
<1>14. Fills'
  <2>1. closures' # <<>>
    BY <1>2, <1>11, EmptySeq
  <2> QED
    BY <1>1, <1>11, <2>1 DEF Fills, peek, IInv
<1> QED
  BY <1>12, <1>13, <1>14

LEMMA CaptureStep ==
  ASSUME IInv, NEW j, captureUpvalue(j)
  PROVE  IInv'
<1> DEFINE slot == Frame.slots + j
           p    == FirstNotAbove(slot)
           i    == Len(frames)
           new  == Len(upvalues) + 1
<1>1. filling > 0 /\ frames # <<>> /\ j \in 1..Len(Locals) /\ Locals[j].isCaptured
      /\ filling \in 0..MaxUpvalues
  BY TopFacts DEF captureUpvalue, IInv, Fills, Typed
<1>2. /\ IsLocal(i, j) /\ LocalAt(i, j) = Locals[j] /\ SlotOf(i, j) = slot
      /\ upvalues \in Seq(UpvalueType) /\ Len(upvalues) \in Nat
  BY <1>1, TopFacts, TypeFacts DEF IInv, Typed
<1>3. CASE p <= Len(openUpvalues) /\ Location(p) = slot
  <2>1. Fill(openUpvalues[p]) /\ UNCHANGED <<upvalues, openUpvalues>>
    BY <1>3 DEF captureUpvalue
  <2>2. p \in 1..Len(openUpvalues)
    <3>1. slot \in Nat
      BY <1>1, TopFacts
    <3> QED
      BY <1>3, <3>1, FirstNotAboveFacts
  <2>3. openUpvalues[p] \in 1..Len(upvalues) /\ openUpvalues[p] \in Nat
    BY <2>2, TypeFacts
  <2>4. Typed' /\ Stacked' /\ Fills'
    BY <1>1, <1>2, <2>1, <2>3, FillFacts DEF IInv, Typed
  <2>5. OnVariables'
    BY <2>1, Quiet DEF SameUpvalues, Fill
  <2> QED
    BY <2>4, <2>5, InvariantHolds
<1>4. CASE ~(p <= Len(openUpvalues) /\ Location(p) = slot)
  <2>1. /\ Fill(new)
        /\ upvalues' = Append(upvalues, Open(Locals[j].variable, slot))
        /\ openUpvalues' = InsertAt(openUpvalues, p, new)
    BY <1>4 DEF captureUpvalue
  <2>2. Opens(i, j)
    BY <1>1, <1>2, <1>4, <2>1 DEF Opens, Fill
  <2>3. /\ upvalues' \in Seq(UpvalueType) /\ Len(upvalues') = new
        /\ openUpvalues' \in Seq(1..new)
    BY <2>2, OpenTypes
  <2>4. new \in Nat /\ new \in 1..new /\ Len(upvalues) <= new
    BY <1>2
  <2>5. Typed' /\ Stacked' /\ Fills'
    BY <1>1, <2>1, <2>3, <2>4, FillFacts
  <2>6. OnVariables'
    BY <2>2, Opened
  <2> QED
    BY <2>5, <2>6, InvariantHolds
<1> QED
  BY <1>3, <1>4

LEMMA InheritStep ==
  ASSUME IInv, NEW k, inheritUpvalue(k)
  PROVE  IInv'
<1> DEFINE u == UpvaluesOf(Frame.closure)[k]
<1>1. /\ filling > 0 /\ frames # <<>> /\ k \in DOMAIN UpvaluesOf(Frame.closure)
      /\ Fill(u) /\ UNCHANGED <<upvalues, openUpvalues>>
      /\ filling \in 0..MaxUpvalues
  BY DEF inheritUpvalue, IInv, Fills, Typed
<1>2. u \in 1..Len(upvalues) /\ u \in Nat /\ Len(upvalues) \in Nat
  BY <1>1, CapturedFacts, TypeFacts
<1>3. Typed' /\ Stacked' /\ Fills'
  BY <1>1, <1>2, FillFacts DEF IInv, Typed
<1>4. OnVariables'
  BY <1>1, Quiet DEF SameUpvalues, Fill
<1> QED
  BY <1>3, <1>4, InvariantHolds

LEMMA InterpretStep ==
  ASSUME IInv, interpret
  PROVE  IInv'
<1> DEFINE f == CallFrame(0, 0, <<>>)
<1>1. /\ ready /\ frames = <<>> /\ ready' = FALSE /\ stackTop < StackMax
      /\ stack' = [stack EXCEPT ![stackTop] = 0] /\ stackTop' = stackTop + 1
      /\ frames' = <<CallFrame(0, stackTop, <<>>)>>
      /\ UNCHANGED <<closures, upvalues, openUpvalues, filling, global>>
  BY DEF interpret, push, heap
<1>2. stackTop = 0 /\ stackTop' = 1 /\ StackMax \in Nat /\ 0 \in Slot
  BY <1>1, TypeFacts DEF IInv, Stacked, Slot
<1>3. f \in FrameType /\ f.slots = 0 /\ f.locals = <<>> /\ Len(f.locals) = 0
  <2>1. <<>> \in Seq(LocalType)
    BY EmptySeq
  <2> QED
    BY <2>1, TypeFacts, EmptySeq DEF CallFrame, FrameType
<1> HIDE DEF f
<1>4. frames' = <<f>>
  BY <1>1, <1>2 DEF f
<1>5. frames' \in Seq(FrameType) /\ Len(frames') = 1 /\ frames'[1] = f /\ frames' # <<>>
  BY <1>3, <1>4
<1>6. Typed'
  <2>1. stack' \in Cells /\ \A s \in Slot \ {0} : stack'[s] # 0
    BY <1>1, <1>2, TypeFacts DEF IInv, Typed, Cells
  <2>2. stackTop' \in 0..StackMax
    BY <1>1, <1>2
  <2>3. /\ upvalues' \in Seq(UpvalueType) /\ Len(upvalues') = Len(upvalues)
        /\ openUpvalues' \in Seq(1..Len(upvalues))
    BY <1>1 DEF IInv, Typed
  <2> QED
    BY <1>1, <1>5, <2>1, <2>2, <2>3, SameTypes
<1>7. Stacked'
  <2>1. TopLocal(1)' = 0
    BY <1>3, <1>5 DEF TopLocal
  <2> QED
    BY <1>1, <1>2, <1>3, <1>5, <2>1, ClosuresAssumption DEF Stacked
<1>8. \A i, j : ~IsLocal(i, j) /\ ~IsLocal(i, j)'
  <2>1. Len(frames) = 0
    BY <1>1, EmptySeq
  <2> QED
    BY <1>3, <1>5, <2>1 DEF IsLocal
<1>9. OnVariables'
  <2>1. Len(openUpvalues) = 0
    <3>1. ~(1 \in 1..Len(openUpvalues))
      BY <1>8 DEF IInv, Listed
    <3> QED
      BY <3>1, TypeFacts
  <2>2. Distinct' /\ Found'
    BY <1>8 DEF Distinct, Found
  <2>3. Listed' /\ Descending'
    BY <1>1, <2>1 DEF Listed, Descending
  <2>4. Shared' /\ NoneLeft'
    BY <1>1 DEF IInv, Shared, NoneLeft
  <2> QED
    BY <2>2, <2>3, <2>4 DEF OnVariables
<1>10. Fills'
  BY <1>1 DEF IInv, Fills
<1> QED
  BY <1>6, <1>7, <1>9, <1>10, InvariantHolds

----------------------------------------------------------------------------
(* The invariant.                                                          *)

LEMMA InitIInv == Init => IInv
<1> SUFFICES ASSUME Init
             PROVE  IInv
  OBVIOUS
<1>1. /\ stack = [s \in Slot |-> NIL] /\ stackTop = 0 /\ frames = <<>> /\ closures = <<>>
      /\ upvalues = <<>> /\ openUpvalues = <<>> /\ filling = 0 /\ global = UNDEFINED /\ ready
  BY DEF Init
<1>2. Len(frames) = 0 /\ Len(closures) = 0 /\ Len(upvalues) = 0 /\ Len(openUpvalues) = 0
  BY <1>1, EmptySeq
<1>3. Typed
  <2>1. /\ frames \in Seq(FrameType) /\ closures \in Seq(ClosureType)
        /\ upvalues \in Seq(UpvalueType) /\ openUpvalues \in Seq(1..Len(upvalues))
    BY <1>1, EmptySeq
  <2>2. NIL \in Data /\ NIL # 0
    BY ClosuresAssumption
  <2>3. ready = TRUE
    BY DEF Init
  <2> QED
    BY <1>1, <2>1, <2>2, <2>3, ClosuresAssumption DEF Typed
<1>4. \A i, j : ~IsLocal(i, j)
  BY <1>2 DEF IsLocal
<1>5. Stacked
  BY <1>1, <1>2, ClosuresAssumption DEF Stacked
<1>6. Distinct /\ Listed /\ Descending /\ Found /\ Shared /\ NoneLeft /\ Fills
  BY <1>1, <1>2, <1>4 DEF Distinct, Listed, Descending, Found, Shared, NoneLeft, Fills
<1> QED
  BY <1>3, <1>5, <1>6 DEF IInv

LEMMA StutterIInv ==
  ASSUME IInv, UNCHANGED vars
  PROVE  IInv'
<1>1. /\ UNCHANGED <<stack, stackTop, frames, closures, upvalues, openUpvalues, filling>>
      /\ UNCHANGED <<global, ready>>
  BY DEF vars
<1>2. Typed'
  BY <1>1, SameTypes DEF IInv, Typed, Cells
<1>3. Stacked' /\ Fills'
  BY <1>1 DEF IInv, Stacked, TopLocal, Fills, peek
<1>4. OnVariables'
  BY <1>1, Quiet DEF SameUpvalues
<1> QED
  BY <1>2, <1>3, <1>4, InvariantHolds

LEMMA NextIInv == IInv /\ [Next]_vars => IInv'
<1> SUFFICES ASSUME IInv, [Next]_vars
             PROVE  IInv'
  OBVIOUS
<1>1. CASE interpret
  BY <1>1, InterpretStep
<1>2. CASE \E v \in Data : OP_CONSTANT(v)
  BY <1>2, ConstantStep
<1>3. CASE \E j \in Slot : OP_GET_LOCAL(j) \/ OP_SET_LOCAL(j) \/ captureUpvalue(j)
  BY <1>3, GetLocalStep, SetLocalStep, CaptureStep
<1>4. CASE \E k \in 1..MaxUpvalues :
             OP_GET_UPVALUE(k) \/ OP_SET_UPVALUE(k) \/ inheritUpvalue(k)
  BY <1>4, GetUpvalueStep, SetUpvalueStep, InheritStep
<1>5. CASE OP_POP \/ OP_GET_GLOBAL \/ OP_DEFINE_GLOBAL \/ OP_SET_GLOBAL \/ WrongOperand
  BY <1>5, PopStep, GetGlobalStep, DefineGlobalStep, SetGlobalStep, WrongOperandStep
<1>6. CASE \E isCaptured \in BOOLEAN : defineVariable(isCaptured)
  BY <1>6, DefineVariableStep
<1>7. CASE OP_CLOSE_UPVALUE \/ OP_POP_LOCAL
  BY <1>7, CloseUpvalueStep, PopLocalStep
<1>8. CASE \E n \in 0..MaxArity, count \in 0..MaxUpvalues :
             \/ OP_CLOSURE(n, count)
             \/ \E isCaptured \in BOOLEAN : OP_CLOSURE_LOCAL(n, count, isCaptured)
  BY <1>8, ClosureStep, ClosureLocalStep
<1>9. CASE \E argCount \in 0..MaxArity : OP_CALL(argCount)
  BY <1>9, CallStep
<1>10. CASE OP_RETURN
  BY <1>10, ReturnStep
<1>11. CASE UNCHANGED vars
  BY <1>11, StutterIInv
<1> QED
  BY <1>1, <1>2, <1>3, <1>4, <1>5, <1>6, <1>7, <1>8, <1>9, <1>10, <1>11
     DEF Next, Instruction

LEMMA AlwaysIInv == Spec => []IInv
BY InitIInv, NextIInv, PTL DEF Spec

LEMMA ImpliesTypeOK == IInv => TypeOK
<1> SUFFICES ASSUME IInv
             PROVE  TypeOK
  OBVIOUS
<1>1. \A i \in 1..Len(frames) :
        /\ frames[i].closure \in 0..Len(closures)
        /\ \A j \in DOMAIN frames[i].locals : frames[i].locals[j].variable \in Variable
        /\ frames[i].slots + Len(frames[i].locals) <
             IF i = Len(frames) THEN stackTop ELSE frames[i + 1].slots
  <2> SUFFICES ASSUME NEW i \in 1..Len(frames)
               PROVE  /\ frames[i].closure \in 0..Len(closures)
                      /\ \A j \in DOMAIN frames[i].locals : frames[i].locals[j].variable \in Variable
                      /\ TopLocal(i) <
                           IF i = Len(frames) THEN stackTop ELSE frames[i + 1].slots
    BY DEF TopLocal
  <2>1. i # Len(frames) => i + 1 \in (i + 1)..Len(frames)
    <3>1. Len(frames) \in Nat
      BY TypeFacts
    <3> QED
      BY <3>1
  <2> QED
    BY <2>1, LocalFacts DEF IInv, Stacked, LocalType
<1>2. \A c \in 1..Len(closures) :
        /\ closures[c].arity \in 0..MaxArity
        /\ Range(closures[c].upvalues) \subseteq 1..Len(upvalues)
  BY TypeFacts, RangeIs DEF ClosureType
<1>3. \A u \in 1..Len(upvalues) :
        /\ upvalues[u].variable \in Variable
        /\ upvalues[u].location \in Slot \cup {CLOSED}
        /\ upvalues[u].closed \in Data \cup 1..Len(closures)
  BY TypeFacts DEF UpvalueType, Held
<1>4. \A n \in 1..Len(openUpvalues) : openUpvalues[n] \in 1..Len(upvalues) /\ Location(n) \in Slot
  BY OpenFacts
<1> QED
  BY <1>1, <1>2, <1>3, <1>4, TypeFacts DEF TypeOK, IInv, Typed, Stacked, Held

(* TypeOK: slots, frames and upvalues stay within their bounds.            *)
THEOREM ClosuresTypeCorrect == Spec => []TypeOK
BY AlwaysIInv, ImpliesTypeOK, PTL

(* OneUpvaluePerVariable: captureUpvalue finds the upvalue to share, and   *)
(* leaves the list in the order that closeUpvalues needs.                  *)
THEOREM UpvaluesAreShared == Spec => []OneUpvaluePerVariable
<1>1. IInv => OneUpvaluePerVariable
  BY TypeFacts DEF IInv, Shared, Descending, OneUpvaluePerVariable
<1> QED
  BY <1>1, AlwaysIInv, PTL

(* OpenUpvaluesAreLocals: in a script from a file, where a runtime error   *)
(* ends the program, no upvalue points at a slot whose variable is gone.   *)
THEOREM UpvaluesPointAtTheirVariables ==
  ASSUME ~Repl
  PROVE  Spec => []OpenUpvaluesAreLocals
<1>1. IInv => OpenUpvaluesAreLocals
  <2> SUFFICES ASSUME IInv, frames # <<>>, NEW u \in DOMAIN upvalues,
                      upvalues[u].location # CLOSED
               PROVE  /\ u \in Range(openUpvalues)
                      /\ \E f \in Range(frames) : \E j \in DOMAIN f.locals :
                           /\ f.slots + j = upvalues[u].location
                           /\ f.locals[j].variable = upvalues[u].variable
    BY DEF OpenUpvaluesAreLocals
  <2>1. PICK n \in 1..Len(openUpvalues) : openUpvalues[n] = u
    BY TypeFacts DEF IInv, NoneLeft
  <2>2. PICK i, j : /\ IsLocal(i, j)
                    /\ LocalAt(i, j).variable = upvalues[u].variable
                    /\ SlotOf(i, j) = upvalues[u].location
    BY <2>1 DEF IInv, Listed, Location
  <2>3. i \in 1..Len(frames) /\ frames[i] \in Range(frames) /\ j \in DOMAIN frames[i].locals
    BY <2>2, TypeFacts, LocalFacts DEF IsLocal, Range
  <2>4. u \in Range(openUpvalues)
    BY <2>1, TypeFacts DEF Range
  <2> QED
    BY <2>2, <2>3, <2>4 DEF LocalAt, SlotOf
<1> QED
  BY <1>1, AlwaysIInv, PTL

----------------------------------------------------------------------------
(***************************************************************************)
(* The machine's variables are those of the language: slots that are used  *)
(* again, upvalues that are shared and that move a value off the stack     *)
(* when they are closed, are not to be told from variables that live as    *)
(* long as anything can name them.                                         *)
(***************************************************************************)

----------------------------------------------------------------------------
(* Parts of the stack.                                                     *)

Things == Data \cup Int

(* What is in st between the slots a and b, both excluded.                 *)
Between(st, a, b) == [n \in 1..(b - a - 1) |-> st[a + n]]

LEMMA BetweenFacts ==
  ASSUME NEW st, NEW a \in Nat, NEW b \in Nat, a < b,
         \A s \in (a + 1)..(b - 1) : st[s] \in Things
  PROVE  /\ Between(st, a, b) \in Seq(Things) /\ Len(Between(st, a, b)) = b - a - 1
         /\ \A n \in 1..(b - a - 1) : Between(st, a, b)[n] = st[a + n]
<1>1. PICK m \in Nat : m = b - a - 1
  OBVIOUS
<1>2. \A n \in 1..m : a + n \in (a + 1)..(b - 1)
  BY <1>1
<1>3. PICK t : t = [n \in 1..m |-> st[a + n]]
  OBVIOUS
<1>4. t \in [1..m -> Things] /\ \A n \in 1..m : t[n] = st[a + n]
  BY <1>2, <1>3
<1>5. t \in Seq(Things) /\ Len(t) = m
  BY <1>4, FunctionIsSeq
<1> QED
  BY <1>1, <1>3, <1>4, <1>5 DEF Between

LEMMA SameBetween ==
  ASSUME NEW st, NEW tt, NEW a \in Nat, NEW b \in Nat,
         \A s \in (a + 1)..(b - 1) : st[s] = tt[s]
  PROVE  Between(st, a, b) = Between(tt, a, b)
<1>1. \A n \in 1..(b - a - 1) : a + n \in (a + 1)..(b - 1)
  OBVIOUS
<1>2. \A n \in 1..(b - a - 1) : st[a + n] = tt[a + n]
  BY <1>1
<1> QED
  BY <1>2 DEF Between

LEMMA NothingBetween ==
  ASSUME NEW st, NEW a \in Nat
  PROVE  Between(st, a, a + 1) = <<>>
<1>1. PICK b \in Nat : b = a + 1
  OBVIOUS
<1>2. PICK t : t = Between(st, a, b)
  OBVIOUS
<1>3. t \in Seq(Things) /\ Len(t) = 0
  BY <1>1, <1>2, BetweenFacts
<1> QED
  BY <1>1, <1>2, <1>3, EmptySeq

(* The first k of the values between two slots. *)
LEMMA FirstBetween ==
  ASSUME NEW st, NEW tt, NEW a \in Nat, NEW b \in Nat, a < b, NEW k \in 0..(b - a - 1),
         \A s \in (a + 1)..(b - 1) : st[s] \in Things,
         \A s \in (a + 1)..(a + k) : tt[s] = st[s]
  PROVE  SubSeq(Between(st, a, b), 1, k) = Between(tt, a, a + k + 1)
<1>1. PICK t : t = Between(st, a, b)
  OBVIOUS
<1>2. t \in Seq(Things) /\ Len(t) = b - a - 1 /\ \A n \in 1..(b - a - 1) : t[n] = st[a + n]
  BY <1>1, BetweenFacts
<1>3. PICK c \in Nat : c = a + k + 1
  OBVIOUS
<1>4. a < c /\ c - a - 1 = k /\ \A s \in (a + 1)..(c - 1) : tt[s] \in Things
  BY <1>3
<1>5. PICK u : u = Between(tt, a, c)
  OBVIOUS
<1>6. u \in Seq(Things) /\ Len(u) = k /\ \A n \in 1..k : u[n] = tt[a + n]
  <2>1. /\ u \in Seq(Things) /\ Len(u) = c - a - 1
        /\ \A n \in 1..(c - a - 1) : u[n] = tt[a + n]
    BY <1>4, <1>5, BetweenFacts
  <2> QED
    BY <1>4, <2>1
<1>7. \A n \in 1..k : t[n] \in Things
  BY <1>2, ElementOfSeq
<1>8. /\ SubSeq(t, 1, k) \in Seq(Things) /\ Len(SubSeq(t, 1, k)) = k
      /\ \A n \in 1..k : SubSeq(t, 1, k)[n] = t[n]
  BY <1>7, SubSeqProperties
<1>9. ASSUME NEW n \in 1..k PROVE SubSeq(t, 1, k)[n] = u[n]
  <2>1. a + n \in (a + 1)..(a + k) /\ n \in 1..(b - a - 1)
    OBVIOUS
  <2> QED
    BY <1>2, <1>6, <1>8, <2>1
<1>10. SubSeq(t, 1, k) = u
  BY <1>6, <1>8, <1>9, SeqEqual
<1> QED
  BY <1>1, <1>3, <1>5, <1>10

LEMMA OneMoreBetween ==
  ASSUME NEW st, NEW tt, NEW a \in Nat, NEW b \in Nat, a < b,
         \A s \in (a + 1)..(b - 1) : st[s] \in Things /\ tt[s] = st[s],
         tt[b] \in Things
  PROVE  Between(tt, a, b + 1) = Append(Between(st, a, b), tt[b])
<1>1. PICK t : t = Between(st, a, b)
  OBVIOUS
<1>2. t \in Seq(Things) /\ Len(t) = b - a - 1 /\ \A n \in 1..(b - a - 1) : t[n] = st[a + n]
  BY <1>1, BetweenFacts
<1>3. PICK c \in Nat : c = b + 1
  OBVIOUS
<1>4. a < c /\ c - a - 1 = b - a /\ \A s \in (a + 1)..(c - 1) : tt[s] \in Things
  BY <1>3
<1>5. PICK u : u = Between(tt, a, c)
  OBVIOUS
<1>6. u \in Seq(Things) /\ Len(u) = b - a /\ \A n \in 1..(b - a) : u[n] = tt[a + n]
  BY <1>3, <1>4, <1>5, BetweenFacts
<1>7. PICK v \in Things : v = tt[b]
  OBVIOUS
<1>8. /\ Append(t, v) \in Seq(Things) /\ Len(Append(t, v)) = b - a
      /\ \A n \in 1..(b - a - 1) : Append(t, v)[n] = t[n]
      /\ Append(t, v)[b - a] = v
  BY <1>2, AppendProperties
<1>9. ASSUME NEW n \in 1..(b - a) PROVE Append(t, v)[n] = u[n]
  <2>1. CASE n = b - a
    <3>1. a + n = b
      BY <2>1
    <3>2. u[n] = tt[b]
      BY <1>6, <3>1
    <3>3. Append(t, v)[n] = v
      BY <1>8, <2>1
    <3> QED
      BY <1>7, <3>2, <3>3
  <2>2. CASE n \in 1..(b - a - 1)
    <3>1. a + n \in (a + 1)..(b - 1)
      BY <2>2
    <3> QED
      BY <1>2, <1>6, <1>8, <2>2, <3>1
  <2>3. n = b - a \/ n \in 1..(b - a - 1)
    OBVIOUS
  <2> QED
    BY <2>1, <2>2, <2>3
<1>10. Append(t, v) = u
  BY <1>6, <1>8, <1>9, SeqEqual
<1> QED
  BY <1>1, <1>3, <1>5, <1>7, <1>10

(* The last of the values between two slots, and the others. *)
LEMMA LastBetween ==
  ASSUME NEW st, NEW tt, NEW a \in Nat, NEW b \in Nat, a < b - 1,
         \A s \in (a + 1)..(b - 1) : st[s] \in Things,
         \A s \in (a + 1)..(b - 2) : tt[s] = st[s]
  PROVE  /\ Between(st, a, b) # <<>>
         /\ Last(Between(st, a, b)) = st[b - 1]
         /\ Front(Between(st, a, b)) = Between(tt, a, b - 1)
<1> a < b
  OBVIOUS
<1>1. PICK t : t = Between(st, a, b)
  OBVIOUS
<1>2. t \in Seq(Things) /\ Len(t) = b - a - 1 /\ \A n \in 1..(b - a - 1) : t[n] = st[a + n]
  BY <1>1, BetweenFacts
<1>3. PICK c \in Nat : c = b - 1
  OBVIOUS
<1>4. /\ a < c /\ c - a - 1 = Len(t) - 1 /\ Len(t) \in 1..(b - a - 1) /\ a + Len(t) = c
      /\ t # <<>>
  BY <1>2, <1>3
<1>5. PICK u : u = Between(tt, a, c)
  OBVIOUS
<1>6. u \in Seq(Things) /\ Len(u) = Len(t) - 1 /\ \A n \in 1..(Len(t) - 1) : u[n] = tt[a + n]
  <2>1. ASSUME NEW s \in (a + 1)..(c - 1) PROVE tt[s] \in Things
    <3>1. s \in (a + 1)..(b - 2) /\ s \in (a + 1)..(b - 1)
      BY <1>3
    <3> QED
      BY <3>1
  <2>2. /\ u \in Seq(Things) /\ Len(u) = c - a - 1
        /\ \A n \in 1..(c - a - 1) : u[n] = tt[a + n]
    <3>1. a < c
      BY <1>4
    <3>2. /\ Between(tt, a, c) \in Seq(Things) /\ Len(Between(tt, a, c)) = c - a - 1
          /\ \A n \in 1..(c - a - 1) : Between(tt, a, c)[n] = tt[a + n]
      BY <2>1, <3>1, BetweenFacts
    <3> QED
      BY <1>5, <3>2
  <2> QED
    BY <1>4, <2>2
<1>7. /\ Last(t) = t[Len(t)]
      /\ Front(t) \in Seq(Things) /\ Len(Front(t)) = Len(t) - 1
      /\ \A n \in 1..(Len(t) - 1) : Front(t)[n] = t[n]
  BY <1>2, <1>4, LastAndFront
<1>8. ASSUME NEW n \in 1..(Len(t) - 1) PROVE Front(t)[n] = u[n]
  <2>1. n \in 1..(b - a - 1) /\ a + n \in (a + 1)..(b - 2)
    BY <1>2
  <2> QED
    BY <1>2, <1>6, <1>7, <2>1
<1>9. Front(t) = u
  BY <1>6, <1>7, <1>8, SeqEqual
<1>10. Last(t) = st[b - 1]
  BY <1>2, <1>3, <1>4, <1>7
<1> QED
  BY <1>1, <1>3, <1>4, <1>5, <1>9, <1>10

----------------------------------------------------------------------------
(* The calls, as the language sees them.                                   *)

EndOf(i)      == IF i = Len(frames) THEN stackTop ELSE frames[i + 1].slots
VarsOf(i)     == [j \in 1..Len(frames[i].locals) |-> LocalAt(i, j).variable]
OperandsOf(i) == Between(stack, TopLocal(i), EndOf(i))
ScopeAt(i) ==
  [function |-> frames[i].closure, vars |-> VarsOf(i), operands |-> OperandsOf(i)]

ScopeType == [function : Nat, vars : Seq(Variable), operands : Seq(Things)]

ScopesAre ==
  /\ Scopes \in Seq(ScopeType) /\ Len(Scopes) = Len(frames)
  /\ \A i \in 1..Len(frames) :
       /\ Scopes[i] = ScopeAt(i)
       /\ VarsOf(i) \in Seq(Variable) /\ Len(VarsOf(i)) = Len(frames[i].locals)
       /\ OperandsOf(i) \in Seq(Things)
       /\ Len(OperandsOf(i)) = EndOf(i) - TopLocal(i) - 1

(* The stack of a call is above its local variables.                       *)
LEMMA EndFacts ==
  ASSUME IInv, NEW i \in 1..Len(frames)
  PROVE  /\ TopLocal(i) \in Nat /\ EndOf(i) \in Nat
         /\ TopLocal(i) < EndOf(i) /\ EndOf(i) <= stackTop
         /\ \A s \in 0..(EndOf(i) - 1) : s \in Slot /\ stack[s] \in Things
         /\ \A s \in 1..(EndOf(i) - 1) : stack[s] \in Held
<1>1. Len(frames) \in Nat /\ stackTop \in Nat /\ stackTop <= StackMax /\ StackMax \in Nat
  BY TypeFacts
<1>2. TopLocal(i) \in Nat /\ TopLocal(i) < stackTop
  BY LocalFacts DEF TopLocal, IInv, Stacked
<1>3. EndOf(i) \in Nat /\ TopLocal(i) < EndOf(i) /\ EndOf(i) <= stackTop
  <2>1. CASE i = Len(frames)
    BY <1>1, <1>2, <2>1 DEF EndOf
  <2>2. CASE i # Len(frames)
    <3>1. PICK k : k = i + 1
      OBVIOUS
    <3>2. k \in 1..Len(frames) /\ k \in (i + 1)..Len(frames)
      BY <1>1, <2>2, <3>1
    <3>3. TopLocal(i) < frames[k].slots /\ TopLocal(k) < stackTop
      BY <3>2 DEF IInv, Stacked
    <3>4. frames[k].slots \in Nat /\ frames[k].slots <= TopLocal(k) /\ TopLocal(k) \in Nat
      BY <3>2, LocalFacts DEF TopLocal
    <3> QED
      BY <1>1, <2>2, <3>1, <3>3, <3>4 DEF EndOf
  <2> QED
    BY <2>1, <2>2
<1>4. \A s \in Slot : stack[s] \in Things
  BY <1>1, TypeFacts DEF IInv, Typed, Things
<1>5. \A s \in 0..(EndOf(i) - 1) : s \in Slot
  BY <1>1, <1>3 DEF Slot
<1>6. \A s \in 1..(EndOf(i) - 1) : stack[s] \in Held
  <2>1. ASSUME NEW s \in 1..(EndOf(i) - 1) PROVE s \in Slot \ {0}
    BY <1>1, <1>3 DEF Slot
  <2> QED
    BY <2>1, SlotFacts
<1> QED
  BY <1>2, <1>3, <1>4, <1>5, <1>6

LEMMA ScopesHold == IInv => ScopesAre
<1> SUFFICES ASSUME IInv PROVE ScopesAre
  OBVIOUS
<1>1. Len(frames) \in Nat /\ DOMAIN frames = 1..Len(frames)
  BY TypeFacts
<1>2. ASSUME NEW i \in 1..Len(frames)
      PROVE  /\ VarsOf(i) \in Seq(Variable) /\ Len(VarsOf(i)) = Len(frames[i].locals)
             /\ OperandsOf(i) \in Seq(Things)
             /\ Len(OperandsOf(i)) = EndOf(i) - TopLocal(i) - 1
             /\ ScopeAt(i) \in ScopeType
             /\ ScopeOf(i) = ScopeAt(i)
  <2>1. /\ frames[i].closure \in Nat /\ frames[i].slots \in Nat
        /\ Len(frames[i].locals) \in Nat
        /\ DOMAIN frames[i].locals = 1..Len(frames[i].locals)
        /\ \A j \in 1..Len(frames[i].locals) : frames[i].locals[j] \in LocalType
    BY LocalFacts, TypeFacts
  <2>2. VarsOf(i) \in [1..Len(frames[i].locals) -> Variable]
    BY <2>1 DEF VarsOf, LocalAt, LocalType
  <2>3. VarsOf(i) \in Seq(Variable) /\ Len(VarsOf(i)) = Len(frames[i].locals)
    BY <2>1, <2>2, FunctionIsSeq
  <2>4. PICK a \in Nat : a = TopLocal(i)
    BY EndFacts
  <2>5. PICK b \in Nat : b = EndOf(i)
    BY EndFacts
  <2>6. a < b
    BY <2>4, <2>5, EndFacts
  <2>7. \A s \in (a + 1)..(b - 1) : s \in 0..(b - 1)
    BY <2>6
  <2>8. \A s \in (a + 1)..(b - 1) : stack[s] \in Things
    BY <2>5, <2>7, EndFacts
  <2>9. Between(stack, a, b) \in Seq(Things) /\ Len(Between(stack, a, b)) = b - a - 1
    BY <2>6, <2>8, BetweenFacts
  <2>10. OperandsOf(i) \in Seq(Things) /\ Len(OperandsOf(i)) = b - a - 1
    BY <2>4, <2>5, <2>9 DEF OperandsOf
  <2>11. ScopeAt(i) \in ScopeType
    BY <2>1, <2>3, <2>10 DEF ScopeAt, ScopeType
  <2>12. ScopeOf(i).vars = VarsOf(i)
    BY <2>1 DEF ScopeOf, VarsOf, LocalAt
  <2>13. ScopeOf(i).operands = OperandsOf(i)
    <3>1. ScopeOf(i).operands =
            [n \in 1..(b - (frames[i].slots + 1) - Len(frames[i].locals)) |->
               stack[frames[i].slots + Len(frames[i].locals) + n]]
      BY <2>5 DEF ScopeOf, Base, EndOf
    <3>2. b - (frames[i].slots + 1) - Len(frames[i].locals) = b - a - 1
          /\ frames[i].slots + Len(frames[i].locals) = a
      <4>1. PICK k, l : k = Len(frames[i].locals) /\ l = frames[i].slots
        OBVIOUS
      <4>2. k \in Nat /\ l \in Nat /\ a = l + k
        BY <2>1, <2>4, <4>1 DEF TopLocal
      <4>3. b - (l + 1) - k = b - a - 1
        BY <4>2
      <4> QED
        BY <4>1, <4>2, <4>3
    <3> QED
      BY <2>4, <2>5, <3>1, <3>2 DEF OperandsOf, Between
  <2>14. ScopeOf(i) = ScopeAt(i)
    BY <2>12, <2>13 DEF ScopeOf, ScopeAt
  <2> QED
    BY <2>3, <2>4, <2>5, <2>10, <2>11, <2>14
<1>3. PICK n \in Nat : n = Len(frames)
  BY <1>1
<1>4. Scopes \in [1..n -> ScopeType] /\ \A i \in 1..n : Scopes[i] = ScopeAt(i)
  BY <1>1, <1>2, <1>3 DEF Scopes
<1>5. Scopes \in Seq(ScopeType) /\ Len(Scopes) = n
  BY <1>4, FunctionIsSeq
<1> QED
  BY <1>2, <1>3, <1>4, <1>5 DEF ScopesAre

LEMMA ScopesHoldNext == (IInv => ScopesAre)'
BY ScopesHold, PTL

----------------------------------------------------------------------------
(* Values.  A local variable has that of its slot, and a captured one that *)
(* which its upvalue reads, which is the same for a variable that is both. *)

ValuesAre ==
  /\ \A v, i, j : IsLocal(i, j) /\ LocalAt(i, j).variable = v =>
                  ValueOf(v) = stack[SlotOf(i, j)]
  /\ \A v : \A u \in 1..Len(upvalues) : upvalues[u].variable = v => ValueOf(v) = Read(u)
  /\ \A v \in Living : \/ \E i, j : IsLocal(i, j) /\ LocalAt(i, j).variable = v
                       \/ \E u \in 1..Len(upvalues) : upvalues[u].variable = v

LEMMA IsLocalVariable ==
  ASSUME IInv, NEW f \in Range(frames), NEW v \in LocalsOf(f)
  PROVE  \E i, j : IsLocal(i, j) /\ f = frames[i] /\ LocalAt(i, j).variable = v
<1>1. PICK i \in 1..Len(frames) : f = frames[i]
  BY TypeFacts DEF Range
<1>2. PICK j \in 1..Len(f.locals) : f.locals[j].variable = v
  BY <1>1, LocalFacts DEF LocalsOf
<1> QED
  BY <1>1, <1>2 DEF IsLocal, LocalAt

LEMMA LocalValue ==
  ASSUME IInv, NEW i, NEW j, IsLocal(i, j)
  PROVE  ValueOf(LocalAt(i, j).variable) = stack[SlotOf(i, j)]
<1>1. PICK v : v = LocalAt(i, j).variable
  OBVIOUS
<1>2. PICK f : f = frames[i]
  OBVIOUS
<1>3. i \in 1..Len(frames) /\ j \in 1..Len(f.locals) /\ DOMAIN f.locals = 1..Len(f.locals)
  BY <1>2, LocalFacts DEF IsLocal
<1>4. f \in Range(frames) /\ v \in LocalsOf(f)
  BY <1>1, <1>2, <1>3, TypeFacts DEF Range, LocalsOf, LocalAt
<1>5. ASSUME NEW g \in Range(frames), v \in LocalsOf(g) PROVE g = f
  <2>1. PICK k, l : IsLocal(k, l) /\ g = frames[k] /\ LocalAt(k, l).variable = v
    BY <1>5, IsLocalVariable
  <2>2. k = i
    BY <1>1, <2>1 DEF IInv, Distinct
  <2> QED
    BY <1>2, <2>1, <2>2
<1>6. ASSUME NEW l \in 1..Len(f.locals), f.locals[l].variable = v PROVE l = j
  <2>1. IsLocal(i, l) /\ LocalAt(i, l).variable = v
    BY <1>2, <1>3, <1>6 DEF IsLocal, LocalAt
  <2> QED
    BY <1>1, <2>1 DEF IInv, Distinct
<1>7. (CHOOSE g \in Range(frames) : v \in LocalsOf(g)) = f
  BY <1>4, <1>5
<1>8. (CHOOSE l \in DOMAIN f.locals : f.locals[l].variable = v) = j
  <2>1. f.locals[j].variable = v
    BY <1>1, <1>2 DEF LocalAt
  <2> QED
    BY <1>3, <1>6, <2>1
<1>9. ValueOf(v) = stack[f.slots + j]
  BY <1>4, <1>7, <1>8 DEF ValueOf
<1> QED
  BY <1>1, <1>2, <1>9 DEF SlotOf

LEMMA UpvalueValue ==
  ASSUME IInv, NEW u \in 1..Len(upvalues)
  PROVE  ValueOf(upvalues[u].variable) = Read(u)
<1>1. PICK v : v = upvalues[u].variable
  OBVIOUS
<1>2. CASE \E f \in Range(frames) : v \in LocalsOf(f)
  <2>1. PICK i, j : IsLocal(i, j) /\ LocalAt(i, j).variable = v
    BY <1>2, IsLocalVariable
  <2>2. ValueOf(v) = stack[SlotOf(i, j)]
    BY <2>1, LocalValue
  <2>3. upvalues[u].location = SlotOf(i, j)
    BY <1>1, <2>1 DEF IInv, Found
  <2>4. SlotOf(i, j) \in Slot
    BY <2>1, LocalFacts DEF IsLocal
  <2>5. SlotOf(i, j) # CLOSED
    BY <2>4, ClosuresAssumption DEF Slot
  <2> QED
    BY <1>1, <2>2, <2>3, <2>5 DEF Read
<1>3. CASE ~\E f \in Range(frames) : v \in LocalsOf(f)
  <2>1. \A w \in 1..Len(upvalues) : upvalues[w].variable = v => w = u
    BY <1>1 DEF IInv, Shared
  <2>2. (CHOOSE w \in DOMAIN upvalues : upvalues[w].variable = v) = u
    BY <1>1, <2>1, TypeFacts
  <2>3. ValueOf(v) = Read(CHOOSE w \in DOMAIN upvalues : upvalues[w].variable = v)
    BY <1>3 DEF ValueOf
  <2> QED
    BY <1>1, <2>2, <2>3
<1> QED
  BY <1>2, <1>3

LEMMA ValuesHold == IInv => ValuesAre
<1> SUFFICES ASSUME IInv PROVE ValuesAre
  OBVIOUS
<1>1. ASSUME NEW v \in Living
      PROVE  \/ \E i, j : IsLocal(i, j) /\ LocalAt(i, j).variable = v
             \/ \E u \in 1..Len(upvalues) : upvalues[u].variable = v
  <2>1. CASE v \in UNION {LocalsOf(f) : f \in Range(frames)}
    <3>1. PICK f \in Range(frames) : v \in LocalsOf(f)
      BY <2>1
    <3> QED
      BY <3>1, IsLocalVariable
  <2>2. CASE v \in {u.variable : u \in Range(upvalues)}
    BY <2>2, TypeFacts DEF Range
  <2> QED
    BY <2>1, <2>2 DEF Living
<1> QED
  BY <1>1, LocalValue, UpvalueValue DEF ValuesAre

LEMMA ValuesHoldNext == (IInv => ValuesAre)'
BY ValuesHold, PTL

(* What the language's store has.                                          *)
LEMMA ContentsAre ==
  ASSUME IInv
  PROVE  /\ DOMAIN Contents = Living
         /\ \A i, j : IsLocal(i, j) =>
              /\ LocalAt(i, j).variable \in Living
              /\ Contents[LocalAt(i, j).variable] = stack[SlotOf(i, j)]
         /\ \A u \in 1..Len(upvalues) :
              /\ upvalues[u].variable \in Living
              /\ Contents[upvalues[u].variable] = Read(u)
<1>1. \A v \in Living : Contents[v] = ValueOf(v)
  BY DEF Contents
<1>2. DOMAIN Contents = Living
  BY DEF Contents
<1> QED
  BY <1>1, <1>2, LivingFacts, LocalValue, UpvalueValue

LEMMA ContentsAreNext ==
  ASSUME IInv'
  PROVE  \A v \in Living' : Contents'[v] = ValueOf(v)'
BY DEF Contents

----------------------------------------------------------------------------
(* Functions.  Every upvalue was made for some function and stays with it: *)
(* so what lives for the machine lives for the language.                   *)

Captured(c) == closures[c].upvalues

Used ==
  \A u \in 1..Len(upvalues) : \E c \in 1..Len(closures) :
    \E k \in 1..Len(Captured(c)) : Captured(c)[k] = u

LInv == IInv /\ Used

(* No function loses an upvalue, and every new upvalue is some function's. *)
Lasting ==
  /\ \A c \in 1..Len(closures) :
       /\ c \in 1..Len(closures')
       /\ \A k \in 1..Len(Captured(c)) :
            k \in 1..Len(Captured(c)') /\ Captured(c)'[k] = Captured(c)[k]
  /\ \A u \in 1..Len(upvalues') :
       \/ u \in 1..Len(upvalues)
       \/ \E c \in 1..Len(closures') : \E k \in 1..Len(Captured(c)') : Captured(c)'[k] = u

LEMMA LastingUsed ==
  ASSUME Used, Lasting
  PROVE  Used'
<1> SUFFICES ASSUME NEW u \in 1..Len(upvalues')
             PROVE  \E c \in 1..Len(closures') :
                      \E k \in 1..Len(Captured(c)') : Captured(c)'[k] = u
  BY DEF Used
<1>1. CASE u \in 1..Len(upvalues)
  <2>1. PICK c \in 1..Len(closures) : \E k \in 1..Len(Captured(c)) : Captured(c)[k] = u
    BY <1>1 DEF Used
  <2>2. PICK k \in 1..Len(Captured(c)) : Captured(c)[k] = u
    BY <2>1
  <2> QED
    BY <2>2 DEF Lasting
<1> QED
  BY <1>1 DEF Lasting

LEMMA CapturedSeq ==
  ASSUME IInv, NEW c \in 1..Len(closures)
  PROVE  /\ Captured(c) \in Seq(1..Len(upvalues)) /\ Len(Captured(c)) \in Nat
         /\ DOMAIN Captured(c) = 1..Len(Captured(c))
         /\ \A k \in 1..Len(Captured(c)) : Captured(c)[k] \in 1..Len(upvalues)
<1>1. Captured(c) \in Seq(1..Len(upvalues))
  BY TypeFacts DEF ClosureType, Captured
<1> QED
  BY <1>1, LenProperties, ElementOfSeq

(* OP_CLOSURE makes a closure, *)
LEMMA NewClosureIs ==
  ASSUME IInv, NEW n, newClosure(n)
  PROVE  /\ Len(closures) \in Nat /\ Len(closures') = Len(closures) + 1
         /\ closures' = Append(closures, [arity |-> n, upvalues |-> <<>>])
         /\ \A c \in 1..Len(closures) : closures'[c] = closures[c]
         /\ closures'[Len(closures) + 1] = [arity |-> n, upvalues |-> <<>>]
         /\ push(Len(closures) + 1)
<1>1. PICK x : x = [arity |-> n, upvalues |-> <<>>]
  OBVIOUS
<1>2. closures' = Append(closures, x) /\ push(Len(closures) + 1)
  BY <1>1 DEF newClosure
<1>3. closures \in Seq(ClosureType \cup {x}) /\ Len(closures) \in Nat
  <2>1. closures \in Seq(ClosureType) /\ ClosureType \subseteq ClosureType \cup {x}
    BY DEF IInv, Typed
  <2> QED
    BY <2>1, SeqMonotonic, TypeFacts
<1>4. PICK S : S = ClosureType \cup {x}
  OBVIOUS
<1>5. closures \in Seq(S) /\ x \in S
  BY <1>3, <1>4
<1>6. /\ Len(Append(closures, x)) = Len(closures) + 1
      /\ \A c \in 1..Len(closures) : Append(closures, x)[c] = closures[c]
      /\ Append(closures, x)[Len(closures) + 1] = x
  BY <1>5, AppendProperties
<1> QED
  BY <1>1, <1>2, <1>3, <1>6

(* and its loop gives the closure its upvalues. *)
LEMMA FillIs ==
  ASSUME IInv, filling > 0, NEW u \in Nat, Fill(u)
  PROVE  /\ frames # <<>> /\ Len(closures) \in Nat \ {0} /\ peek(0) = Len(closures)
         /\ Len(closures') = Len(closures)
         /\ \A c \in 1..Len(closures) : c # Len(closures) => closures'[c] = closures[c]
         /\ closures'[Len(closures)].arity = closures[Len(closures)].arity
         /\ closures'[Len(closures)].upvalues = Append(Captured(Len(closures)), u)
         /\ Captured(Len(closures)) \in Seq(Nat)
         /\ UNCHANGED <<stack, stackTop, frames, global, ready>>
<1>1. PICK c : c = Len(closures)
  OBVIOUS
<1>2. /\ frames # <<>> /\ closures # <<>> /\ peek(0) = c
      /\ closures \in Seq(ClosureType)
      /\ UNCHANGED <<stack, stackTop, frames, global, ready>>
  BY <1>1 DEF IInv, Fills, Typed, Fill
<1>3. c \in Nat \ {0} /\ c \in 1..c
  BY <1>1, <1>2, EmptySeq, LenProperties
<1>4. closures[c] \in ClosureType /\ Captured(c) \in Seq(1..Len(upvalues))
  BY <1>1, <1>3, CapturedSeq, TypeFacts
<1>5. Captured(c) \in Seq(Nat)
  <2>1. 1..Len(upvalues) \subseteq Nat
    OBVIOUS
  <2> QED
    BY <1>4, <2>1, SeqMonotonic
<1>6. PICK f : f = [closures[c] EXCEPT !.upvalues = Append(Captured(c), u)]
  OBVIOUS
<1>7. f.arity = closures[c].arity /\ f.upvalues = Append(Captured(c), u)
  BY <1>4, <1>6 DEF ClosureType
<1>8. closures' = [closures EXCEPT ![c] = f]
  BY <1>2, <1>6 DEF Fill, Captured
<1>9. /\ DOMAIN closures = 1..c /\ Len(closures') = c
      /\ \A d \in 1..c : closures'[d] = IF d = c THEN f ELSE closures[d]
  <2>1. closures \in [1..c -> ClosureType]
    BY <1>1, <1>2, LenProperties
  <2>2. closures' \in [1..c -> ClosureType \cup {f}]
    BY <1>8, <2>1
  <2>3. c \in Nat
    BY <1>3
  <2>4. Len(closures') = c
    BY <2>2, <2>3, FunctionIsSeq
  <2> QED
    BY <1>8, <2>1, <2>4
<1>10. closures'[c] = f
  BY <1>3, <1>9
<1> QED
  BY <1>1, <1>2, <1>3, <1>5, <1>7, <1>9, <1>10

LEMMA UsedWhenSame ==
  ASSUME IInv, Used, closures' = closures, Len(upvalues') = Len(upvalues)
  PROVE  Used'
BY LastingUsed DEF Lasting, Captured

LEMMA UsedWhenNew ==
  ASSUME IInv, Used, NEW n, newClosure(n), upvalues' = upvalues
  PROVE  Used'
<1>1. /\ Len(closures) \in Nat /\ Len(closures') = Len(closures) + 1
      /\ \A c \in 1..Len(closures) : closures'[c] = closures[c]
  BY NewClosureIs
<1>2. \A c \in 1..Len(closures) : c \in 1..Len(closures') /\ Captured(c)' = Captured(c)
  BY <1>1 DEF Captured
<1> QED
  BY <1>2, LastingUsed DEF Lasting

LEMMA UsedWhenFilled ==
  ASSUME IInv, Used, filling > 0, NEW u \in Nat, Fill(u),
         Len(upvalues') \in {Len(upvalues), u}, u > 0, u <= Len(upvalues) + 1
  PROVE  Used'
<1>1. PICK n : n = Len(closures)
  OBVIOUS
<1>2. /\ n \in Nat \ {0} /\ Len(closures') = n
      /\ \A c \in 1..n : c # n => closures'[c] = closures[c]
      /\ closures'[n].upvalues = Append(Captured(n), u)
      /\ Captured(n) \in Seq(Nat)
  BY <1>1, FillIs
<1>3. \A c \in 1..n : c # n => Captured(c)' = Captured(c)
  BY <1>2 DEF Captured
<1>4. PICK s : s = Captured(n)
  OBVIOUS
<1>5. s \in Seq(Nat) /\ Captured(n)' = Append(s, u) /\ Len(s) \in Nat
  BY <1>2, <1>4, LenProperties DEF Captured
<1>6. /\ Len(Append(s, u)) = Len(s) + 1
      /\ \A k \in 1..Len(s) : Append(s, u)[k] = s[k]
      /\ Append(s, u)[Len(s) + 1] = u
  BY <1>5, AppendProperties
<1>7. ASSUME NEW c \in 1..n
      PROVE  \A k \in 1..Len(Captured(c)) :
               k \in 1..Len(Captured(c)') /\ Captured(c)'[k] = Captured(c)[k]
  <2>1. CASE c = n
    <3>1. Captured(c)' = Append(s, u) /\ Captured(c) = s
      BY <1>4, <1>5, <2>1 DEF Captured
    <3> QED
      BY <3>1, <1>5, <1>6
  <2>2. CASE c # n
    BY <2>2, <1>3
  <2> QED
    BY <2>1, <2>2
<1>8. ASSUME NEW w \in 1..Len(upvalues')
      PROVE  \/ w \in 1..Len(upvalues)
             \/ \E c \in 1..Len(closures') : \E k \in 1..Len(Captured(c)') : Captured(c)'[k] = w
  <2>1. w \in 1..Len(upvalues) \/ w = u
    BY TypeFacts
  <2>2. n \in 1..Len(closures') /\ Len(s) + 1 \in 1..Len(Captured(n)')
        /\ Captured(n)'[Len(s) + 1] = u
    BY <1>2, <1>5, <1>6
  <2> QED
    BY <2>1, <2>2
<1>9. Lasting
  BY <1>1, <1>2, <1>7, <1>8 DEF Lasting
<1> QED
  BY <1>9, LastingUsed

LEMMA CloseKeepsNumber ==
  ASSUME IInv, frames # <<>>, NEW slot \in Nat, closeUpvalues(slot)
  PROVE  Len(upvalues') = Len(upvalues)
BY CloseTypes

LEMMA ErrorIs ==
  ASSUME runtimeError
  PROVE  UNCHANGED <<stack, closures, upvalues, filling, global>> /\ frames' = <<>>
BY DEF runtimeError

LEMMA CaptureUses == ASSUME IInv, Used, NEW j, captureUpvalue(j) PROVE Used'
<1>1. PICK p : p = FirstNotAbove(Frame.slots + j)
  OBVIOUS
<1>2. PICK new : new = Len(upvalues) + 1
  OBVIOUS
<1>3. filling > 0 /\ frames # <<>> /\ j \in 1..Len(Locals) /\ Len(upvalues) \in Nat
  BY TopFacts, TypeFacts DEF captureUpvalue, IInv, Fills
<1>4. p \in 1..(Len(openUpvalues) + 1) /\ Len(openUpvalues) \in Nat
  <2>1. Frame.slots + j \in Nat
    BY <1>3, TopFacts
  <2> QED
    BY <1>1, <2>1, FirstNotAboveFacts, TypeFacts
<1>5. CASE p <= Len(openUpvalues) /\ Location(p) = Frame.slots + j
  <2>1. Fill(openUpvalues[p]) /\ upvalues' = upvalues
    BY <1>1, <1>5 DEF captureUpvalue
  <2>2. openUpvalues[p] \in 1..Len(upvalues)
    BY <1>4, <1>5, TypeFacts
  <2>3. PICK u \in Nat : u = openUpvalues[p]
    BY <2>2
  <2>4. u > 0 /\ u <= Len(upvalues) + 1 /\ Len(upvalues') \in {Len(upvalues), u}
    BY <1>3, <2>1, <2>2, <2>3
  <2> QED
    BY <1>3, <2>1, <2>3, <2>4, UsedWhenFilled
<1>6. CASE ~(p <= Len(openUpvalues) /\ Location(p) = Frame.slots + j)
  <2>1. Fill(new) /\ upvalues' = Append(upvalues, Open(Locals[j].variable, Frame.slots + j))
    BY <1>1, <1>2, <1>6 DEF captureUpvalue
  <2>2. Len(upvalues') = new
    <3>1. upvalues \in Seq(UpvalueType \cup {Open(Locals[j].variable, Frame.slots + j)})
      <4>1. upvalues \in Seq(UpvalueType)
        BY DEF IInv, Typed
      <4> QED
        BY <4>1, SeqMonotonic
    <3>2. PICK x : x = Open(Locals[j].variable, Frame.slots + j)
      OBVIOUS
    <3>3. PICK S : S = UpvalueType \cup {x}
      OBVIOUS
    <3>4. upvalues \in Seq(S) /\ x \in S
      BY <3>1, <3>2, <3>3
    <3>5. Len(Append(upvalues, x)) = Len(upvalues) + 1
      BY <3>4, AppendProperties
    <3> QED
      BY <1>2, <2>1, <3>2, <3>5
  <2>3. new \in Nat /\ new > 0 /\ new <= Len(upvalues) + 1
    BY <1>2, <1>3
  <2> QED
    BY <1>3, <2>1, <2>2, <2>3, UsedWhenFilled
<1> QED
  BY <1>5, <1>6

LEMMA InheritUses == ASSUME IInv, Used, NEW k, inheritUpvalue(k) PROVE Used'
<1>1. filling > 0 /\ frames # <<>> /\ upvalues' = upvalues
      /\ k \in DOMAIN UpvaluesOf(Frame.closure) /\ Fill(UpvaluesOf(Frame.closure)[k])
  BY DEF inheritUpvalue, IInv, Fills
<1>2. PICK u : u = UpvaluesOf(Frame.closure)[k]
  OBVIOUS
<1>3. u \in 1..Len(upvalues) /\ Len(upvalues) \in Nat /\ Fill(u)
  BY <1>1, <1>2, CapturedFacts, TypeFacts
<1>4. u \in Nat /\ u > 0 /\ u <= Len(upvalues) + 1 /\ Len(upvalues') \in {Len(upvalues), u}
  BY <1>1, <1>3
<1> QED
  BY <1>1, <1>3, <1>4, UsedWhenFilled

LEMMA SetUpvalueKeepsNumber ==
  ASSUME IInv, NEW k, OP_SET_UPVALUE(k)
  PROVE  /\ closures' = closures /\ Len(upvalues') = Len(upvalues)
         /\ UNCHANGED <<stackTop, frames, openUpvalues, filling, global, ready>>
<1>1. PICK u : u = UpvaluesOf(Frame.closure)[k]
  OBVIOUS
<1>2. /\ UNCHANGED <<stackTop, frames, closures, openUpvalues, filling, global, ready>>
      /\ \/ upvalues' = upvalues
         \/ upvalues' = [upvalues EXCEPT ![u].closed = peek(0)]
      /\ frames # <<>> /\ k \in DOMAIN UpvaluesOf(Frame.closure)
  BY <1>1 DEF OP_SET_UPVALUE, Running
<1>3. CASE upvalues' = upvalues
  BY <1>2, <1>3
<1>4. CASE upvalues' = [upvalues EXCEPT ![u].closed = peek(0)]
  <2>1. PICK x : x = [upvalues[u] EXCEPT !.closed = peek(0)]
    OBVIOUS
  <2>2. u \in 1..Len(upvalues) /\ upvalues \in Seq(UpvalueType)
    BY <1>1, <1>2, CapturedFacts DEF IInv, Typed
  <2>3. PICK S : S = UpvalueType \cup {x}
    OBVIOUS
  <2>4. upvalues \in Seq(S) /\ x \in S
    BY <2>2, <2>3, SeqMonotonic
  <2>5. upvalues' = [upvalues EXCEPT ![u] = x]
    BY <1>4, <2>1
  <2> QED
    BY <1>2, <2>2, <2>4, <2>5, ExceptSeq
<1> QED
  BY <1>2, <1>3, <1>4

LEMMA NextUsed == IInv /\ Used /\ [Next]_vars => Used'
<1> SUFFICES ASSUME IInv, Used, [Next]_vars PROVE Used'
  OBVIOUS
<1>1. CASE UNCHANGED <<closures, upvalues>>
  BY <1>1, UsedWhenSame
<1>2. CASE interpret
  BY <1>1, <1>2 DEF interpret, heap
<1>3. ASSUME NEW v \in Data, OP_CONSTANT(v) PROVE Used'
  BY <1>1, <1>3 DEF OP_CONSTANT, heap
<1>4. ASSUME NEW j \in Slot, OP_GET_LOCAL(j) \/ OP_SET_LOCAL(j) PROVE Used'
  BY <1>1, <1>4 DEF OP_GET_LOCAL, OP_SET_LOCAL, heap
<1>5. ASSUME NEW k \in 1..MaxUpvalues, OP_GET_UPVALUE(k) PROVE Used'
  BY <1>1, <1>5 DEF OP_GET_UPVALUE, heap
<1>6. ASSUME NEW k \in 1..MaxUpvalues, OP_SET_UPVALUE(k) PROVE Used'
  BY <1>6, SetUpvalueKeepsNumber, UsedWhenSame
<1>7. CASE OP_POP
  BY <1>1, <1>7 DEF OP_POP, heap
<1>8. CASE OP_GET_GLOBAL
  BY <1>1, <1>8, ErrorIs DEF OP_GET_GLOBAL, heap
<1>9. CASE OP_DEFINE_GLOBAL
  BY <1>1, <1>9 DEF OP_DEFINE_GLOBAL, heap
<1>10. CASE OP_SET_GLOBAL
  BY <1>1, <1>10, ErrorIs DEF OP_SET_GLOBAL, heap
<1>11. CASE WrongOperand
  BY <1>1, <1>11, ErrorIs DEF WrongOperand
<1>12. ASSUME NEW isCaptured \in BOOLEAN, defineVariable(isCaptured) PROVE Used'
  BY <1>1, <1>12 DEF defineVariable, heap
<1>13. CASE OP_CLOSE_UPVALUE
  <2>1. closeUpvalues(stackTop - 1) /\ closures' = closures /\ stackTop - 1 \in Nat
        /\ frames # <<>>
    <3>1. EndsScope(TRUE) /\ closeUpvalues(stackTop - 1)
      BY <1>13 DEF OP_CLOSE_UPVALUE
    <3>2. /\ closures' = closures /\ frames # <<>>
          /\ stackTop' = stackTop - 1 /\ stackTop' \in 0..StackMax
      BY <3>1, EndsScopeFacts
    <3> QED
      BY <3>1, <3>2
  <2> QED
    BY <2>1, CloseKeepsNumber, UsedWhenSame
<1>14. CASE OP_POP_LOCAL
  BY <1>1, <1>14 DEF OP_POP_LOCAL, EndsScope
<1>15. ASSUME NEW n \in 0..MaxArity, NEW count \in 0..MaxUpvalues, OP_CLOSURE(n, count)
       PROVE  Used'
  BY <1>15, UsedWhenNew DEF OP_CLOSURE
<1>16. ASSUME NEW n \in 0..MaxArity, NEW count \in 0..MaxUpvalues,
              NEW isCaptured \in BOOLEAN, OP_CLOSURE_LOCAL(n, count, isCaptured)
       PROVE  Used'
  BY <1>16, UsedWhenNew DEF OP_CLOSURE_LOCAL
<1>17. ASSUME NEW n \in 0..MaxArity, OP_CALL(n) PROVE Used'
  BY <1>1, <1>17, ErrorIs DEF OP_CALL, heap
<1>18. CASE OP_RETURN
  <2>1. closeUpvalues(Frame.slots) /\ closures' = closures /\ Frame.slots \in Nat
        /\ frames # <<>>
    BY <1>18, TopFacts DEF OP_RETURN, Running
  <2> QED
    BY <2>1, CloseKeepsNumber, UsedWhenSame
<1>19. CASE UNCHANGED vars
  BY <1>1, <1>19 DEF vars
<1> QED
  BY <1>2, <1>3, <1>4, <1>5, <1>6, <1>7, <1>8, <1>9, <1>10, <1>11, <1>12, <1>13, <1>14,
     <1>15, <1>16, <1>17, <1>18, <1>19, CaptureUses, InheritUses DEF Next, Instruction

LEMMA AlwaysLInv == Spec => []LInv
<1>1. Init => Used
  BY DEF Init, Used
<1>2. IInv /\ IInv' /\ Used /\ [Next]_vars => Used'
  BY NextUsed
<1> QED
  BY <1>1, <1>2, AlwaysIInv, PTL DEF Spec, LInv

----------------------------------------------------------------------------
(* The functions, as the language sees them.                               *)

CapturedBy(c)   == [k \in 1..Len(Captured(c)) |-> upvalues[Captured(c)[k]].variable]
FunctionType    == [arity : 0..MaxArity, captured : Seq(Variable)]
FunctionAt(c)   == [arity |-> closures[c].arity, captured |-> CapturedBy(c)]

CapturesAre ==
  /\ Captures \in Seq(FunctionType) /\ Len(Captures) = Len(closures)
  /\ \A c \in 1..Len(closures) :
       /\ Captures[c] = FunctionAt(c)
       /\ CapturedBy(c) \in Seq(Variable) /\ Len(CapturedBy(c)) = Len(Captured(c))

LEMMA CapturesHold == IInv => CapturesAre
<1> SUFFICES ASSUME IInv PROVE CapturesAre
  OBVIOUS
<1>1. PICK n \in Nat : n = Len(closures)
  BY TypeFacts
<1>2. ASSUME NEW c \in 1..n
      PROVE  /\ CapturedBy(c) \in Seq(Variable) /\ Len(CapturedBy(c)) = Len(Captured(c))
             /\ FunctionAt(c) \in FunctionType
             /\ [k \in DOMAIN closures[c].upvalues |->
                   upvalues[closures[c].upvalues[k]].variable] = CapturedBy(c)
  <2>1. /\ Len(Captured(c)) \in Nat /\ DOMAIN Captured(c) = 1..Len(Captured(c))
        /\ \A k \in 1..Len(Captured(c)) : Captured(c)[k] \in 1..Len(upvalues)
    BY <1>1, CapturedSeq
  <2>2. CapturedBy(c) \in [1..Len(Captured(c)) -> Variable]
    <3>1. \A u \in 1..Len(upvalues) : upvalues[u].variable \in Variable
      BY TypeFacts DEF UpvalueType
    <3>2. \A k \in 1..Len(Captured(c)) : upvalues[Captured(c)[k]].variable \in Variable
      BY <2>1, <3>1
    <3> QED
      BY <3>2 DEF CapturedBy
  <2>3. CapturedBy(c) \in Seq(Variable) /\ Len(CapturedBy(c)) = Len(Captured(c))
    BY <2>1, <2>2, FunctionIsSeq
  <2>4. closures[c].arity \in 0..MaxArity
    BY <1>1, TypeFacts DEF ClosureType
  <2> QED
    BY <2>1, <2>3, <2>4 DEF FunctionAt, FunctionType, CapturedBy, Captured
<1>3. Captures \in [1..n -> FunctionType] /\ \A c \in 1..n : Captures[c] = FunctionAt(c)
  BY <1>1, <1>2, TypeFacts DEF Captures, FunctionAt
<1>4. Captures \in Seq(FunctionType) /\ Len(Captures) = n
  BY <1>3, FunctionIsSeq
<1> QED
  BY <1>1, <1>2, <1>3, <1>4 DEF CapturesAre

LEMMA CapturesHoldNext == (IInv => CapturesAre)'
BY CapturesHold, PTL

----------------------------------------------------------------------------
(* A step of the language.                                                 *)

LivingAsPromised == Living = Variables!Living(Scopes, Captures)

LEMMA LivingIsPromised == LInv => LivingAsPromised
<1> SUFFICES ASSUME LInv PROVE Living = Variables!Living(Scopes, Captures)
  BY DEF LivingAsPromised
<1>1. IInv /\ Used /\ ScopesAre /\ CapturesAre /\ ValuesAre
  BY ScopesHold, CapturesHold, ValuesHold DEF LInv
<1>2. /\ DOMAIN Scopes = 1..Len(frames)
      /\ DOMAIN Captures = 1..Len(closures)
  <2>1. Scopes \in Seq(ScopeType) /\ Captures \in Seq(FunctionType)
        /\ Len(Scopes) = Len(frames) /\ Len(Captures) = Len(closures)
    BY <1>1 DEF ScopesAre, CapturesAre
  <2> QED
    BY <2>1, LenProperties
<1>3. \A v : v \in Variables!Living(Scopes, Captures) <=>
        \/ \E i \in 1..Len(frames) : v \in Range(VarsOf(i))
        \/ \E c \in 1..Len(closures) : v \in Range(CapturedBy(c))
  <2>1. ASSUME NEW i \in 1..Len(frames) PROVE Scopes[i].vars = VarsOf(i)
    <3>1. Scopes[i] = ScopeAt(i)
      BY <1>1 DEF ScopesAre
    <3> QED
      BY <3>1 DEF ScopeAt
  <2>2. ASSUME NEW c \in 1..Len(closures) PROVE Captures[c].captured = CapturedBy(c)
    <3>1. Captures[c] = FunctionAt(c)
      BY <1>1 DEF CapturesAre
    <3> QED
      BY <3>1 DEF FunctionAt
  <2>3. Variables!Living(Scopes, Captures) =
          UNION ({Range(VarsOf(i)) : i \in 1..Len(frames)}
                   \cup {Range(CapturedBy(c)) : c \in 1..Len(closures)})
    <3>1. {Range(Scopes[i].vars) : i \in DOMAIN Scopes}
            = {Range(VarsOf(i)) : i \in 1..Len(frames)}
      BY <1>2, <2>1
    <3>2. {Range(Captures[c].captured) : c \in DOMAIN Captures}
            = {Range(CapturedBy(c)) : c \in 1..Len(closures)}
      BY <1>2, <2>2
    <3>3. Variables!Living(Scopes, Captures) =
            UNION ({Range(Scopes[i].vars) : i \in DOMAIN Scopes}
                     \cup {Range(Captures[c].captured) : c \in DOMAIN Captures})
      BY DEF Variables!Living, Variables!Range, Range
    <3> QED
      BY <3>1, <3>2, <3>3
  <2> QED
    BY <2>3
<1>4. ASSUME NEW i \in 1..Len(frames), NEW v
      PROVE  v \in Range(VarsOf(i)) <=> \E j : IsLocal(i, j) /\ LocalAt(i, j).variable = v
  BY DEF VarsOf, IsLocal, Range
<1>5. ASSUME NEW v, NEW c \in 1..Len(closures), v \in Range(CapturedBy(c))
      PROVE  \E u \in 1..Len(upvalues) : upvalues[u].variable = v
  <2>1. PICK k \in 1..Len(Captured(c)) : v = upvalues[Captured(c)[k]].variable
    BY <1>5 DEF CapturedBy, Range
  <2> QED
    BY <1>1, <2>1, CapturedSeq
<1>6. ASSUME NEW u \in 1..Len(upvalues)
      PROVE  \E c \in 1..Len(closures) : upvalues[u].variable \in Range(CapturedBy(c))
  <2>1. PICK c \in 1..Len(closures) : \E k \in 1..Len(Captured(c)) : Captured(c)[k] = u
    BY <1>1 DEF Used
  <2>2. PICK k \in 1..Len(Captured(c)) : Captured(c)[k] = u
    BY <2>1
  <2>3. CapturedBy(c)[k] = upvalues[u].variable /\ k \in DOMAIN CapturedBy(c)
    BY <2>2 DEF CapturedBy
  <2> QED
    BY <2>3 DEF Range
<1>7. ASSUME NEW v \in Living PROVE v \in Variables!Living(Scopes, Captures)
  <2>1. CASE \E i, j : IsLocal(i, j) /\ LocalAt(i, j).variable = v
    <3>1. PICK i, j : IsLocal(i, j) /\ LocalAt(i, j).variable = v
      BY <2>1
    <3>2. i \in 1..Len(frames)
      BY <3>1 DEF IsLocal
    <3> QED
      BY <1>3, <1>4, <3>1, <3>2
  <2>2. CASE \E u \in 1..Len(upvalues) : upvalues[u].variable = v
    BY <1>3, <1>6, <2>2
  <2> QED
    BY <1>1, <2>1, <2>2 DEF ValuesAre
<1>8. ASSUME NEW v \in Variables!Living(Scopes, Captures) PROVE v \in Living
  <2>1. CASE \E i \in 1..Len(frames) : v \in Range(VarsOf(i))
    <3>1. PICK i \in 1..Len(frames) : v \in Range(VarsOf(i))
      BY <2>1
    <3>2. PICK j : IsLocal(i, j) /\ LocalAt(i, j).variable = v
      BY <1>4, <3>1
    <3> QED
      BY <1>1, <3>2, LivingFacts
  <2>2. CASE \E c \in 1..Len(closures) : v \in Range(CapturedBy(c))
    BY <1>1, <1>5, <2>2, LivingFacts
  <2> QED
    BY <1>3, <1>8, <2>1, <2>2
<1> QED
  BY <1>7, <1>8

LEMMA LivingIsPromisedNext == (LInv => LivingAsPromised)'
BY LivingIsPromised, PTL

(* After it, the variables have the values st.                             *)
LEMMA Becoming ==
  ASSUME LInv', NEW st,
         \A i, j : IsLocal(i, j)' => stack'[SlotOf(i, j)'] = st[LocalAt(i, j)'.variable],
         \A u \in 1..Len(upvalues') :
           \/ \E i, j : IsLocal(i, j)' /\ LocalAt(i, j)'.variable = upvalues'[u].variable
           \/ Read(u)' = st[upvalues'[u].variable]
  PROVE  Variables!Become(Scopes', Captures', st)
<1>1. IInv' /\ ValuesAre' /\ LivingAsPromised'
  BY ValuesHoldNext, LivingIsPromisedNext DEF LInv
<1>2. ASSUME NEW v \in Living' PROVE Contents'[v] = st[v]
  <2>1. Contents'[v] = ValueOf(v)'
    BY <1>1, ContentsAreNext
  <2>2. CASE \E i, j : IsLocal(i, j)' /\ LocalAt(i, j)'.variable = v
    <3>1. PICK i, j : IsLocal(i, j)' /\ LocalAt(i, j)'.variable = v
      BY <2>2
    <3>2. ValueOf(v)' = stack'[SlotOf(i, j)']
      BY <1>1, <3>1 DEF ValuesAre
    <3> QED
      BY <2>1, <3>1, <3>2
  <2>3. CASE ~\E i, j : IsLocal(i, j)' /\ LocalAt(i, j)'.variable = v
    <3>1. PICK u \in 1..Len(upvalues') : upvalues'[u].variable = v
      BY <1>1, <2>3 DEF ValuesAre
    <3>2. Read(u)' = st[v]
      BY <2>3, <3>1
    <3>3. ValueOf(v)' = Read(u)'
      BY <1>1, <3>1 DEF ValuesAre
    <3> QED
      BY <2>1, <3>2, <3>3
  <2> QED
    BY <2>2, <2>3
<1>3. Contents' = [v \in Living' |-> st[v]]
  <2>1. Contents' = [v \in Living' |-> ValueOf(v)']
    BY DEF Contents
  <2> QED
    BY <1>2, <2>1
<1>4. Living' = Variables!Living(Scopes', Captures')
  BY <1>1 DEF LivingAsPromised
<1> QED
  BY <1>3, <1>4 DEF Variables!Become

----------------------------------------------------------------------------
(* Where things are on the stack.                                          *)

(* The calls that wait are below the running one.                          *)
LEMMA BelowFrame ==
  ASSUME IInv, NEW i \in 1..Len(frames), NEW k \in 1..Len(frames), i < k
  PROVE  EndOf(i) <= frames[k].slots /\ TopLocal(i) < frames[k].slots
<1>1. Len(frames) \in Nat
  BY TypeFacts
<1>2. PICK m : m = i + 1
  OBVIOUS
<1>3. m \in 1..Len(frames) /\ i # Len(frames) /\ (m = k \/ k \in (m + 1)..Len(frames))
      /\ k \in (i + 1)..Len(frames)
  BY <1>1, <1>2
<1>4. EndOf(i) = frames[m].slots /\ frames[m].slots <= TopLocal(m) /\ TopLocal(m) \in Nat
      /\ frames[m].slots \in Nat /\ frames[k].slots \in Nat
  BY <1>2, <1>3, LocalFacts DEF EndOf, TopLocal
<1>5. k \in (m + 1)..Len(frames) => TopLocal(m) < frames[k].slots
  BY <1>3 DEF IInv, Stacked
<1>6. TopLocal(i) < frames[k].slots
  BY <1>3 DEF IInv, Stacked
<1> QED
  BY <1>3, <1>4, <1>5, <1>6

LEMMA LocalSlots ==
  ASSUME IInv, NEW i, NEW j, IsLocal(i, j)
  PROVE  /\ i \in 1..Len(frames) /\ j \in Nat \ {0}
         /\ frames[i].slots \in Nat /\ SlotOf(i, j) \in Nat
         /\ frames[i].slots < SlotOf(i, j) /\ SlotOf(i, j) <= TopLocal(i)
         /\ TopLocal(i) \in Nat
         /\ SlotOf(i, j) \in Slot \ {0}
<1>1. i \in 1..Len(frames) /\ j \in 1..Len(frames[i].locals)
  BY DEF IsLocal
<1>2. frames[i].slots \in Nat /\ Len(frames[i].locals) \in Nat /\ SlotOf(i, j) \in Slot \ {0}
  BY <1>1, LocalFacts
<1> QED
  BY <1>1, <1>2 DEF SlotOf, TopLocal

LEMMA SlotsDiffer ==
  ASSUME IInv, NEW i, NEW j, NEW k, NEW l, IsLocal(i, j), IsLocal(k, l),
         SlotOf(i, j) = SlotOf(k, l)
  PROVE  i = k /\ j = l
<1>1. /\ i \in 1..Len(frames) /\ frames[i].slots \in Nat /\ SlotOf(i, j) \in Nat
      /\ frames[i].slots < SlotOf(i, j) /\ SlotOf(i, j) <= TopLocal(i)
      /\ TopLocal(i) \in Nat
      /\ k \in 1..Len(frames) /\ frames[k].slots \in Nat
      /\ frames[k].slots < SlotOf(k, l) /\ SlotOf(k, l) <= TopLocal(k)
      /\ TopLocal(k) \in Nat /\ j \in Nat /\ l \in Nat
  BY LocalSlots
<1>2. i = k
  <2>1. CASE i < k
    <3>1. TopLocal(i) < frames[k].slots
      BY <1>1, <2>1, BelowFrame
    <3> QED
      BY <1>1, <3>1
  <2>2. CASE k < i
    <3>1. TopLocal(k) < frames[i].slots
      BY <1>1, <2>2, BelowFrame
    <3> QED
      BY <1>1, <3>1
  <2> QED
    BY <1>1, <2>1, <2>2
<1>3. j = l
  BY <1>1, <1>2 DEF SlotOf
<1> QED
  BY <1>2, <1>3

(* No local variable is among the operands of a call.                      *)
LEMMA OperandSlots ==
  ASSUME IInv, NEW i \in 1..Len(frames), NEW s \in Nat, TopLocal(i) < s, s < EndOf(i),
         NEW k, NEW l, IsLocal(k, l)
  PROVE  SlotOf(k, l) # s
<1>1. /\ k \in 1..Len(frames) /\ frames[k].slots \in Nat
      /\ frames[k].slots < SlotOf(k, l) /\ SlotOf(k, l) <= TopLocal(k)
      /\ TopLocal(k) \in Nat /\ SlotOf(k, l) \in Nat
  BY LocalSlots
<1>2. TopLocal(i) \in Nat /\ EndOf(i) \in Nat /\ frames[i].slots \in Nat
      /\ frames[i].slots <= TopLocal(i)
  BY EndFacts, LocalFacts DEF TopLocal
<1>3. CASE k = i
  BY <1>1, <1>2, <1>3
<1>4. CASE k < i
  <2>1. TopLocal(k) < frames[i].slots
    BY <1>1, <1>4, BelowFrame
  <2> QED
    BY <1>1, <1>2, <2>1
<1>5. CASE i < k
  <2>1. EndOf(i) <= frames[k].slots
    BY <1>1, <1>5, BelowFrame
  <2> QED
    BY <1>1, <1>2, <2>1
<1> QED
  BY <1>1, <1>3, <1>4, <1>5

(* The running call: its local variables, and above them its operands.     *)
LEMMA TopScope ==
  ASSUME IInv, NEW n, n = Len(frames), frames # <<>>
  PROVE  /\ n \in Nat \ {0} /\ n \in 1..Len(frames)
         /\ Frame = frames[n] /\ Locals = frames[n].locals
         /\ EndOf(n) = stackTop /\ TopLocal(n) = Frame.slots + Len(Locals)
         /\ stackTop = TopLocal(n) + 1 + Operands
         /\ Operands \in Nat /\ TopLocal(n) \in Nat /\ stackTop \in Nat
         /\ OperandsOf(n) = Between(stack, TopLocal(n), stackTop)
         /\ OperandsOf(n) \in Seq(Things) /\ Len(OperandsOf(n)) = Operands
         /\ VarsOf(n) \in Seq(Variable) /\ Len(VarsOf(n)) = Len(Locals)
         /\ \A s \in 0..(stackTop - 1) : stack[s] \in Things
<1>1. /\ n \in Nat \ {0} /\ n \in 1..Len(frames) /\ Frame = frames[n]
      /\ Locals = frames[n].locals /\ Len(Locals) \in Nat /\ Frame.slots \in Nat
      /\ Operands \in Nat /\ stackTop = Frame.slots + 1 + Len(Locals) + Operands
  BY TopFacts DEF Locals
<1>2. EndOf(n) = stackTop /\ TopLocal(n) = Frame.slots + Len(Locals)
  BY <1>1 DEF EndOf, TopLocal
<1>3. stackTop = TopLocal(n) + 1 + Operands /\ TopLocal(n) \in Nat /\ stackTop \in Nat
  BY <1>1, <1>2
<1>4. /\ OperandsOf(n) \in Seq(Things) /\ Len(OperandsOf(n)) = EndOf(n) - TopLocal(n) - 1
      /\ VarsOf(n) \in Seq(Variable) /\ Len(VarsOf(n)) = Len(Locals)
  BY <1>1, ScopesHold DEF ScopesAre
<1>5. Len(OperandsOf(n)) = Operands
  BY <1>1, <1>2, <1>3, <1>4
<1>6. \A s \in 0..(stackTop - 1) : stack[s] \in Things
  BY <1>1, <1>2, EndFacts
<1> QED
  BY <1>1, <1>2, <1>3, <1>4, <1>5, <1>6 DEF OperandsOf

(* The language's names for these. *)
With(n, f, vs, os) ==
  [Scopes EXCEPT ![n] = [function |-> f, vars |-> vs, operands |-> os]]

LEMMA Notation ==
  ASSUME IInv, NEW n, n = Len(frames), frames # <<>>
  PROVE  /\ Scopes # <<>> /\ Len(Scopes) = n /\ Scopes \in Seq(ScopeType)
         /\ Variables!Top = Scopes[n] /\ Scopes[n] = ScopeAt(n)
         /\ Variables!Top.function = Frame.closure
         /\ Variables!Top.vars = VarsOf(n)
         /\ Variables!Top.operands = OperandsOf(n)
         /\ \A os : Variables!WithOperands(os) = With(n, Frame.closure, VarsOf(n), os)
         /\ \A v : Variables!WithVariable(v) =
                     With(n, Frame.closure, Append(VarsOf(n), v), <<>>)
         /\ \A t : Variables!WithTop(t) = [Scopes EXCEPT ![n] = t]
<1>1. n \in Nat \ {0} /\ n \in 1..Len(frames) /\ Frame = frames[n]
  BY TopScope
<1>2. Scopes \in Seq(ScopeType) /\ Len(Scopes) = n /\ Scopes[n] = ScopeAt(n)
  BY <1>1, ScopesHold DEF ScopesAre
<1>3. Scopes # <<>>
  BY <1>1, <1>2, EmptySeq
<1>4. Variables!Top = Scopes[n]
  BY <1>2 DEF Variables!Top, Variables!Last, Last
<1>5. /\ Variables!Top.function = Frame.closure
      /\ Variables!Top.vars = VarsOf(n)
      /\ Variables!Top.operands = OperandsOf(n)
      /\ Variables!Top =
           [function |-> Frame.closure, vars |-> VarsOf(n), operands |-> OperandsOf(n)]
  BY <1>1, <1>2, <1>4 DEF ScopeAt
<1>6. \A t : Variables!WithTop(t) = [Scopes EXCEPT ![n] = t]
  BY <1>2 DEF Variables!WithTop, Variables!ReplaceAt, ReplaceAt
<1>7. ASSUME NEW os
      PROVE  Variables!WithOperands(os) = With(n, Frame.closure, VarsOf(n), os)
  <2>1. [Variables!Top EXCEPT !.operands = os] =
          [function |-> Frame.closure, vars |-> VarsOf(n), operands |-> os]
    BY <1>5
  <2> QED
    BY <1>6, <2>1 DEF Variables!WithOperands, With
<1>8. ASSUME NEW v
      PROVE  Variables!WithVariable(v) =
               With(n, Frame.closure, Append(VarsOf(n), v), <<>>)
  <2>1. Variables!Call(Variables!Top.function, Append(Variables!Top.vars, v)) =
          [function |-> Frame.closure, vars |-> Append(VarsOf(n), v), operands |-> <<>>]
    BY <1>5 DEF Variables!Call
  <2> QED
    BY <1>6, <2>1 DEF Variables!WithVariable, With
<1> QED
  BY <1>2, <1>3, <1>4, <1>5, <1>6, <1>7, <1>8

----------------------------------------------------------------------------
(* What a step does to the calls.                                          *)

Undisturbed(i) ==
  \A s \in Nat : TopLocal(i) < s /\ s < EndOf(i) => stack'[s] = stack[s]

(* A call that waits stays what it is. *)
LEMMA SameScope ==
  ASSUME IInv, IInv', NEW i \in 1..Len(frames), i \in 1..Len(frames'),
         frames'[i] = frames[i], EndOf(i)' = EndOf(i), Undisturbed(i)
  PROVE  ScopeAt(i)' = ScopeAt(i)
<1>1. TopLocal(i)' = TopLocal(i) /\ VarsOf(i)' = VarsOf(i)
  BY DEF TopLocal, VarsOf, LocalAt
<1>2. PICK a \in Nat : a = TopLocal(i)
  BY EndFacts
<1>3. PICK b \in Nat : b = EndOf(i)
  BY EndFacts
<1>4. \A s \in (a + 1)..(b - 1) : stack'[s] = stack[s]
  BY <1>2, <1>3 DEF Undisturbed
<1>5. Between(stack', a, b) = Between(stack, a, b)
  BY <1>4, SameBetween
<1>6. OperandsOf(i)' = Between(stack', a, b) /\ OperandsOf(i) = Between(stack, a, b)
  BY <1>1, <1>2, <1>3 DEF OperandsOf
<1> QED
  BY <1>1, <1>5, <1>6 DEF ScopeAt

LEMMA TopChanges ==
  ASSUME IInv, IInv', NEW n, n = Len(frames), frames # <<>>, Len(frames') = n,
         \A i \in 1..n : /\ frames'[i].closure = frames[i].closure
                         /\ frames'[i].slots = frames[i].slots
                         /\ i # n => frames'[i] = frames[i] /\ Undisturbed(i)
  PROVE  Scopes' = With(n, Frame.closure, VarsOf(n)', OperandsOf(n)')
<1>1. n \in Nat \ {0} /\ n \in 1..n /\ Frame = frames[n]
  BY TopScope
<1>2. /\ Scopes \in Seq(ScopeType) /\ Len(Scopes) = n
      /\ \A i \in 1..n : Scopes[i] = ScopeAt(i)
  BY ScopesHold DEF ScopesAre
<1>3. /\ Scopes' \in Seq(ScopeType) /\ Len(Scopes') = n
      /\ \A i \in 1..n : Scopes'[i] = ScopeAt(i)'
  <2>1. ScopesAre' /\ ScopeType' = ScopeType
    BY ScopesHoldNext DEF ScopeType
  <2> QED
    BY <2>1 DEF ScopesAre
<1>4. PICK x : x = [function |-> Frame.closure, vars |-> VarsOf(n)', operands |-> OperandsOf(n)']
  OBVIOUS
<1>5. ScopeAt(n)' = x
  <2>1. frames'[n].closure = Frame.closure
    BY <1>1
  <2> QED
    BY <2>1, <1>4 DEF ScopeAt
<1>6. ASSUME NEW i \in 1..n, i # n PROVE ScopeAt(i)' = ScopeAt(i)
  <2>1. PICK m : m = i + 1
    OBVIOUS
  <2>2. m \in 1..n
    BY <1>1, <1>6, <2>1
  <2>3. EndOf(i)' = EndOf(i)
    BY <1>6, <2>1, <2>2 DEF EndOf
  <2> QED
    BY <1>6, <2>3, SameScope
<1>7. With(n, Frame.closure, VarsOf(n)', OperandsOf(n)') = [Scopes EXCEPT ![n] = x]
  BY <1>4 DEF With
<1>8. Scopes' = [Scopes EXCEPT ![n] = x]
  <2>1. x \in ScopeType
    BY <1>1, <1>3, <1>5, ElementOfSeq
  <2>2. PICK t : t = [Scopes EXCEPT ![n] = x]
    OBVIOUS
  <2>3. t \in Seq(ScopeType) /\ Len(t) = n /\ \A i \in 1..n : t[i] = IF i = n THEN x ELSE Scopes[i]
    BY <1>1, <1>2, <2>1, <2>2, ExceptSeq
  <2>4. \A i \in 1..n : Scopes'[i] = t[i]
    BY <1>2, <1>3, <1>5, <1>6, <2>3
  <2>5. PICK s : s = Scopes'
    OBVIOUS
  <2>6. s \in Seq(ScopeType) /\ Len(s) = n /\ \A i \in 1..n : s[i] = t[i]
    BY <1>3, <2>4, <2>5
  <2>7. s = t
    BY <2>3, <2>6, SeqEqual
  <2> QED
    BY <2>2, <2>5, <2>7
<1> QED
  BY <1>7, <1>8

(* Instructions that leave the calls and their variables. *)
LEMMA OperandsChange ==
  ASSUME IInv, IInv', NEW n, n = Len(frames), frames # <<>>, frames' = frames,
         \A s \in Nat : s < TopLocal(n) => stack'[s] = stack[s]
                                             \/ \E i, j : IsLocal(i, j) /\ SlotOf(i, j) = s
  PROVE  Scopes' = With(n, Frame.closure, VarsOf(n), OperandsOf(n)')
<1>1. VarsOf(n)' = VarsOf(n)
  BY DEF VarsOf, LocalAt
<1>2. ASSUME NEW i \in 1..n, i # n PROVE Undisturbed(i)
  <2> SUFFICES ASSUME NEW s \in Nat, TopLocal(i) < s, s < EndOf(i)
               PROVE  stack'[s] = stack[s]
    BY DEF Undisturbed
  <2>1. i < n /\ n \in 1..Len(frames)
    BY <1>2, TopScope
  <2>2. EndOf(i) <= frames[n].slots /\ EndOf(i) \in Nat
    BY <2>1, BelowFrame, EndFacts
  <2>3. frames[n].slots <= TopLocal(n) /\ frames[n].slots \in Nat /\ TopLocal(n) \in Nat
    BY <2>1, LocalFacts DEF TopLocal
  <2>4. s < TopLocal(n)
    BY <2>2, <2>3
  <2>5. \A k, l : IsLocal(k, l) => SlotOf(k, l) # s
    BY OperandSlots
  <2> QED
    BY <2>4, <2>5
<1>3. Scopes' = With(n, Frame.closure, VarsOf(n)', OperandsOf(n)')
  BY <1>2, TopChanges
<1> QED
  BY <1>1, <1>3

----------------------------------------------------------------------------
(* What a step does to the values.                                         *)

(* While a script from a file runs, an upvalue that is not closed is that  *)
(* of a local variable.                                                    *)
LEMMA OpenIsLocal ==
  ASSUME IInv, ~Repl, frames # <<>> \/ ready, NEW u \in 1..Len(upvalues),
         upvalues[u].location # CLOSED
  PROVE  \E i, j : /\ IsLocal(i, j) /\ LocalAt(i, j).variable = upvalues[u].variable
                   /\ SlotOf(i, j) = upvalues[u].location
<1>1. PICK m \in 1..Len(openUpvalues) : openUpvalues[m] = u
  BY DEF IInv, NoneLeft
<1>2. PICK i, j : /\ IsLocal(i, j)
                  /\ LocalAt(i, j).variable = upvalues[openUpvalues[m]].variable
                  /\ SlotOf(i, j) = Location(m)
  BY DEF IInv, Listed
<1> QED
  BY <1>1, <1>2 DEF Location

LEMMA Keeping ==
  ASSUME LInv, LInv',
         \A i, j : IsLocal(i, j)' =>
           /\ IsLocal(i, j)
           /\ LocalAt(i, j)'.variable = LocalAt(i, j).variable
           /\ stack'[SlotOf(i, j)'] = stack[SlotOf(i, j)],
         \A u \in 1..Len(upvalues') :
           \/ \E i, j : IsLocal(i, j)' /\ LocalAt(i, j)'.variable = upvalues'[u].variable
           \/ /\ u \in 1..Len(upvalues)
              /\ upvalues'[u].variable = upvalues[u].variable
              /\ Read(u)' = Read(u)
  PROVE  Variables!Become(Scopes', Captures', Contents)
<1>1. /\ \A i, j : IsLocal(i, j) =>
           Contents[LocalAt(i, j).variable] = stack[SlotOf(i, j)]
      /\ \A u \in 1..Len(upvalues) : Contents[upvalues[u].variable] = Read(u)
  BY ContentsAre DEF LInv
<1>2. PICK st : st = Contents
  OBVIOUS
<1>3. \A i, j : IsLocal(i, j)' => stack'[SlotOf(i, j)'] = st[LocalAt(i, j)'.variable]
  BY <1>1, <1>2
<1>4. \A u \in 1..Len(upvalues') :
        \/ \E i, j : IsLocal(i, j)' /\ LocalAt(i, j)'.variable = upvalues'[u].variable
        \/ Read(u)' = st[upvalues'[u].variable]
  BY <1>1, <1>2
<1>5. Variables!Become(Scopes', Captures', st)
  BY <1>3, <1>4, Becoming
<1> QED
  BY <1>2, <1>5

LEMMA SameCaptures ==
  ASSUME IInv, closures' = closures, Len(upvalues) <= Len(upvalues'),
         \A u \in 1..Len(upvalues) : upvalues'[u].variable = upvalues[u].variable
  PROVE  Captures' = Captures
<1>1. DOMAIN closures = 1..Len(closures)
  BY TypeFacts
<1>2. ASSUME NEW c \in DOMAIN closures, NEW k \in DOMAIN closures[c].upvalues
      PROVE  upvalues'[closures[c].upvalues[k]].variable
               = upvalues[closures[c].upvalues[k]].variable
  <2>1. closures[c].upvalues[k] \in 1..Len(upvalues)
    BY <1>1, CapturedSeq DEF Captured
  <2> QED
    BY <2>1
<1> QED
  BY <1>2 DEF Captures

(* Instructions that leave the variables and their values. *)
LEMMA NothingStored ==
  ASSUME LInv, LInv', ~Repl, frames # <<>>, UNCHANGED <<frames, upvalues>>,
         \A i, j : IsLocal(i, j) => stack'[SlotOf(i, j)] = stack[SlotOf(i, j)]
  PROVE  Variables!Become(Scopes', Captures', Contents)
<1>1. IInv
  BY DEF LInv
<1>2. \A i, j : /\ IsLocal(i, j)' <=> IsLocal(i, j)
                /\ LocalAt(i, j)' = LocalAt(i, j) /\ SlotOf(i, j)' = SlotOf(i, j)
  BY DEF IsLocal, LocalAt, SlotOf
<1>3. ASSUME NEW u \in 1..Len(upvalues)
      PROVE  \/ \E i, j : IsLocal(i, j) /\ LocalAt(i, j).variable = upvalues[u].variable
             \/ Read(u)' = Read(u)
  <2>1. CASE upvalues[u].location = CLOSED
    BY <2>1 DEF Read
  <2>2. CASE upvalues[u].location # CLOSED
    BY <1>1, <2>2, OpenIsLocal
  <2> QED
    BY <2>1, <2>2
<1> QED
  BY <1>2, <1>3, Keeping

LEMMA NothingAssigned ==
  ASSUME LInv, LInv', ~Repl, frames # <<>>, UNCHANGED <<frames, closures, upvalues>>,
         \A i, j : IsLocal(i, j) => stack'[SlotOf(i, j)] = stack[SlotOf(i, j)]
  PROVE  Variables!Become(Scopes', Captures, Contents)
<1>1. Captures' = Captures
  BY SameCaptures, TypeFacts DEF LInv
<1> QED
  BY <1>1, NothingStored

(* No variable is in the slots from stackTop upwards, or among operands. *)
LEMMA AboveLocals ==
  ASSUME IInv, NEW n, n = Len(frames), frames # <<>>, NEW i, NEW j, IsLocal(i, j)
  PROVE  SlotOf(i, j) <= TopLocal(n) /\ SlotOf(i, j) < stackTop /\ SlotOf(i, j) \in Nat
<1>1. n \in 1..Len(frames) /\ TopLocal(n) \in Nat /\ TopLocal(n) < stackTop /\ stackTop \in Nat
  BY TopScope
<1>2. /\ i \in 1..Len(frames) /\ SlotOf(i, j) \in Nat
      /\ SlotOf(i, j) <= TopLocal(i) /\ TopLocal(i) \in Nat
  BY LocalSlots
<1>3. TopLocal(i) <= TopLocal(n)
  <2>1. CASE i < n
    <3>1. TopLocal(i) < frames[n].slots /\ frames[n].slots <= TopLocal(n) /\ frames[n].slots \in Nat
      BY <1>1, <1>2, <2>1, BelowFrame, LocalFacts DEF TopLocal
    <3> QED
      BY <1>1, <1>2, <3>1
  <2>2. CASE i = n
    BY <1>1, <2>2
  <2> QED
    BY <1>2, <2>1, <2>2
<1> QED
  BY <1>1, <1>2, <1>3

LEMMA PushedOperand ==
  ASSUME LInv, LInv', ~Repl, frames # <<>>, frames' = frames, NEW v \in Things, push(v)
  PROVE  /\ Scopes' = Variables!WithOperands(Append(Variables!Top.operands, v))
         /\ \A i, j : IsLocal(i, j) => stack'[SlotOf(i, j)] = stack[SlotOf(i, j)]
<1>1. PICK n : n = Len(frames)
  OBVIOUS
<1>2. IInv /\ IInv'
  BY DEF LInv
<1>3. PICK a \in Nat : a = TopLocal(n)
  BY <1>1, <1>2, TopScope
<1>4. PICK b \in Nat : b = stackTop
  BY <1>2, TypeFacts
<1>5. /\ a < b /\ \A s \in 0..(b - 1) : stack[s] \in Things
      /\ OperandsOf(n) = Between(stack, a, b)
      /\ EndOf(n) = b
  BY <1>1, <1>2, <1>3, <1>4, TopScope
<1>6. /\ stackTop' = b + 1 /\ b \in Slot /\ stack' = [stack EXCEPT ![b] = v]
      /\ DOMAIN stack = Slot
  BY <1>2, <1>4, TypeFacts DEF push, Slot, IInv, Typed
<1>7. stack'[b] = v /\ \A s \in Nat : s < b => stack'[s] = stack[s]
  <2>1. \A s \in Nat : s < b => s \in Slot /\ s # b
    BY <1>2, <1>6, TypeFacts DEF Slot
  <2> QED
    BY <1>6, <2>1
<1>8. OperandsOf(n)' = Append(OperandsOf(n), v)
  <2>1. OperandsOf(n)' = Between(stack', a, b + 1)
    <3>1. TopLocal(n)' = a /\ EndOf(n)' = b + 1
      BY <1>1, <1>3, <1>6 DEF TopLocal, EndOf
    <3> QED
      BY <3>1 DEF OperandsOf
  <2>2. PICK tt : tt = stack'
    OBVIOUS
  <2>3. ASSUME NEW s \in (a + 1)..(b - 1) PROVE stack[s] \in Things /\ tt[s] = stack[s]
    <3>1. s \in 0..(b - 1) /\ s \in Nat /\ s < b
      OBVIOUS
    <3> QED
      BY <1>5, <1>7, <2>2, <3>1
  <2>4. Between(tt, a, b + 1) = Append(Between(stack, a, b), tt[b])
    <3>1. a \in Nat /\ b \in Nat /\ a < b /\ tt[b] \in Things
      BY <1>5, <1>7, <2>2
    <3> QED
      BY <2>3, <3>1, OneMoreBetween
  <2> QED
    BY <1>5, <1>7, <2>1, <2>2, <2>4
<1>9. Scopes' = With(n, Frame.closure, VarsOf(n), OperandsOf(n)')
  BY <1>1, <1>2, <1>3, <1>5, <1>7, OperandsChange
<1>10. Variables!WithOperands(Append(Variables!Top.operands, v))
         = With(n, Frame.closure, VarsOf(n), Append(OperandsOf(n), v))
  BY <1>1, <1>2, Notation
<1>11. \A i, j : IsLocal(i, j) => stack'[SlotOf(i, j)] = stack[SlotOf(i, j)]
  BY <1>1, <1>2, <1>4, <1>7, AboveLocals
<1> QED
  BY <1>8, <1>9, <1>10, <1>11

----------------------------------------------------------------------------
(* What the instructions are in terms of variables: one lemma for each     *)
(* action of Lexical, then one for each instruction.                       *)

LEMMA StepIsNext ==
  ASSUME IInv, frames # <<>>, Variables!Step
  PROVE  Variables!Next
<1>1. Scopes # <<>>
  BY Notation
<1> QED
  BY <1>1 DEF Variables!Next

(* An instruction that pushes a value evaluates an expression. *)
LEMMA Evaluated ==
  ASSUME LInv, LInv', ~Repl, frames # <<>>, NEW x \in Held, push(x),
         UNCHANGED <<frames, heap, global>>,
         x \in Data \cup {Contents[v] : v \in Variables!Visible} \cup ({global} \ {UNDEFINED})
  PROVE  Variables!Next
<1>1. IInv /\ x \in Things
  BY HeldFacts DEF LInv, Held, Things
<1>2. UNCHANGED <<closures, upvalues>>
  BY DEF heap
<1>3. /\ Scopes' = Variables!WithOperands(Append(Variables!Top.operands, x))
      /\ \A i, j : IsLocal(i, j) => stack'[SlotOf(i, j)] = stack[SlotOf(i, j)]
  BY <1>1, PushedOperand
<1>4. Variables!Become(Scopes', Captures, Contents)
  BY <1>2, <1>3, NothingAssigned
<1>5. Variables!Evaluate(x)
  BY <1>3, <1>4 DEF Variables!Evaluate
<1>6. x \in Data \cup DOMAIN Captures
  <2>1. DOMAIN Captures = DOMAIN closures
    BY DEF Captures
  <2> QED
    BY <1>1, <2>1, TypeFacts DEF Held
<1> QED
  BY <1>1, <1>5, <1>6, StepIsNext DEF Variables!Step

(* The variables that the function under way can name. *)
LEMMA VisibleVariables ==
  ASSUME LInv, frames # <<>>
  PROVE  /\ \A j \in DOMAIN Locals :
              /\ Locals[j].variable \in Variables!Visible
              /\ Contents[Locals[j].variable] = stack[Frame.slots + j]
         /\ \A k \in DOMAIN UpvaluesOf(Frame.closure) :
              LET u == UpvaluesOf(Frame.closure)[k]
              IN  /\ u \in 1..Len(upvalues)
                  /\ upvalues[u].variable \in Variables!Visible
                  /\ Contents[upvalues[u].variable] = Read(u)
<1>1. IInv
  BY DEF LInv
<1>2. PICK n : n = Len(frames)
  OBVIOUS
<1>3. /\ n \in 1..Len(frames) /\ Frame = frames[n] /\ Locals = frames[n].locals
      /\ Variables!Top.function = Frame.closure /\ Variables!Top.vars = VarsOf(n)
  BY <1>1, <1>2, TopScope, Notation
<1>4. ASSUME NEW j \in DOMAIN Locals
      PROVE  /\ Locals[j].variable \in Variables!Visible
             /\ Contents[Locals[j].variable] = stack[Frame.slots + j]
  <2>1. /\ j \in 1..Len(frames[n].locals) /\ IsLocal(n, j)
        /\ LocalAt(n, j) = Locals[j] /\ SlotOf(n, j) = Frame.slots + j
    BY <1>1, <1>2, <1>3, TopFacts
  <2>2. Contents[Locals[j].variable] = stack[Frame.slots + j]
    BY <1>1, <2>1, ContentsAre
  <2>3. VarsOf(n)[j] = Locals[j].variable /\ j \in DOMAIN VarsOf(n)
    BY <2>1 DEF VarsOf
  <2>4. Locals[j].variable \in Variables!Range(Variables!Top.vars)
    BY <1>3, <2>3 DEF Variables!Range, Range
  <2> QED
    BY <2>2, <2>4 DEF Variables!Visible
<1>5. ASSUME NEW k \in DOMAIN UpvaluesOf(Frame.closure), NEW u,
             u = UpvaluesOf(Frame.closure)[k]
      PROVE  /\ u \in 1..Len(upvalues)
             /\ upvalues[u].variable \in Variables!Visible
             /\ Contents[upvalues[u].variable] = Read(u)
  <2>1. PICK c : c = Frame.closure
    OBVIOUS
  <2>2. u \in 1..Len(upvalues)
    BY <1>1, <1>5, CapturedFacts
  <2>3. /\ c # 0 /\ c \in 1..Len(closures)
        /\ k \in 1..Len(Captured(c)) /\ Captured(c)[k] = u
    <3>1. c # 0
      BY <1>5, <2>1 DEF UpvaluesOf
    <3>2. c \in 1..Len(closures)
      BY <1>1, <2>1, <3>1, TopFacts, TypeFacts
    <3> QED
      BY <1>1, <1>5, <2>1, <3>1, <3>2, CapturedSeq DEF UpvaluesOf, Captured
  <2>4. Captures[c].captured = CapturedBy(c)
    <3>1. Captures[c] = FunctionAt(c)
      BY <1>1, <2>3, CapturesHold DEF CapturesAre
    <3> QED
      BY <3>1 DEF FunctionAt
  <2>5. k \in DOMAIN CapturedBy(c) /\ CapturedBy(c)[k] = upvalues[u].variable
    BY <2>3 DEF CapturedBy
  <2>6. upvalues[u].variable \in Variables!Captured(c)
    BY <2>3, <2>4, <2>5 DEF Variables!Captured, Variables!Range, Range
  <2>7. upvalues[u].variable \in Variables!Visible
    BY <1>3, <2>1, <2>6 DEF Variables!Visible
  <2> QED
    BY <1>1, <2>2, <2>7, ContentsAre
<1> QED
  BY <1>4, <1>5

(* A runtime error ends every call. *)
LEMMA Failed ==
  ASSUME LInv, LInv', ~Repl, frames # <<>>, runtimeError
  PROVE  Variables!Next
<1>1. IInv /\ IInv' /\ frames' = <<>> /\ UNCHANGED <<stack, closures, upvalues, global>>
  BY ErrorIs DEF LInv
<1>2. \A i, j : ~IsLocal(i, j)'
  BY <1>1 DEF IsLocal
<1>3. ASSUME NEW u \in 1..Len(upvalues') PROVE Read(u)' = Read(u)
  BY <1>1 DEF Read
<1>4. Captures' = Captures
  BY <1>1, SameCaptures, TypeFacts
<1>5. Variables!Become(Scopes', Captures, Contents)
  BY <1>1, <1>2, <1>3, <1>4, Keeping
<1>6. Scopes' = <<>>
  BY <1>1 DEF Scopes
<1>7. Variables!Fail
  BY <1>1, <1>5, <1>6 DEF Variables!Fail
<1> QED
  BY <1>1, <1>7, StepIsNext DEF Variables!Step

LEMMA ConstantPromised ==
  ASSUME LInv, LInv', ~Repl, NEW v \in Data, OP_CONSTANT(v)
  PROVE  Variables!Next
<1>1. v \in Held
  BY DEF Held
<1> QED
  BY <1>1, Evaluated DEF OP_CONSTANT, Running

LEMMA GetLocalPromised ==
  ASSUME LInv, LInv', ~Repl, NEW j, OP_GET_LOCAL(j)
  PROVE  Variables!Next
<1>1. IInv /\ frames # <<>> /\ j \in DOMAIN Locals
  BY DEF OP_GET_LOCAL, Running, LInv
<1>2. PICK x : x = stack[Frame.slots + j]
  OBVIOUS
<1>3. x \in Held
  <2>1. Frame.slots + j \in Slot \ {0}
    BY <1>1, TopFacts, LocalSlots
  <2> QED
    BY <1>1, <1>2, <2>1, SlotFacts
<1>4. x \in {Contents[v] : v \in Variables!Visible}
  BY <1>1, <1>2, VisibleVariables
<1> QED
  BY <1>1, <1>2, <1>3, <1>4, Evaluated DEF OP_GET_LOCAL

LEMMA GetUpvaluePromised ==
  ASSUME LInv, LInv', ~Repl, NEW k, OP_GET_UPVALUE(k)
  PROVE  Variables!Next
<1>1. IInv /\ frames # <<>> /\ k \in DOMAIN UpvaluesOf(Frame.closure)
  BY DEF OP_GET_UPVALUE, Running, LInv
<1>2. PICK x : x = Read(UpvaluesOf(Frame.closure)[k])
  OBVIOUS
<1>3. x \in Held
  BY <1>1, <1>2, CapturedFacts
<1>4. x \in {Contents[v] : v \in Variables!Visible}
  BY <1>1, <1>2, VisibleVariables
<1> QED
  BY <1>1, <1>2, <1>3, <1>4, Evaluated DEF OP_GET_UPVALUE

LEMMA GetGlobalPromised ==
  ASSUME LInv, LInv', ~Repl, OP_GET_GLOBAL
  PROVE  Variables!Next
<1>1. frames # <<>>
  BY DEF OP_GET_GLOBAL, Running
<1>2. CASE global = UNDEFINED
  BY <1>1, <1>2, Failed DEF OP_GET_GLOBAL
<1>3. CASE global # UNDEFINED
  <2>1. PICK x : x = global
    OBVIOUS
  <2>2. x \in Held
    BY <1>3, <2>1 DEF LInv, IInv, Typed
  <2> QED
    BY <1>1, <1>3, <2>1, <2>2, Evaluated DEF OP_GET_GLOBAL
<1> QED
  BY <1>2, <1>3

LEMMA WrongOperandPromised ==
  ASSUME LInv, LInv', ~Repl, WrongOperand
  PROVE  Variables!Next
  BY Failed DEF WrongOperand, Running

(* The operand on top: what it is, and the operands under it. *)
LEMMA TopOperand ==
  ASSUME IInv, frames # <<>>, Operands > 0, NEW n, n = Len(frames)
  PROVE  /\ Variables!Top.operands # <<>>
         /\ Variables!Operand = peek(0) /\ peek(0) \in Held
         /\ peek(0) = stack[stackTop - 1]
         /\ Front(OperandsOf(n)) = Between(stack, TopLocal(n), stackTop - 1)
<1>1. /\ Variables!Top.operands = OperandsOf(n)
      /\ stackTop = TopLocal(n) + 1 + Operands /\ Operands \in Nat
      /\ TopLocal(n) \in Nat /\ stackTop \in Nat
      /\ OperandsOf(n) = Between(stack, TopLocal(n), stackTop)
      /\ \A s \in 0..(stackTop - 1) : stack[s] \in Things
  BY TopScope, Notation
<1>2. peek(0) = stack[stackTop - 1] /\ peek(0) \in Held
  BY <1>1, PeekFacts
<1>3. PICK a \in Nat, b \in Nat : a = TopLocal(n) /\ b = stackTop
  BY <1>1
<1>4. a < b - 1 /\ \A s \in (a + 1)..(b - 1) : stack[s] \in Things
  BY <1>1, <1>3
<1>5. /\ Between(stack, a, b) # <<>>
      /\ Last(Between(stack, a, b)) = stack[b - 1]
      /\ Front(Between(stack, a, b)) = Between(stack, a, b - 1)
  BY <1>4, LastBetween
<1> QED
  BY <1>1, <1>2, <1>3, <1>5 DEF Variables!Operand, Variables!Last, Last

(* An instruction that pops the operand on top. *)
LEMMA PoppedOperand ==
  ASSUME LInv, LInv', ~Repl, frames # <<>>, Operands > 0, pop,
         UNCHANGED <<frames, closures, upvalues>>
  PROVE  Variables!Become(Variables!WithOperands(Variables!Front(Variables!Top.operands)),
                          Captures, Contents)
<1>1. IInv /\ IInv' /\ stackTop' = stackTop - 1 /\ UNCHANGED stack
  BY DEF pop, LInv
<1>2. PICK n : n = Len(frames)
  OBVIOUS
<1>3. Variables!Become(Scopes', Captures, Contents)
  BY <1>1, NothingAssigned
<1>4. Scopes' = With(n, Frame.closure, VarsOf(n), OperandsOf(n)')
  BY <1>1, <1>2, OperandsChange
<1>5. OperandsOf(n)' = Between(stack, TopLocal(n), stackTop - 1)
  <2>1. TopLocal(n)' = TopLocal(n) /\ EndOf(n)' = stackTop - 1
    BY <1>1, <1>2 DEF TopLocal, EndOf
  <2> QED
    BY <1>1, <2>1 DEF OperandsOf
<1>6. Variables!Front(Variables!Top.operands) = OperandsOf(n)'
  BY <1>1, <1>2, <1>5, TopOperand, Notation DEF Variables!Front, Front
<1> QED
  BY <1>1, <1>2, <1>3, <1>4, <1>6, Notation

LEMMA PopPromised ==
  ASSUME LInv, LInv', ~Repl, OP_POP
  PROVE  Variables!Next
<1>1. IInv /\ frames # <<>> /\ Operands > 0
  BY DEF OP_POP, Running, LInv
<1>2. Variables!Discard
  BY <1>1, TopOperand, PoppedOperand DEF OP_POP, heap, Variables!Discard
<1> QED
  BY <1>1, <1>2, StepIsNext DEF Variables!Step

LEMMA DefineGlobalPromised ==
  ASSUME LInv, LInv', ~Repl, OP_DEFINE_GLOBAL
  PROVE  Variables!Next
<1>1. IInv /\ frames # <<>> /\ Operands > 0
  BY DEF OP_DEFINE_GLOBAL, Running, LInv
<1>2. Variables!DefineGlobal
  BY <1>1, TopOperand, PoppedOperand DEF OP_DEFINE_GLOBAL, heap, Variables!DefineGlobal
<1> QED
  BY <1>1, <1>2, StepIsNext DEF Variables!Step

(* What the stack and the upvalues stand for depends on nothing else. *)
LEMMA SameMeaning ==
  ASSUME UNCHANGED <<stack, stackTop, frames, closures, upvalues>>
  PROVE  UNCHANGED <<Scopes, Captures, Contents>>
<1>1. ASSUME NEW i PROVE ScopeOf(i)' = ScopeOf(i)
  BY DEF ScopeOf, Base
<1>2. ASSUME NEW u PROVE Read(u)' = Read(u)
  BY DEF Read
<1>3. ASSUME NEW v PROVE ValueOf(v)' = ValueOf(v)
  BY <1>2 DEF ValueOf, LocalsOf
<1>4. Living' = Living
  BY DEF Living, LocalsOf
<1> QED
  BY <1>1, <1>3, <1>4 DEF Scopes, Captures, Contents

LEMMA SetGlobalPromised ==
  ASSUME LInv, LInv', ~Repl, OP_SET_GLOBAL
  PROVE  Variables!Next
<1>1. IInv /\ frames # <<>> /\ Operands > 0
  BY DEF OP_SET_GLOBAL, Running, LInv
<1>2. CASE global = UNDEFINED
  BY <1>1, <1>2, Failed DEF OP_SET_GLOBAL
<1>3. CASE global # UNDEFINED
  <2>1. /\ UNCHANGED <<stack, stackTop, frames, closures, upvalues>>
        /\ global' = peek(0)
    BY <1>3 DEF OP_SET_GLOBAL, heap
  <2>2. Variables!AssignGlobal
    BY <1>1, <1>3, <2>1, SameMeaning, TopOperand DEF Variables!AssignGlobal
  <2> QED
    BY <1>1, <2>2, StepIsNext DEF Variables!Step
<1> QED
  BY <1>2, <1>3

(* Calls that keep their frames and operands are the same in both. *)
LEMMA SameScopes ==
  ASSUME IInv, IInv', UNCHANGED <<stackTop, frames>>,
         \A s \in Slot : (\A i, j : IsLocal(i, j) => SlotOf(i, j) # s) => stack'[s] = stack[s]
  PROVE  Scopes' = Scopes
<1>1. /\ Scopes \in Seq(ScopeType) /\ Len(Scopes) = Len(frames)
      /\ \A i \in 1..Len(frames) : Scopes[i] = ScopeAt(i)
  BY ScopesHold DEF ScopesAre
<1>2. /\ Scopes' \in Seq(ScopeType)' /\ Len(Scopes') = Len(frames)
      /\ \A i \in 1..Len(frames) : Scopes'[i] = ScopeAt(i)'
  BY ScopesHoldNext DEF ScopesAre
<1>3. ASSUME NEW i \in 1..Len(frames) PROVE ScopeAt(i)' = ScopeAt(i)
  <2>1. EndOf(i)' = EndOf(i)
    BY DEF EndOf
  <2>2. ASSUME NEW s \in Nat, TopLocal(i) < s, s < EndOf(i) PROVE stack'[s] = stack[s]
    <3>1. s \in Slot
      BY <2>2, EndFacts
    <3> QED
      BY <2>2, <3>1, OperandSlots
  <2>3. Undisturbed(i)
    BY <2>2 DEF Undisturbed
  <2> QED
    BY <2>1, <2>3, SameScope
<1>4. Seq(ScopeType)' = Seq(ScopeType)
  BY DEF ScopeType
<1>5. ASSUME NEW s \in Seq(ScopeType), NEW t \in Seq(ScopeType), Len(s) = Len(t),
             \A i \in 1..Len(s) : s[i] = t[i]
      PROVE  s = t
  BY <1>5
<1> QED
  BY <1>1, <1>2, <1>3, <1>4, <1>5

(* The variable v takes the operand on top, wherever v is. *)
LEMMA Assigning ==
  ASSUME LInv, LInv', ~Repl, frames # <<>>, Operands > 0,
         UNCHANGED <<stackTop, frames, closures, global>>,
         NEW v \in Variables!Visible, v \in Living, v \in Variable,
         \A i, j : IsLocal(i, j) =>
           stack'[SlotOf(i, j)] = IF LocalAt(i, j).variable = v THEN peek(0)
                                  ELSE stack[SlotOf(i, j)],
         \A s \in Slot : (\A i, j : IsLocal(i, j) => SlotOf(i, j) # s) => stack'[s] = stack[s],
         Len(upvalues') = Len(upvalues),
         \A u \in 1..Len(upvalues) :
           /\ upvalues'[u].variable = upvalues[u].variable
           /\ \/ \E i, j : IsLocal(i, j) /\ LocalAt(i, j).variable = upvalues[u].variable
              \/ Read(u)' = IF upvalues[u].variable = v THEN peek(0) ELSE Read(u)
  PROVE  Variables!Next
<1>1. IInv /\ IInv'
  BY DEF LInv
<1>2. Variables!Operand = peek(0) /\ Variables!Top.operands # <<>>
  BY <1>1, TopOperand
<1>3. PICK st : st = [Contents EXCEPT ![v] = peek(0)]
  OBVIOUS
<1>4. \A w \in Living : st[w] = IF w = v THEN peek(0) ELSE Contents[w]
  BY <1>1, <1>3, ContentsAre
<1>5. \A i, j : /\ IsLocal(i, j)' <=> IsLocal(i, j)
                /\ LocalAt(i, j)' = LocalAt(i, j) /\ SlotOf(i, j)' = SlotOf(i, j)
  BY DEF IsLocal, LocalAt, SlotOf
<1>6. \A i, j : IsLocal(i, j) => stack'[SlotOf(i, j)] = st[LocalAt(i, j).variable]
  BY <1>1, <1>4, ContentsAre
<1>7. ASSUME NEW u \in 1..Len(upvalues)
      PROVE  \/ \E i, j : IsLocal(i, j) /\ LocalAt(i, j).variable = upvalues[u].variable
             \/ Read(u)' = st[upvalues[u].variable]
  BY <1>1, <1>4, ContentsAre
<1>8. Variables!Become(Scopes', Captures', st)
  BY <1>5, <1>6, <1>7, Becoming
<1>9. Scopes' = Scopes
  BY <1>1, SameScopes
<1>10. Captures' = Captures
  BY <1>1, SameCaptures, TypeFacts
<1>11. Variables!Assign(v)
  BY <1>2, <1>3, <1>8, <1>9, <1>10 DEF Variables!Assign
<1> QED
  BY <1>1, <1>11, StepIsNext DEF Variables!Step

LEMMA AssigningLocal ==
  ASSUME LInv, LInv', ~Repl, frames # <<>>, Operands > 0,
         UNCHANGED <<stackTop, frames, closures, upvalues, global>>,
         NEW i, NEW j, IsLocal(i, j), LocalAt(i, j).variable \in Variables!Visible,
         stack' = [stack EXCEPT ![SlotOf(i, j)] = peek(0)]
  PROVE  Variables!Next
<1>1. IInv
  BY DEF LInv
<1>2. PICK v : v = LocalAt(i, j).variable
  OBVIOUS
<1>3. v \in Living /\ v \in Variable
  <2>1. LocalAt(i, j) \in LocalType
    BY <1>1, LocalFacts DEF IsLocal, LocalAt
  <2> QED
    BY <1>1, <1>2, <2>1, LivingFacts DEF LocalType
<1>4. SlotOf(i, j) \in Slot /\ DOMAIN stack = Slot
  BY <1>1, LocalSlots DEF IInv, Typed
<1>5. ASSUME NEW k, NEW l, IsLocal(k, l)
      PROVE  stack'[SlotOf(k, l)] = IF LocalAt(k, l).variable = v THEN peek(0)
                                    ELSE stack[SlotOf(k, l)]
  <2>1. CASE k = i /\ l = j
    BY <1>2, <1>4, <2>1
  <2>2. CASE ~(k = i /\ l = j)
    <3>1. LocalAt(k, l).variable # v
      BY <1>1, <1>2, <1>5, <2>2 DEF IInv, Distinct
    <3>2. SlotOf(k, l) # SlotOf(i, j) /\ SlotOf(k, l) \in Slot
      BY <1>1, <1>5, <2>2, SlotsDiffer, LocalSlots
    <3> QED
      BY <1>4, <3>1, <3>2
  <2> QED
    BY <2>1, <2>2
<1>6. ASSUME NEW s \in Slot, \A k, l : IsLocal(k, l) => SlotOf(k, l) # s
      PROVE  stack'[s] = stack[s]
  <2>1. s # SlotOf(i, j)
    BY <1>6
  <2> QED
    BY <1>4, <2>1
<1>7. ASSUME NEW u \in 1..Len(upvalues)
      PROVE  \/ \E k, l : IsLocal(k, l) /\ LocalAt(k, l).variable = upvalues[u].variable
             \/ Read(u)' = IF upvalues[u].variable = v THEN peek(0) ELSE Read(u)
  <2>1. CASE upvalues[u].location # CLOSED
    BY <1>1, <2>1, OpenIsLocal
  <2>2. CASE upvalues[u].location = CLOSED /\ upvalues[u].variable # v
    BY <2>2 DEF Read
  <2>3. CASE upvalues[u].variable = v
    BY <1>2, <2>3
  <2> QED
    BY <2>1, <2>2, <2>3
<1> QED
  BY <1>2, <1>3, <1>5, <1>6, <1>7, Assigning

LEMMA SetLocalPromised ==
  ASSUME LInv, LInv', ~Repl, NEW j, OP_SET_LOCAL(j)
  PROVE  Variables!Next
<1>1. IInv /\ frames # <<>> /\ Operands > 0 /\ j \in DOMAIN Locals
  BY DEF OP_SET_LOCAL, Running, LInv
<1>2. PICK n : n = Len(frames)
  OBVIOUS
<1>3. /\ IsLocal(n, j) /\ LocalAt(n, j) = Locals[j] /\ SlotOf(n, j) = Frame.slots + j
      /\ LocalAt(n, j).variable \in Variables!Visible
  BY <1>1, <1>2, TopFacts, VisibleVariables
<1> QED
  BY <1>1, <1>3, AssigningLocal DEF OP_SET_LOCAL, heap

LEMMA SetUpvaluePromised ==
  ASSUME LInv, LInv', ~Repl, NEW k, OP_SET_UPVALUE(k)
  PROVE  Variables!Next
<1>1. IInv /\ frames # <<>> /\ Operands > 0 /\ k \in DOMAIN UpvaluesOf(Frame.closure)
  BY DEF OP_SET_UPVALUE, Running, LInv
<1>2. PICK w : w = UpvaluesOf(Frame.closure)[k]
  OBVIOUS
<1>3. /\ w \in 1..Len(upvalues) /\ upvalues[w].variable \in Variables!Visible
      /\ upvalues[w].variable \in Living /\ upvalues[w] \in UpvalueType
  BY <1>1, <1>2, VisibleVariables, LivingFacts, TypeFacts
<1>4. UNCHANGED <<stackTop, frames, closures, global>>
  BY DEF OP_SET_UPVALUE
<1>5. CASE upvalues[w].location # CLOSED
  <2>1. PICK i, j : /\ IsLocal(i, j) /\ LocalAt(i, j).variable = upvalues[w].variable
                    /\ SlotOf(i, j) = upvalues[w].location
    BY <1>1, <1>3, <1>5, OpenIsLocal
  <2>2. upvalues' = upvalues /\ stack' = [stack EXCEPT ![SlotOf(i, j)] = peek(0)]
    BY <1>2, <1>5, <2>1 DEF OP_SET_UPVALUE
  <2> QED
    BY <1>1, <1>3, <1>4, <2>1, <2>2, AssigningLocal
<1>6. CASE upvalues[w].location = CLOSED
  <2>1. PICK v : v = upvalues[w].variable
    OBVIOUS
  <2>2. upvalues' = [upvalues EXCEPT ![w].closed = peek(0)] /\ stack' = stack
    BY <1>2, <1>6 DEF OP_SET_UPVALUE
  <2>3. /\ Len(upvalues') = Len(upvalues)
        /\ \A u \in 1..Len(upvalues) : u # w => upvalues'[u] = upvalues[u]
        /\ upvalues'[w].variable = v /\ upvalues'[w].location = CLOSED
        /\ upvalues'[w].closed = peek(0)
    <3>1. upvalues \in Seq(UpvalueType)
      BY <1>1 DEF IInv, Typed
    <3> QED
      BY <1>3, <1>6, <2>1, <2>2, <3>1 DEF UpvalueType
  <2>4. ASSUME NEW i, NEW j, IsLocal(i, j) PROVE LocalAt(i, j).variable # v
    <3>1. SUFFICES ASSUME LocalAt(i, j).variable = v PROVE FALSE
      OBVIOUS
    <3>2. upvalues[w].location = SlotOf(i, j) /\ SlotOf(i, j) \in Nat
      BY <1>1, <1>3, <2>1, <2>4, <3>1, LocalSlots DEF IInv, Found
    <3> QED
      BY <1>6, <3>2, ClosuresAssumption
  <2>5. ASSUME NEW u \in 1..Len(upvalues)
        PROVE  /\ upvalues'[u].variable = upvalues[u].variable
               /\ Read(u)' = IF upvalues[u].variable = v THEN peek(0) ELSE Read(u)
    <3>1. CASE u = w
      BY <2>1, <2>3, <3>1 DEF Read
    <3>2. CASE u # w
      <4>1. upvalues[u].variable # v
        BY <1>1, <1>3, <2>1, <3>2 DEF IInv, Shared
      <4> QED
        BY <2>2, <2>3, <3>2, <4>1 DEF Read
    <3> QED
      BY <3>1, <3>2
  <2>6. v \in Variable
    BY <1>3, <2>1 DEF UpvalueType
  <2> QED
    BY <1>1, <1>3, <1>4, <2>1, <2>2, <2>3, <2>4, <2>5, <2>6, Assigning
<1> QED
  BY <1>5, <1>6

LEMMA InterpretPromised ==
  ASSUME LInv, LInv', ~Repl, interpret
  PROVE  Variables!Next
<1>1. /\ IInv /\ IInv' /\ frames = <<>> /\ stackTop = 0 /\ ready
      /\ push(0) /\ frames' = <<CallFrame(0, 0, <<>>)>>
      /\ UNCHANGED <<closures, upvalues, global>>
  BY DEF interpret, LInv, IInv, Stacked, heap
<1>2. \A i, j : ~IsLocal(i, j)
  BY <1>1 DEF IsLocal
<1>3. \A i, j : ~IsLocal(i, j)'
  BY <1>1 DEF IsLocal, CallFrame
<1>4. ASSUME NEW u \in 1..Len(upvalues) PROVE Read(u)' = Read(u)
  <2>1. upvalues[u].location = CLOSED
    BY <1>1, <1>2, OpenIsLocal
  <2> QED
    BY <1>1, <2>1 DEF Read
<1>5. Captures' = Captures
  BY <1>1, SameCaptures, TypeFacts
<1>6. Variables!Become(Scopes', Captures, Contents)
  BY <1>1, <1>3, <1>4, <1>5, Keeping
<1>7. Scopes = <<>>
  BY <1>1 DEF Scopes
<1>8. Scopes' = <<Variables!Call(0, <<>>)>>
  <2>1. /\ Len(frames') = 1 /\ frames'[1].closure = 0
        /\ Len(frames'[1].locals) = 0 /\ TopLocal(1)' = 0 /\ EndOf(1)' = 1
    BY <1>1 DEF CallFrame, TopLocal, EndOf, push
  <2>2. VarsOf(1)' = <<>> /\ OperandsOf(1)' = <<>>
    <3>1. VarsOf(1)' = <<>>
      BY <2>1 DEF VarsOf
    <3>2. PICK tt : tt = stack'
      OBVIOUS
    <3>3. OperandsOf(1)' = Between(tt, 0, 0 + 1)
      BY <2>1, <3>2 DEF OperandsOf
    <3> QED
      BY <3>1, <3>3, NothingBetween
  <2>3. /\ Scopes' \in Seq(ScopeType)' /\ Len(Scopes') = 1
        /\ Scopes'[1] = ScopeAt(1)'
    BY <1>1, <2>1, ScopesHoldNext DEF ScopesAre
  <2>4. Scopes'[1] = Variables!Call(0, <<>>)
    BY <2>1, <2>2, <2>3 DEF ScopeAt, Variables!Call
  <2>5. ASSUME NEW S, NEW s \in Seq(S), Len(s) = 1 PROVE s = <<s[1]>>
    BY <2>5
  <2> QED
    BY <2>3, <2>4, <2>5
<1>9. Variables!Begin
  BY <1>1, <1>6, <1>7, <1>8 DEF Variables!Begin
<1> QED
  BY <1>9 DEF Variables!Next

----------------------------------------------------------------------------
(* Scopes. *)

LEMMA StoreFacts ==
  ASSUME NEW st, NEW vs, NEW xs,
         \A k, l \in DOMAIN vs : vs[k] = vs[l] => k = l
  PROVE  /\ \A w \in DOMAIN st :
              (\A k \in DOMAIN vs : vs[k] # w) => Variables!Store(st, vs, xs)[w] = st[w]
         /\ \A k \in DOMAIN vs : Variables!Store(st, vs, xs)[vs[k]] = xs[k]
<1>1. \A w : w \in Variables!Range(vs) <=> \E k \in DOMAIN vs : vs[k] = w
  BY DEF Variables!Range
<1>2. ASSUME NEW w \in DOMAIN st, \A k \in DOMAIN vs : vs[k] # w
      PROVE  Variables!Store(st, vs, xs)[w] = st[w]
  BY <1>1, <1>2 DEF Variables!Store
<1>3. ASSUME NEW k \in DOMAIN vs
      PROVE  Variables!Store(st, vs, xs)[vs[k]] = xs[k]
  <2>1. vs[k] \in Variables!Range(vs)
    BY <1>1
  <2>2. (CHOOSE i \in DOMAIN vs : vs[i] = vs[k]) = k
    BY <1>3
  <2> QED
    BY <2>1, <2>2 DEF Variables!Store
<1> QED
  BY <1>2, <1>3

LEMMA FramesBelow ==
  ASSUME IInv, frames # <<>>, NEW ls \in Seq(LocalType), WithLocals(ls)
  PROVE  \A i \in 1..Len(frames) : i # Len(frames) => frames'[i] = frames[i]
<1>1. frames \in Seq(FrameType) /\ Len(frames) \in 1..Len(frames)
  BY TopFacts DEF IInv, Typed
<1> QED
  BY <1>1 DEF WithLocals, ReplaceAt

(* A new list of the variables of the running function. *)
LEMMA LocalsInScope ==
  ASSUME IInv, IInv', NEW n, n = Len(frames), frames # <<>>,
         NEW ls \in Seq(LocalType), WithLocals(ls),
         \A s \in Nat : s < Frame.slots => stack'[s] = stack[s]
  PROVE  /\ Scopes' = With(n, Frame.closure, VarsOf(n)', OperandsOf(n)')
         /\ VarsOf(n)' = [j \in 1..Len(ls) |-> ls[j].variable]
         /\ TopLocal(n)' = Frame.slots + Len(ls)
         /\ EndOf(n)' = stackTop'
<1>1. /\ Len(frames') = n /\ n \in 1..Len(frames) /\ Frame = frames[n]
      /\ \A i \in 1..n : /\ frames'[i].slots = frames[i].slots
                         /\ frames'[i].closure = frames[i].closure
                         /\ i # n => frames'[i] = frames[i]
      /\ frames'[n].locals = ls
  BY LocalsChange, FramesBelow, TopScope
<1>2. ASSUME NEW i \in 1..n, i # n PROVE Undisturbed(i)
  <2>1. EndOf(i) <= frames[n].slots /\ EndOf(i) \in Nat /\ frames[n].slots \in Nat
    BY <1>1, <1>2, BelowFrame, EndFacts, LocalFacts
  <2> QED
    BY <1>1, <2>1 DEF Undisturbed
<1>3. Scopes' = With(n, Frame.closure, VarsOf(n)', OperandsOf(n)')
  BY <1>1, <1>2, TopChanges
<1> QED
  BY <1>1, <1>3 DEF VarsOf, LocalAt, TopLocal, EndOf

(* A variable is declared: it is the value on top, above all others. *)
LEMMA NewVariable ==
  ASSUME LInv, LInv', ~Repl, frames # <<>>, CanDeclare(1), NEW isCaptured \in BOOLEAN,
         NEW v, v = Fresh(1)[1],
         WithLocals(Append(Locals, Local(v, isCaptured))),
         stackTop' = Frame.slots + Len(Locals) + 2,
         \A s \in Nat : s <= Frame.slots + Len(Locals) => stack'[s] = stack[s],
         upvalues' = upvalues,
         NEW x, x = stack'[Frame.slots + Len(Locals) + 1]
  PROVE  /\ v \in Variable /\ v \notin DOMAIN Contents
         /\ Variables!Become(Variables!WithVariable(v), Captures',
                             Variables!Store(Contents, <<v>>, <<x>>))
<1>1. IInv /\ IInv'
  BY DEF LInv
<1>2. PICK n : n = Len(frames)
  OBVIOUS
<1>3. PICK ls : ls = Append(Locals, Local(v, isCaptured))
  OBVIOUS
<1>4. v \in Variable /\ v \notin Living
  BY FreshFacts
<1>5. /\ Locals \in Seq(LocalType) /\ Len(Locals) \in Nat /\ Frame.slots \in Nat
      /\ ls \in Seq(LocalType) /\ Len(ls) = Len(Locals) + 1
      /\ \A j \in 1..Len(Locals) : ls[j] = Locals[j]
      /\ ls[Len(Locals) + 1].variable = v
  BY <1>1, <1>3, <1>4, TopFacts DEF Local, LocalType
<1>6. /\ n \in 1..Len(frames) /\ Locals = frames[n].locals /\ Frame = frames[n]
      /\ DOMAIN Contents = Living
  BY <1>1, <1>2, TopScope, ContentsAre
<1>7. /\ Scopes' = With(n, Frame.closure, VarsOf(n)', OperandsOf(n)')
      /\ VarsOf(n)' = [j \in 1..Len(ls) |-> ls[j].variable]
      /\ TopLocal(n)' = Frame.slots + Len(ls)
      /\ EndOf(n)' = stackTop'
  <2>1. \A s \in Nat : s < Frame.slots => stack'[s] = stack[s]
    BY <1>5
  <2>2. WithLocals(ls)
    BY <1>3
  <2> QED
    BY <1>1, <1>2, <1>5, <2>1, <2>2, LocalsInScope
<1>8. VarsOf(n)' = Append(VarsOf(n), v)
  <2>1. VarsOf(n) = [j \in 1..Len(Locals) |-> Locals[j].variable]
    BY <1>6 DEF VarsOf, LocalAt
  <2>2. VarsOf(n) \in Seq(Variable)
    BY <1>1, <1>2, TopScope
  <2> QED
    BY <1>4, <1>5, <1>7, <2>1, <2>2
<1>9. OperandsOf(n)' = <<>>
  <2>1. PICK a \in Nat : a = Frame.slots + Len(ls)
    BY <1>5
  <2>2. PICK tt : tt = stack'
    OBVIOUS
  <2>3. OperandsOf(n)' = Between(tt, a, a + 1)
    BY <1>5, <1>7, <2>1, <2>2 DEF OperandsOf
  <2> QED
    BY <2>3, NothingBetween
<1>10. Scopes' = Variables!WithVariable(v)
  <2>1. Scopes' = With(n, Frame.closure, Append(VarsOf(n), v), <<>>)
    BY <1>7, <1>8, <1>9
  <2> QED
    BY <1>1, <1>2, <2>1, Notation
<1>11. PICK st : st = Variables!Store(Contents, <<v>>, <<x>>)
  OBVIOUS
<1>12. st[v] = x /\ \A w \in Living : st[w] = Contents[w]
  <2>1. \A k \in DOMAIN <<v>> : <<v>>[k] = v /\ <<x>>[k] = x
    OBVIOUS
  <2>2. 1 \in DOMAIN <<v>> /\ \A k, l \in DOMAIN <<v>> : <<v>>[k] = <<v>>[l] => k = l
    OBVIOUS
  <2>3. PICK c : c = Contents
    OBVIOUS
  <2>4. PICK vs, xs : vs = <<v>> /\ xs = <<x>>
    OBVIOUS
  <2>5. /\ DOMAIN c = Living /\ v \notin Living
        /\ st = Variables!Store(c, vs, xs)
    BY <1>4, <1>6, <1>11, <2>3, <2>4
  <2>6. \A k \in DOMAIN vs : vs[k] = v /\ xs[k] = x
    BY <2>1, <2>4
  <2>7. 1 \in DOMAIN vs /\ \A k, l \in DOMAIN vs : vs[k] = vs[l] => k = l
    BY <2>2, <2>4
  <2>8. st[v] = x
    <3>1. \A k \in DOMAIN vs : st[vs[k]] = xs[k]
      BY <2>5, <2>7, StoreFacts
    <3> QED
      BY <2>6, <2>7, <3>1
  <2>9. \A w \in Living : st[w] = c[w]
    <3>1. \A w \in DOMAIN c : (\A k \in DOMAIN vs : vs[k] # w) => st[w] = c[w]
      BY <2>5, <2>7, StoreFacts
    <3> QED
      BY <2>5, <2>6, <3>1
  <2> QED
    BY <2>3, <2>8, <2>9
<1>13. ASSUME NEW i, NEW j, IsLocal(i, j)'
       PROVE  stack'[SlotOf(i, j)'] = st[LocalAt(i, j)'.variable]
  <2>1. /\ IF i = Len(frames) THEN j \in 1..Len(ls) ELSE IsLocal(i, j)
        /\ LocalAt(i, j)' = IF i = Len(frames) THEN ls[j] ELSE LocalAt(i, j)
        /\ SlotOf(i, j)' = SlotOf(i, j)
    <3>1. IInv /\ frames # <<>> /\ ls \in Seq(LocalType) /\ WithLocals(ls)
      BY <1>1, <1>3, <1>5
    <3> QED
      BY <1>13, <3>1, LocalsAre
  <2>2. CASE i = n /\ j = Len(ls)
    <3>1. SlotOf(i, j) = Frame.slots + Len(Locals) + 1
      <4>1. frames[i].slots = Frame.slots /\ j = Len(Locals) + 1
        BY <1>5, <1>6, <2>2
      <4>2. PICK k, l : k = Len(Locals) /\ l = Frame.slots
        OBVIOUS
      <4>3. k \in Nat /\ l \in Nat /\ SlotOf(i, j) = l + (k + 1)
        BY <1>5, <4>1, <4>2 DEF SlotOf
      <4> QED
        BY <4>2, <4>3
    <3>2. LocalAt(i, j)'.variable = v
      BY <1>2, <1>5, <2>1, <2>2
    <3> QED
      BY <1>12, <2>1, <3>1, <3>2
  <2>3. CASE ~(i = n /\ j = Len(ls))
    <3>1. IsLocal(i, j) /\ LocalAt(i, j)' = LocalAt(i, j)
      BY <1>2, <1>5, <1>6, <2>1, <2>3 DEF IsLocal, LocalAt
    <3>2. /\ Contents[LocalAt(i, j).variable] = stack[SlotOf(i, j)]
          /\ LocalAt(i, j).variable \in Living
          /\ SlotOf(i, j) \in Nat /\ SlotOf(i, j) <= TopLocal(n)
      BY <1>1, <1>2, <3>1, ContentsAre, AboveLocals
    <3>3. TopLocal(n) = Frame.slots + Len(Locals)
      BY <1>6 DEF TopLocal
    <3> QED
      BY <1>12, <2>1, <3>1, <3>2, <3>3
  <2> QED
    BY <2>2, <2>3
<1>14. ASSUME NEW u \in 1..Len(upvalues)
       PROVE  \/ \E i, j : IsLocal(i, j)' /\ LocalAt(i, j)'.variable = upvalues[u].variable
              \/ Read(u)' = st[upvalues[u].variable]
  <2>1. CASE upvalues[u].location = CLOSED
    <3>1. Read(u)' = Read(u)
      BY <2>1 DEF Read
    <3> QED
      BY <1>1, <1>12, <3>1, ContentsAre
  <2>2. CASE upvalues[u].location # CLOSED
    <3>1. PICK i, j : IsLocal(i, j) /\ LocalAt(i, j).variable = upvalues[u].variable
      BY <1>1, <2>2, OpenIsLocal
    <3>2. IsLocal(i, j)' /\ LocalAt(i, j)' = LocalAt(i, j)
      <4>1. i = n => j \in 1..Len(ls) /\ ls[j] = LocalAt(i, j)
        BY <1>5, <1>6, <3>1 DEF IsLocal, LocalAt
      <4>2. /\ \A k, l : IsLocal(k, l)' <=>
                  IF k = Len(frames) THEN l \in 1..Len(ls) ELSE IsLocal(k, l)
            /\ \A k, l : IsLocal(k, l)' =>
                 LocalAt(k, l)' = IF k = Len(frames) THEN ls[l] ELSE LocalAt(k, l)
        <5>1. IInv /\ frames # <<>> /\ ls \in Seq(LocalType) /\ WithLocals(ls)
          BY <1>1, <1>3, <1>5
        <5> QED
          BY <5>1, LocalsAre
      <4>3. IsLocal(i, j)'
        BY <1>2, <3>1, <4>1, <4>2
      <4> QED
        BY <1>2, <4>1, <4>2, <4>3
    <3> QED
      BY <3>1, <3>2
  <2> QED
    BY <2>1, <2>2
<1>15. Variables!Become(Scopes', Captures', st)
  BY <1>13, <1>14, Becoming
<1> QED
  BY <1>4, <1>6, <1>10, <1>11, <1>15

LEMMA DefineVariablePromised ==
  ASSUME LInv, LInv', ~Repl, NEW isCaptured \in BOOLEAN, defineVariable(isCaptured)
  PROVE  Variables!Next
<1>1. /\ IInv /\ frames # <<>> /\ Operands = 1 /\ CanDeclare(1)
      /\ WithLocals(Append(Locals, Local(Fresh(1)[1], isCaptured)))
      /\ UNCHANGED <<stack, stackTop, closures, upvalues, global>>
  BY DEF defineVariable, Running, LInv, heap
<1>2. PICK v, x : v = Fresh(1)[1] /\ x = stack[Frame.slots + Len(Locals) + 1]
  OBVIOUS
<1>3. /\ stackTop = Frame.slots + Len(Locals) + 2
      /\ Frame.slots \in Nat /\ Len(Locals) \in Nat
  BY <1>1, TopFacts
<1>4. /\ v \in Variable /\ v \notin DOMAIN Contents
      /\ Variables!Become(Variables!WithVariable(v), Captures',
                          Variables!Store(Contents, <<v>>, <<x>>))
  BY <1>1, <1>2, <1>3, NewVariable
<1>5. Captures' = Captures
  BY <1>1, SameCaptures, TypeFacts
<1>6. Variables!Operand = x /\ Len(Variables!Top.operands) = 1
  <2>1. PICK n : n = Len(frames)
    OBVIOUS
  <2>2. Len(Variables!Top.operands) = 1
    BY <1>1, <2>1, TopScope, Notation
  <2>3. Variables!Operand = stack[stackTop - 1]
    BY <1>1, TopOperand
  <2>4. stackTop - 1 = Frame.slots + Len(Locals) + 1
    BY <1>3
  <2> QED
    BY <1>2, <2>2, <2>3, <2>4
<1>7. Variables!Declare(v)
  BY <1>1, <1>4, <1>5, <1>6 DEF Variables!Declare
<1> QED
  BY <1>1, <1>4, <1>7, StepIsNext DEF Variables!Step

(* An upvalue that is closed takes the value that it pointed at. *)
LEMMA ClosedValues ==
  ASSUME IInv, NEW n \in 0..Len(openUpvalues), CloseFirst(n), NEW u \in 1..Len(upvalues)
  PROVE  \/ upvalues'[u] = upvalues[u]
         \/ /\ upvalues[u].location # CLOSED
            /\ upvalues'[u].location = CLOSED
            /\ upvalues'[u].closed = stack[upvalues[u].location]
<1>1. CASE \A m \in 1..n : openUpvalues[m] # u
  BY <1>1, CloseFacts
<1>2. ASSUME NEW m \in 1..n, openUpvalues[m] = u
      PROVE  /\ upvalues[u].location # CLOSED
             /\ upvalues'[u].location = CLOSED
             /\ upvalues'[u].closed = stack[upvalues[u].location]
  <2>1. m \in 1..Len(openUpvalues)
    BY TypeFacts
  <2>2. upvalues[u].location # CLOSED
    BY <1>2, <2>1, OpenFacts DEF Location
  <2> QED
    BY <1>2, <2>2, TypeFacts DEF CloseFirst
<1> QED
  BY <1>1, <1>2

LEMMA ClosingReads ==
  ASSUME IInv, NEW slot \in Nat, closeUpvalues(slot), stack' = stack
  PROVE  /\ Len(upvalues') = Len(upvalues)
         /\ \A u \in 1..Len(upvalues) :
              upvalues'[u].variable = upvalues[u].variable /\ Read(u)' = Read(u)
<1>1. PICK n \in 0..Len(openUpvalues) : CloseFirst(n)
  BY FirstBelowFacts, TypeFacts DEF closeUpvalues
<1>2. \A u \in 1..Len(upvalues) : upvalues'[u].variable = upvalues[u].variable
  BY <1>1, CloseFacts
<1>3. ASSUME NEW u \in 1..Len(upvalues) PROVE Read(u)' = Read(u)
  <2>1. CASE upvalues'[u] = upvalues[u]
    BY <2>1 DEF Read
  <2>2. CASE /\ upvalues[u].location # CLOSED /\ upvalues'[u].location = CLOSED
             /\ upvalues'[u].closed = stack[upvalues[u].location]
    BY <2>2 DEF Read
  <2> QED
    BY <1>1, <2>1, <2>2, ClosedValues
<1> QED
  BY <1>1, <1>2, <1>3, CloseFacts

LEMMA EndsScopePromised ==
  ASSUME LInv, LInv', ~Repl, NEW isCaptured \in BOOLEAN, EndsScope(isCaptured),
         Len(upvalues') = Len(upvalues),
         \A u \in 1..Len(upvalues) :
           upvalues'[u].variable = upvalues[u].variable /\ Read(u)' = Read(u)
  PROVE  Variables!Next
<1>1. IInv /\ IInv' /\ Operands = 0 /\ WithLocals(Front(Locals))
  BY DEF EndsScope, LInv
<1>2. /\ frames # <<>> /\ UNCHANGED <<stack, closures, global>>
      /\ Len(Locals) \in Nat \ {0} /\ stackTop' = stackTop - 1
      /\ \A i, j : IsLocal(i, j)' =>
           /\ IsLocal(i, j) /\ LocalAt(i, j)' = LocalAt(i, j)
           /\ SlotOf(i, j)' = SlotOf(i, j)
  BY <1>1, EndsScopeFacts
<1>3. PICK n : n = Len(frames)
  OBVIOUS
<1>4. /\ Locals \in Seq(LocalType) /\ Frame.slots \in Nat /\ Locals # <<>>
      /\ stackTop = Frame.slots + 1 + Len(Locals)
      /\ Locals = frames[n].locals
  BY <1>1, <1>2, <1>3, TopFacts, TopScope
<1>5. PICK ls : ls = Front(Locals)
  OBVIOUS
<1>6. /\ ls \in Seq(LocalType) /\ Len(ls) = Len(Locals) - 1
      /\ \A j \in 1..(Len(Locals) - 1) : ls[j] = Locals[j]
  BY <1>4, <1>5, LastAndFront
<1>7. /\ Scopes' = With(n, Frame.closure, VarsOf(n)', OperandsOf(n)')
      /\ VarsOf(n)' = [j \in 1..Len(ls) |-> ls[j].variable]
      /\ TopLocal(n)' = Frame.slots + Len(ls)
      /\ EndOf(n)' = stackTop'
  <2>1. WithLocals(ls) /\ \A s \in Nat : s < Frame.slots => stack'[s] = stack[s]
    BY <1>1, <1>2, <1>5
  <2> QED
    BY <1>1, <1>2, <1>3, <1>6, <2>1, LocalsInScope
<1>8. VarsOf(n)' = Front(VarsOf(n)) /\ VarsOf(n) # <<>>
  <2>1. VarsOf(n) = [j \in 1..Len(Locals) |-> Locals[j].variable]
    BY <1>4 DEF VarsOf, LocalAt
  <2>2. VarsOf(n) \in Seq(Variable) /\ Len(VarsOf(n)) = Len(Locals)
    BY <1>1, <1>2, <1>3, TopScope
  <2>3. /\ Front(VarsOf(n)) \in Seq(Variable) /\ Len(Front(VarsOf(n))) = Len(Locals) - 1
        /\ \A j \in 1..(Len(Locals) - 1) : Front(VarsOf(n))[j] = VarsOf(n)[j]
        /\ VarsOf(n) # <<>>
    <3>1. VarsOf(n) # <<>>
      BY <1>2, <2>2
    <3> QED
      BY <2>2, <3>1, LastAndFront
  <2>4. PICK k, vs : k \in Nat /\ k = Len(Locals) - 1 /\ vs = Front(VarsOf(n))
    BY <1>2
  <2>5. vs = [j \in 1..k |-> vs[j]]
    BY <2>3, <2>4
  <2>6. \A j \in 1..k : vs[j] = ls[j].variable
    <3>1. \A j \in 1..k : j \in 1..Len(Locals)
      BY <1>2, <2>4
    <3> QED
      BY <1>6, <2>1, <2>3, <2>4, <3>1
  <2>7. VarsOf(n)' = [j \in 1..k |-> ls[j].variable]
    BY <1>6, <1>7, <2>4
  <2>8. VarsOf(n)' = vs
    BY <2>5, <2>6, <2>7
  <2> QED
    BY <2>3, <2>4, <2>8
<1>9. OperandsOf(n)' = <<>>
  <2>1. PICK a \in Nat : a = Frame.slots + Len(ls)
    BY <1>2, <1>4, <1>6
  <2>2. PICK tt : tt = stack'
    OBVIOUS
  <2>3. OperandsOf(n)' = Between(tt, a, a + 1)
    <3>1. TopLocal(n)' = a /\ EndOf(n)' = a + 1
      <4>1. PICK k, l : k = Len(Locals) /\ l = Frame.slots
        OBVIOUS
      <4>2. k \in Nat \ {0} /\ l \in Nat
        BY <1>2, <1>4, <4>1
      <4>3. stackTop = l + 1 + k /\ stackTop' = stackTop - 1
        BY <1>2, <1>4, <4>1
      <4>4. TopLocal(n)' = l + Len(ls) /\ EndOf(n)' = stackTop' /\ Len(ls) = k - 1
        BY <1>6, <1>7, <4>1
      <4>5. a = l + Len(ls)
        BY <2>1, <4>1
      <4> QED
        BY <4>2, <4>3, <4>4, <4>5
    <3> QED
      BY <2>2, <3>1 DEF OperandsOf
  <2> QED
    BY <2>3, NothingBetween
<1>10. OperandsOf(n) = <<>>
  <2>1. OperandsOf(n) \in Seq(Things) /\ Len(OperandsOf(n)) = 0
    BY <1>1, <1>2, <1>3, TopScope
  <2> QED
    BY <2>1, EmptySeq
<1>11. Scopes' = Variables!WithTop([Variables!Top EXCEPT !.vars = Variables!Front(@)])
  <2>1. Variables!Top = ScopeAt(n)
    BY <1>1, <1>2, <1>3, Notation
  <2>2. [Variables!Top EXCEPT !.vars = Variables!Front(@)]
          = [function |-> Frame.closure, vars |-> Front(VarsOf(n)), operands |-> <<>>]
    <3>1. frames[n] = Frame
      BY <1>1, <1>2, <1>3, TopScope
    <3> QED
      BY <1>10, <2>1, <3>1 DEF ScopeAt, Variables!Front, Front
  <2>3. Scopes' = With(n, Frame.closure, Front(VarsOf(n)), <<>>)
    BY <1>7, <1>8, <1>9
  <2> QED
    BY <1>1, <1>2, <1>3, <2>2, <2>3, Notation DEF With
<1>12. Captures' = Captures
  BY <1>1, <1>2, SameCaptures, TypeFacts
<1>13. Variables!Become(Scopes', Captures, Contents)
  <2>1. \A i, j : IsLocal(i, j)' =>
           /\ IsLocal(i, j)
           /\ LocalAt(i, j)'.variable = LocalAt(i, j).variable
           /\ stack'[SlotOf(i, j)'] = stack[SlotOf(i, j)]
    BY <1>2
  <2> QED
    BY <1>12, <2>1, Keeping
<1>14. Variables!LeaveScope
  <2>1. Variables!Top.vars # <<>>
    BY <1>1, <1>2, <1>3, <1>8, Notation
  <2> QED
    BY <1>2, <1>11, <1>13, <2>1 DEF Variables!LeaveScope
<1> QED
  BY <1>1, <1>2, <1>14, StepIsNext DEF Variables!Step

LEMMA PopLocalPromised ==
  ASSUME LInv, LInv', ~Repl, OP_POP_LOCAL
  PROVE  Variables!Next
<1>1. EndsScope(FALSE) /\ upvalues' = upvalues /\ IInv
  BY DEF OP_POP_LOCAL, LInv
<1>2. stack' = stack
  BY <1>1, EndsScopeFacts
<1>3. \A u \in 1..Len(upvalues) : Read(u)' = Read(u)
  BY <1>1, <1>2 DEF Read
<1> QED
  BY <1>1, <1>3, EndsScopePromised

LEMMA CloseUpvaluePromised ==
  ASSUME LInv, LInv', ~Repl, OP_CLOSE_UPVALUE
  PROVE  Variables!Next
<1>1. EndsScope(TRUE) /\ closeUpvalues(stackTop - 1) /\ IInv
  BY DEF OP_CLOSE_UPVALUE, LInv
<1>2. /\ stack' = stack /\ stackTop' = stackTop - 1 /\ stackTop' \in 0..StackMax
  BY <1>1, EndsScopeFacts
<1>3. PICK slot \in Nat : slot = stackTop - 1
  BY <1>2, ClosuresAssumption
<1>4. /\ Len(upvalues') = Len(upvalues)
      /\ \A u \in 1..Len(upvalues) :
           upvalues'[u].variable = upvalues[u].variable /\ Read(u)' = Read(u)
  BY <1>1, <1>2, <1>3, ClosingReads
<1> QED
  BY <1>1, <1>4, EndsScopePromised

----------------------------------------------------------------------------
(* Functions. *)

LEMMA IsAppend ==
  ASSUME NEW S, NEW s \in Seq(S), NEW t \in Seq(S), NEW x \in S,
         Len(t) = Len(s) + 1, \A i \in 1..Len(s) : t[i] = s[i], t[Len(s) + 1] = x
  PROVE  t = Append(s, x)
<1>1. PICK a : a = Append(s, x)
  OBVIOUS
<1>2. /\ a \in Seq(S) /\ Len(a) = Len(s) + 1
      /\ \A i \in 1..Len(s) : a[i] = s[i]
      /\ a[Len(s) + 1] = x
  BY <1>1, AppendProperties
<1>3. \A i \in 1..Len(t) : t[i] = a[i]
  BY <1>2
<1> QED
  BY <1>1, <1>2, <1>3, SeqEqual

LEMMA NewFunctionCaptures ==
  ASSUME IInv, IInv', NEW n \in 0..MaxArity, newClosure(n), upvalues' = upvalues
  PROVE  Captures' = Append(Captures, [arity |-> n, captured |-> <<>>])
<1>1. PICK m \in Nat : m = Len(closures)
  BY TypeFacts
<1>2. /\ Len(closures') = m + 1
      /\ \A c \in 1..m : closures'[c] = closures[c]
      /\ closures'[m + 1] = [arity |-> n, upvalues |-> <<>>]
  BY <1>1, NewClosureIs
<1>3. /\ Captures \in Seq(FunctionType) /\ Len(Captures) = m
      /\ \A c \in 1..m : Captures[c] = FunctionAt(c)
  BY <1>1, CapturesHold DEF CapturesAre
<1>4. /\ Captures' \in Seq(FunctionType)' /\ Len(Captures') = m + 1
      /\ \A c \in 1..(m + 1) : Captures'[c] = FunctionAt(c)'
  BY <1>2, CapturesHoldNext DEF CapturesAre
<1>5. \A c \in 1..m : FunctionAt(c)' = FunctionAt(c)
  BY <1>2 DEF FunctionAt, CapturedBy, Captured
<1>6. FunctionAt(m + 1)' = [arity |-> n, captured |-> <<>>]
  <2>1. Captured(m + 1)' = <<>> /\ closures'[m + 1].arity = n
    BY <1>2 DEF Captured
  <2>2. CapturedBy(m + 1)' = <<>>
    BY <2>1 DEF CapturedBy
  <2> QED
    BY <2>1, <2>2 DEF FunctionAt
<1>7. PICK x : x = [arity |-> n, captured |-> <<>>]
  OBVIOUS
<1>8. x \in FunctionType /\ Seq(FunctionType)' = Seq(FunctionType)
  BY <1>7 DEF FunctionType
<1>9. (\A c \in 1..m : Captures'[c] = Captures[c]) /\ Captures'[m + 1] = x
  <2>1. \A c \in 1..m : c \in 1..(m + 1)
    OBVIOUS
  <2>2. m + 1 \in 1..(m + 1)
    OBVIOUS
  <2> QED
    BY <1>3, <1>4, <1>5, <1>6, <1>7, <2>1, <2>2
<1>10. PICK s, t : s = Captures /\ t = Captures'
  OBVIOUS
<1>11. /\ s \in Seq(FunctionType) /\ t \in Seq(FunctionType) /\ Len(t) = Len(s) + 1
       /\ \A c \in 1..Len(s) : t[c] = s[c]
       /\ t[Len(s) + 1] = x
  BY <1>3, <1>4, <1>8, <1>9, <1>10
<1>12. t = Append(s, x)
  BY <1>8, <1>11, IsAppend
<1> QED
  BY <1>7, <1>10, <1>12

LEMMA ClosurePromised ==
  ASSUME LInv, LInv', ~Repl, NEW n \in 0..MaxArity, NEW count, OP_CLOSURE(n, count)
  PROVE  Variables!Next
<1>1. /\ IInv /\ IInv' /\ frames # <<>> /\ newClosure(n)
      /\ UNCHANGED <<frames, upvalues, global>>
  BY DEF OP_CLOSURE, Running, LInv
<1>2. PICK x : x = Len(closures) + 1
  OBVIOUS
<1>3. push(x) /\ x \in Things
  <2>1. push(x)
    BY <1>1, <1>2, NewClosureIs
  <2>2. x \in Things
    BY <1>1, <1>2, TypeFacts DEF Things
  <2> QED
    BY <2>1, <2>2
<1>4. /\ Scopes' = Variables!WithOperands(Append(Variables!Top.operands, x))
      /\ \A i, j : IsLocal(i, j) => stack'[SlotOf(i, j)] = stack[SlotOf(i, j)]
  BY <1>1, <1>3, PushedOperand
<1>5. Variables!Become(Scopes', Captures', Contents)
  BY <1>1, <1>4, NothingStored
<1>6. /\ Captures' = Append(Captures, [arity |-> n, captured |-> <<>>])
      /\ Len(Captures) + 1 = x
  BY <1>1, <1>2, NewFunctionCaptures, CapturesHold DEF CapturesAre
<1>7. Variables!NewFunction(n)
  BY <1>1, <1>4, <1>5, <1>6 DEF Variables!NewFunction
<1> QED
  BY <1>1, <1>7, StepIsNext DEF Variables!Step

LEMMA ClosureLocalPromised ==
  ASSUME LInv, LInv', ~Repl, NEW n \in 0..MaxArity, NEW count, NEW isCaptured \in BOOLEAN,
         OP_CLOSURE_LOCAL(n, count, isCaptured)
  PROVE  Variables!Next
<1>1. /\ IInv /\ IInv' /\ frames # <<>> /\ newClosure(n) /\ Operands = 0 /\ CanDeclare(1)
      /\ WithLocals(Append(Locals, Local(Fresh(1)[1], isCaptured)))
      /\ UNCHANGED <<upvalues, global>>
  BY DEF OP_CLOSURE_LOCAL, Running, LInv
<1>2. PICK v, x : v = Fresh(1)[1] /\ x = Len(closures) + 1
  OBVIOUS
<1>3. PICK b \in Nat : b = stackTop
  BY <1>1, TypeFacts
<1>4. /\ b = Frame.slots + Len(Locals) + 1
      /\ Frame.slots \in Nat /\ Len(Locals) \in Nat
  BY <1>1, <1>3, TopFacts
<1>5. /\ stackTop' = b + 1 /\ b \in Slot /\ DOMAIN stack = Slot
      /\ stack' = [stack EXCEPT ![b] = x]
  <2>1. push(x)
    BY <1>1, <1>2, NewClosureIs
  <2> QED
    BY <1>1, <1>3, <2>1, TypeFacts DEF push, Slot, IInv, Typed
<1>6. stack'[b] = x /\ \A s \in Nat : s < b => stack'[s] = stack[s]
  <2>1. \A s \in Nat : s < b => s \in Slot /\ s # b
    BY <1>1, <1>5, TypeFacts DEF Slot
  <2> QED
    BY <1>5, <2>1
<1>7. /\ v \in Variable /\ v \notin DOMAIN Contents
      /\ Variables!Become(Variables!WithVariable(v), Captures',
                          Variables!Store(Contents, <<v>>, <<x>>))
  <2>1. \A s \in Nat : s <= Frame.slots + Len(Locals) => stack'[s] = stack[s]
    BY <1>4, <1>6
  <2>2. x = stack'[Frame.slots + Len(Locals) + 1] /\ stackTop' = Frame.slots + Len(Locals) + 2
    BY <1>4, <1>5, <1>6
  <2> QED
    BY <1>1, <1>2, <2>1, <2>2, NewVariable
<1>8. /\ Captures' = Append(Captures, [arity |-> n, captured |-> <<>>])
      /\ Len(Captures) + 1 = x
  BY <1>1, <1>2, NewFunctionCaptures, CapturesHold DEF CapturesAre
<1>9. Variables!Top.operands = <<>>
  <2>1. PICK k : k = Len(frames)
    OBVIOUS
  <2>2. /\ Variables!Top.operands = OperandsOf(k)
        /\ OperandsOf(k) \in Seq(Things) /\ Len(OperandsOf(k)) = 0
    BY <1>1, <2>1, TopScope, Notation
  <2> QED
    BY <2>2, EmptySeq
<1>10. Variables!DeclareFunction(v, n)
  BY <1>1, <1>7, <1>8, <1>9 DEF Variables!DeclareFunction
<1> QED
  BY <1>1, <1>7, <1>10, StepIsNext DEF Variables!Step

(* A turn of OP_CLOSURE's loop: the new function captures one variable. *)
LEMMA FilledCaptures ==
  ASSUME IInv, IInv', filling > 0, NEW u \in Nat, Fill(u),
         \A w \in 1..Len(upvalues) : upvalues'[w].variable = upvalues[w].variable,
         NEW v \in Variable, upvalues'[u].variable = v
  PROVE  /\ Captures # <<>>
         /\ Captures' = Variables!ReplaceAt(Captures, Len(Captures),
              [Variables!Last(Captures) EXCEPT !.captured = Append(@, v)])
<1>1. PICK m : m = Len(closures)
  OBVIOUS
<1>2. /\ m \in Nat \ {0} /\ Len(closures') = m
      /\ \A c \in 1..m : c # m => closures'[c] = closures[c]
      /\ closures'[m].arity = closures[m].arity
      /\ closures'[m].upvalues = Append(Captured(m), u)
      /\ Captured(m) \in Seq(Nat)
  BY <1>1, FillIs
<1>3. /\ Captures \in Seq(FunctionType) /\ Len(Captures) = m
      /\ \A c \in 1..m : /\ Captures[c] = FunctionAt(c)
                         /\ CapturedBy(c) \in Seq(Variable)
                         /\ Len(CapturedBy(c)) = Len(Captured(c))
  BY <1>1, CapturesHold DEF CapturesAre
<1>4. /\ Captures' \in Seq(FunctionType)' /\ Len(Captures') = m
      /\ \A c \in 1..m : /\ Captures'[c] = FunctionAt(c)'
                         /\ CapturedBy(c)' \in Seq(Variable)
                         /\ Len(CapturedBy(c)') = Len(Captured(c)')
  BY <1>2, CapturesHoldNext DEF CapturesAre
<1>5. \A c \in 1..m : \A k \in 1..Len(Captured(c)) :
        upvalues'[Captured(c)[k]].variable = upvalues[Captured(c)[k]].variable
  BY <1>1, CapturedSeq
<1>6. ASSUME NEW c \in 1..m, c # m PROVE FunctionAt(c)' = FunctionAt(c)
  <2>1. closures'[c] = closures[c] /\ Captured(c)' = Captured(c)
    BY <1>2, <1>6 DEF Captured
  <2>2. CapturedBy(c)' = CapturedBy(c)
    BY <1>5, <2>1 DEF CapturedBy
  <2> QED
    BY <2>1, <2>2 DEF FunctionAt
<1>7. CapturedBy(m)' = Append(CapturedBy(m), v)
  <2>1. PICK k : k = Len(Captured(m))
    OBVIOUS
  <2>2. /\ k \in Nat /\ m \in 1..m
        /\ Captured(m)' = Append(Captured(m), u)
    BY <1>2, <2>1 DEF Captured
  <2>3. /\ Len(Captured(m)') = k + 1 /\ Captured(m)'[k + 1] = u
        /\ \A i \in 1..k : Captured(m)'[i] = Captured(m)[i]
    BY <1>2, <2>1, <2>2, AppendProperties
  <2>4. PICK s, t : s = CapturedBy(m) /\ t = CapturedBy(m)'
    OBVIOUS
  <2>5. s \in Seq(Variable) /\ t \in Seq(Variable) /\ Len(s) = k /\ Len(t) = k + 1
    BY <1>3, <1>4, <2>1, <2>2, <2>3, <2>4
  <2>6. t[k + 1] = v
    BY <2>2, <2>3, <2>4 DEF CapturedBy
  <2>7. ASSUME NEW i \in 1..k PROVE t[i] = s[i]
    <3>1. i \in 1..(k + 1)
      BY <2>2
    <3>2. s[i] = upvalues[Captured(m)[i]].variable
      BY <2>1, <2>4 DEF CapturedBy
    <3>3. t[i] = upvalues'[Captured(m)[i]].variable
      BY <2>3, <2>4, <3>1 DEF CapturedBy
    <3> QED
      BY <1>5, <2>1, <2>2, <3>2, <3>3
  <2>8. t = Append(s, v)
    BY <2>5, <2>6, <2>7, IsAppend
  <2> QED
    BY <2>4, <2>8
<1>8. PICK x : x = [arity |-> closures[m].arity, captured |-> Append(CapturedBy(m), v)]
  OBVIOUS
<1>9. FunctionAt(m)' = x
  BY <1>2, <1>7, <1>8 DEF FunctionAt
<1>10. PICK s, t : s = Captures /\ t = Captures'
  OBVIOUS
<1>11. /\ s \in Seq(FunctionType) /\ t \in Seq(FunctionType) /\ Len(s) = m /\ Len(t) = m
       /\ \A c \in 1..m : c # m => t[c] = s[c]
       /\ t[m] = x
  <2>1. Seq(FunctionType)' = Seq(FunctionType)
    BY DEF FunctionType
  <2>2. \A c \in 1..m : c # m => t[c] = s[c]
    BY <1>3, <1>4, <1>6, <1>10
  <2>3. t[m] = x
    BY <1>2, <1>4, <1>9, <1>10
  <2> QED
    BY <1>3, <1>4, <1>10, <2>1, <2>2, <2>3
<1>12. t = [s EXCEPT ![m] = x]
  <2>1. DOMAIN s = 1..m /\ t = [c \in 1..m |-> t[c]]
    BY <1>11
  <2> QED
    BY <1>11, <2>1
<1>13. [Variables!Last(s) EXCEPT !.captured = Append(@, v)] = x
  <2>1. PICK f, a, cs : /\ f = Variables!Last(s) /\ a = closures[m].arity
                        /\ cs = CapturedBy(m)
    OBVIOUS
  <2>2. f = [arity |-> a, captured |-> cs]
    BY <1>2, <1>3, <1>10, <1>11, <2>1 DEF Variables!Last, FunctionAt
  <2>3. [f EXCEPT !.captured = Append(f.captured, v)]
          = [arity |-> a, captured |-> Append(cs, v)]
    BY <2>2
  <2> QED
    BY <1>8, <2>1, <2>3
<1>14. s # <<>>
  BY <1>2, <1>11
<1>15. Variables!ReplaceAt(s, Len(s), x) = t
  BY <1>2, <1>11, <1>12 DEF Variables!ReplaceAt
<1> QED
  BY <1>10, <1>13, <1>14, <1>15

LEMMA FilledPromised ==
  ASSUME LInv, LInv', ~Repl, filling > 0, NEW u \in Nat, Fill(u), u \in 1..Len(upvalues'),
         Len(upvalues) <= Len(upvalues'),
         \A w \in 1..Len(upvalues) : upvalues'[w] = upvalues[w],
         \A w \in 1..Len(upvalues') : w \in 1..Len(upvalues) \/
           \E i, j : IsLocal(i, j) /\ LocalAt(i, j).variable = upvalues'[w].variable,
         NEW v \in Variable, upvalues'[u].variable = v, v \in Variables!Visible
  PROVE  Variables!Next
<1>1. /\ IInv /\ IInv' /\ frames # <<>>
      /\ UNCHANGED <<stack, stackTop, frames, global>>
  BY FillIs DEF LInv
<1>2. Scopes' = Scopes
  BY <1>1, SameScopes
<1>3. \A i, j : /\ IsLocal(i, j)' <=> IsLocal(i, j)
                /\ LocalAt(i, j)' = LocalAt(i, j) /\ SlotOf(i, j)' = SlotOf(i, j)
  BY <1>1 DEF IsLocal, LocalAt, SlotOf
<1>4. ASSUME NEW w \in 1..Len(upvalues) PROVE Read(w)' = Read(w)
  BY <1>1 DEF Read
<1>5. Variables!Become(Scopes', Captures', Contents)
  BY <1>1, <1>3, <1>4, Keeping
<1>6. /\ Captures # <<>>
      /\ Captures' = Variables!ReplaceAt(Captures, Len(Captures),
           [Variables!Last(Captures) EXCEPT !.captured = Append(@, v)])
  BY <1>1, FilledCaptures
<1>7. Variables!Capture(v)
  BY <1>1, <1>2, <1>5, <1>6 DEF Variables!Capture
<1> QED
  BY <1>1, <1>7, StepIsNext DEF Variables!Step

LEMMA CapturePromised ==
  ASSUME LInv, LInv', ~Repl, NEW j, captureUpvalue(j)
  PROVE  Variables!Next
<1>1. PICK i, slot, p, new :
        /\ i = Len(frames) /\ slot = Frame.slots + j
        /\ p = FirstNotAbove(slot) /\ new = Len(upvalues) + 1
  OBVIOUS
<1>2. IInv /\ filling > 0 /\ frames # <<>> /\ j \in 1..Len(Locals) /\ Locals[j].isCaptured
  BY TopFacts DEF captureUpvalue, LInv, IInv, Fills
<1>3. PICK v : v = Locals[j].variable
  OBVIOUS
<1>4. /\ IsLocal(i, j) /\ LocalAt(i, j) = Locals[j] /\ SlotOf(i, j) = slot
      /\ upvalues \in Seq(UpvalueType) /\ Len(upvalues) \in Nat
      /\ j \in DOMAIN Locals /\ slot \in Nat
  <2>1. upvalues \in Seq(UpvalueType) /\ Len(upvalues) \in Nat
    BY <1>2, TypeFacts DEF IInv, Typed
  <2>2. /\ IsLocal(i, j) /\ LocalAt(i, j) = Locals[j] /\ SlotOf(i, j) = slot
        /\ j \in DOMAIN Locals
    BY <1>1, <1>2, TopFacts
  <2>3. slot \in Nat
    BY <1>2, <2>2, LocalSlots
  <2> QED
    BY <2>1, <2>2, <2>3
<1>5. v \in Variable /\ v \in Variables!Visible
  <2>1. Locals[j] \in LocalType
    BY <1>2, TopFacts
  <2> QED
    BY <1>2, <1>3, <1>4, <2>1, VisibleVariables DEF LocalType
<1>6. CASE p <= Len(openUpvalues) /\ Location(p) = slot
  <2>1. Fill(openUpvalues[p]) /\ UNCHANGED <<upvalues, openUpvalues>>
    BY <1>1, <1>6 DEF captureUpvalue
  <2>2. p \in 1..Len(openUpvalues)
    <3>1. p \in 1..(Len(openUpvalues) + 1) /\ Len(openUpvalues) \in Nat
      BY <1>1, <1>2, <1>4, FirstNotAboveFacts, TypeFacts
    <3> QED
      BY <1>6, <3>1
  <2>3. PICK u : u = openUpvalues[p]
    OBVIOUS
  <2>4. u \in 1..Len(upvalues) /\ u \in Nat
    BY <1>2, <2>2, <2>3, TypeFacts
  <2>5. upvalues[u].variable = v
    <3>1. PICK k, l : /\ IsLocal(k, l) /\ LocalAt(k, l).variable = upvalues[u].variable
                      /\ SlotOf(k, l) = Location(p)
      BY <1>2, <2>2, <2>3 DEF IInv, Listed
    <3>2. k = i /\ l = j
      BY <1>2, <1>4, <1>6, <3>1, SlotsDiffer
    <3> QED
      BY <1>3, <1>4, <3>1, <3>2
  <2> QED
    BY <1>2, <1>4, <1>5, <2>1, <2>3, <2>4, <2>5, FilledPromised
<1>7. CASE ~(p <= Len(openUpvalues) /\ Location(p) = slot)
  <2>1. /\ Fill(new)
        /\ upvalues' = Append(upvalues, Open(Locals[j].variable, slot))
        /\ openUpvalues' = InsertAt(openUpvalues, p, new)
    BY <1>1, <1>7 DEF captureUpvalue
  <2>2. Opens(i, j)
    BY <1>1, <1>2, <1>4, <1>7, <2>1 DEF Opens, Fill
  <2>3. /\ Len(upvalues') = new /\ new \in Nat /\ new \in 1..new /\ Len(upvalues) <= new
        /\ \A u \in 1..Len(upvalues) : upvalues'[u] = upvalues[u]
        /\ upvalues'[new] = Open(LocalAt(i, j).variable, SlotOf(i, j))
    <3>1. new \in Nat /\ new \in 1..new /\ Len(upvalues) <= new
      BY <1>1, <1>4
    <3> QED
      BY <1>1, <1>2, <2>2, <3>1, OpenTypes
  <2>4. upvalues'[new].variable = v
    BY <1>3, <1>4, <2>3 DEF Open
  <2>5. \A w \in 1..new : w \in 1..Len(upvalues) \/ w = new
    BY <1>1, <1>4
  <2>6. \A w \in 1..Len(upvalues') : w \in 1..Len(upvalues) \/
          \E k, l : IsLocal(k, l) /\ LocalAt(k, l).variable = upvalues'[w].variable
    BY <1>3, <1>4, <2>3, <2>4, <2>5
  <2> QED
    BY <1>2, <1>5, <2>1, <2>3, <2>4, <2>6, FilledPromised
<1> QED
  BY <1>6, <1>7

LEMMA InheritPromised ==
  ASSUME LInv, LInv', ~Repl, NEW k, inheritUpvalue(k)
  PROVE  Variables!Next
<1>1. /\ IInv /\ filling > 0 /\ frames # <<>> /\ k \in DOMAIN UpvaluesOf(Frame.closure)
      /\ Fill(UpvaluesOf(Frame.closure)[k]) /\ upvalues' = upvalues
  BY DEF inheritUpvalue, LInv, IInv, Fills
<1>2. PICK u : u = UpvaluesOf(Frame.closure)[k]
  OBVIOUS
<1>3. PICK v : v = upvalues[u].variable
  OBVIOUS
<1>4. u \in 1..Len(upvalues) /\ v \in Variables!Visible /\ u \in Nat
  BY <1>1, <1>2, <1>3, VisibleVariables
<1>5. v \in Variable /\ Len(upvalues) \in Nat
  BY <1>1, <1>3, <1>4, TypeFacts DEF UpvalueType
<1> QED
  BY <1>1, <1>2, <1>3, <1>4, <1>5, FilledPromised

----------------------------------------------------------------------------
(* Calls. *)

LEMMA ReturnIs ==
  ASSUME IInv, OP_RETURN, NEW k, k = Len(frames)
  PROVE  /\ frames # <<>> /\ Operands = 1 /\ k \in Nat \ {0}
         /\ Frame = frames[k] /\ Frame.slots \in Slot
         /\ frames' \in Seq(FrameType) /\ Len(frames') = k - 1
         /\ \A i \in 1..(k - 1) : frames'[i] = frames[i] /\ i \in 1..k /\ i < k
         /\ closeUpvalues(Frame.slots)
         /\ \A i, j : IsLocal(i, j)' <=> IsLocal(i, j) /\ i # k
         /\ \A i, j : IsLocal(i, j)' => /\ LocalAt(i, j)' = LocalAt(i, j)
                                        /\ SlotOf(i, j)' = SlotOf(i, j)
         /\ k = 1 => stack' = stack
         /\ k # 1 => stack' = [stack EXCEPT ![Frame.slots] = peek(0)]
                       /\ stackTop' = Frame.slots + 1
         /\ DOMAIN stack = Slot
         /\ UNCHANGED <<closures, global>>
<1>1. /\ frames # <<>> /\ Operands = 1 /\ closeUpvalues(Frame.slots)
      /\ frames' = Front(frames) /\ UNCHANGED <<closures, global>>
      /\ k = 1 => stack' = stack
      /\ k # 1 => stack' = [stack EXCEPT ![Frame.slots] = peek(0)]
                    /\ stackTop' = Frame.slots + 1
  BY DEF OP_RETURN, Running
<1>2. /\ k \in Nat \ {0} /\ Frame = frames[k] /\ k \in 1..Len(frames)
      /\ frames \in Seq(FrameType) /\ Frame.slots \in Nat /\ DOMAIN stack = Slot
      /\ Frame.slots < stackTop /\ stackTop \in 0..StackMax /\ StackMax \in Nat
  BY <1>1, TopScope, TopFacts, TypeFacts DEF IInv, Typed
<1>3. /\ frames' \in Seq(FrameType) /\ Len(frames') = k - 1
      /\ \A i \in 1..(k - 1) : frames'[i] = frames[i]
  BY <1>1, <1>2, LastAndFront
<1>4. \A i : i \in 1..(k - 1) <=> i \in 1..k /\ i # k
  BY <1>2
<1>5. Frame.slots \in Slot
  BY <1>2 DEF Slot
<1>6. \A i \in 1..(k - 1) : i < k
  BY <1>2
<1>7. \A i, j : IsLocal(i, j)' <=> IsLocal(i, j) /\ i # k
  BY <1>3, <1>4 DEF IsLocal
<1>8. \A i, j : IsLocal(i, j)' => /\ LocalAt(i, j)' = LocalAt(i, j)
                                  /\ SlotOf(i, j)' = SlotOf(i, j)
  BY <1>3 DEF IsLocal, LocalAt, SlotOf
<1> QED
  BY <1>1, <1>2, <1>3, <1>4, <1>5, <1>6, <1>7, <1>8

LEMMA ReturnKeeps ==
  ASSUME LInv, LInv', ~Repl, OP_RETURN
  PROVE  Variables!Become(Scopes', Captures, Contents)
<1>1. IInv
  BY DEF LInv
<1>2. PICK k, base : k = Len(frames) /\ base = Frame.slots
  OBVIOUS
<1>3. /\ frames # <<>> /\ k \in Nat \ {0} /\ Frame = frames[k] /\ base \in Slot
      /\ closeUpvalues(base) /\ closures' = closures
      /\ \A i, j : IsLocal(i, j)' <=> IsLocal(i, j) /\ i # k
      /\ \A i, j : IsLocal(i, j)' => /\ LocalAt(i, j)' = LocalAt(i, j)
                                     /\ SlotOf(i, j)' = SlotOf(i, j)
      /\ stack' = stack \/ stack' = [stack EXCEPT ![base] = peek(0)]
      /\ DOMAIN stack = Slot /\ k \in 1..Len(frames)
  BY <1>1, <1>2, ReturnIs, TopScope
<1>4. base \in Nat
  BY <1>3, ClosuresAssumption DEF Slot
<1>5. ASSUME NEW i, NEW j, IsLocal(i, j)'
      PROVE  stack'[SlotOf(i, j)'] = stack[SlotOf(i, j)]
  <2>1. IsLocal(i, j) /\ i # k /\ SlotOf(i, j)' = SlotOf(i, j)
    BY <1>3, <1>5
  <2>2. i \in 1..Len(frames) /\ SlotOf(i, j) \in Nat /\ SlotOf(i, j) <= TopLocal(i)
        /\ TopLocal(i) \in Nat /\ SlotOf(i, j) \in Slot
    BY <1>1, <2>1, LocalSlots
  <2>3. i < k
    BY <1>2, <1>3, <2>1, <2>2
  <2>4. TopLocal(i) < base
    BY <1>1, <1>2, <1>3, <2>2, <2>3, BelowFrame
  <2>5. SlotOf(i, j) # base
    BY <1>4, <2>2, <2>4
  <2> QED
    BY <1>3, <2>1, <2>2, <2>5
<1>6. PICK n : n = FirstBelow(base) - 1
  OBVIOUS
<1>7. /\ n \in 0..Len(openUpvalues) /\ CloseFirst(n)
      /\ \A m \in 1..Len(openUpvalues) : m \in 1..n \/ Location(m) < base
  <2>1. /\ FirstBelow(base) \in 1..(Len(openUpvalues) + 1) /\ Len(openUpvalues) \in Nat
        /\ \A m \in FirstBelow(base)..Len(openUpvalues) : Location(m) < base
    BY <1>1, <1>4, FirstBelowFacts, TypeFacts
  <2>2. PICK p : p = FirstBelow(base)
    OBVIOUS
  <2>3. \A m \in 1..Len(openUpvalues) : m \in 1..(p - 1) \/ m \in p..Len(openUpvalues)
    BY <2>1, <2>2
  <2>4. n \in 0..Len(openUpvalues) /\ n = p - 1
    BY <1>6, <2>1, <2>2
  <2> QED
    BY <1>3, <1>6, <2>1, <2>2, <2>3, <2>4 DEF closeUpvalues
<1>8. ASSUME NEW u \in 1..Len(upvalues)
      PROVE  \/ \E i, j : IsLocal(i, j)' /\ LocalAt(i, j)'.variable = upvalues[u].variable
             \/ Read(u)' = Read(u)
  <2>1. CASE /\ upvalues[u].location # CLOSED /\ upvalues'[u].location = CLOSED
             /\ upvalues'[u].closed = stack[upvalues[u].location]
    BY <2>1 DEF Read
  <2>2. CASE upvalues'[u] = upvalues[u] /\ upvalues[u].location = CLOSED
    BY <2>2 DEF Read
  <2>3. CASE upvalues'[u] = upvalues[u] /\ upvalues[u].location # CLOSED
    <3>1. PICK i, j : /\ IsLocal(i, j) /\ LocalAt(i, j).variable = upvalues[u].variable
                      /\ SlotOf(i, j) = upvalues[u].location
      BY <1>1, <1>3, <2>3, OpenIsLocal
    <3>2. i # k
      <4>1. SUFFICES ASSUME i = k PROVE FALSE
        OBVIOUS
      <4>2. SlotOf(i, j) \in Nat /\ base < SlotOf(i, j)
        BY <1>1, <1>2, <1>3, <3>1, <4>1, LocalSlots
      <4>3. PICK m \in 1..Len(openUpvalues) : openUpvalues[m] = u
        BY <1>1, <3>1 DEF IInv, Found
      <4>4. ~(Location(m) < base)
        BY <1>4, <3>1, <4>2, <4>3 DEF Location
      <4>5. upvalues'[u].location = CLOSED
        BY <1>1, <1>7, <4>3, <4>4, CloseFacts
      <4> QED
        BY <2>3, <4>5
    <3> QED
      BY <1>3, <3>1, <3>2
  <2> QED
    BY <1>1, <1>7, <2>1, <2>2, <2>3, ClosedValues
<1>9. /\ Len(upvalues') = Len(upvalues)
      /\ \A u \in 1..Len(upvalues) : upvalues'[u].variable = upvalues[u].variable
  BY <1>1, <1>7, CloseFacts
<1>10. Captures' = Captures
  BY <1>1, <1>3, <1>9, SameCaptures, TypeFacts
<1>11. \A i, j : IsLocal(i, j)' =>
         /\ IsLocal(i, j)
         /\ LocalAt(i, j)'.variable = LocalAt(i, j).variable
         /\ stack'[SlotOf(i, j)'] = stack[SlotOf(i, j)]
  BY <1>3, <1>5
<1>12. \A u \in 1..Len(upvalues') :
         \/ \E i, j : IsLocal(i, j)' /\ LocalAt(i, j)'.variable = upvalues'[u].variable
         \/ /\ u \in 1..Len(upvalues)
            /\ upvalues'[u].variable = upvalues[u].variable
            /\ Read(u)' = Read(u)
  BY <1>8, <1>9
<1> QED
  BY <1>10, <1>11, <1>12, Keeping

(* The calls below the one that returns: the caller has the result as one  *)
(* more operand.                                                           *)
LEMMA ReturnedScopes ==
  ASSUME IInv, IInv', OP_RETURN, NEW n, n = Len(frames) - 1, n # 0
  PROVE  /\ Len(Scopes) - 1 = n
         /\ Scopes' = Append(SubSeq(Scopes, 1, n - 1),
              [Scopes[n] EXCEPT !.operands = Append(@, peek(0))])
<1>1. PICK k, b : k = Len(frames) /\ b = Frame.slots
  OBVIOUS
<1>2. /\ frames # <<>> /\ Operands = 1 /\ k \in Nat \ {0} /\ Len(frames') = k - 1
      /\ Frame = frames[k] /\ b \in Slot /\ DOMAIN stack = Slot
      /\ \A i \in 1..(k - 1) : frames'[i] = frames[i] /\ i \in 1..k /\ i < k
      /\ k # 1 => stack' = [stack EXCEPT ![b] = peek(0)] /\ stackTop' = b + 1
  BY <1>1, ReturnIs
<1>3. /\ k = n + 1 /\ n \in Nat \ {0} /\ k # 1 /\ n \in 1..(k - 1)
      /\ stack' = [stack EXCEPT ![b] = peek(0)] /\ stackTop' = b + 1
      /\ b \in Nat /\ Len(frames') = n
  BY <1>1, <1>2, ClosuresAssumption DEF Slot
<1>4. /\ Scopes \in Seq(ScopeType) /\ Len(Scopes) = k
      /\ \A i \in 1..k : Scopes[i] = ScopeAt(i)
  BY <1>1, ScopesHold DEF ScopesAre
<1>5. /\ Scopes' \in Seq(ScopeType) /\ Len(Scopes') = n
      /\ \A i \in 1..n : Scopes'[i] = ScopeAt(i)'
  <2>1. ScopesAre' /\ ScopeType' = ScopeType
    BY ScopesHoldNext DEF ScopeType
  <2> QED
    BY <1>3, <2>1 DEF ScopesAre
<1>6. \A i \in 1..n : i \in 1..(k - 1) /\ i \in 1..k /\ k \in 1..k
  BY <1>3
<1>7. \A s \in Nat : s < b => stack'[s] = stack[s]
  <2>1. \A s \in Nat : s < b => s \in Slot /\ s # b
    BY <1>2, <1>3, ClosuresAssumption DEF Slot
  <2> QED
    BY <1>2, <1>3, <2>1
<1>8. ASSUME NEW i \in 1..n
      PROVE  EndOf(i) <= b /\ EndOf(i) \in Nat /\ TopLocal(i) \in Nat /\ TopLocal(i) < EndOf(i)
  BY <1>1, <1>2, <1>6, BelowFrame, EndFacts
<1>9. ASSUME NEW i \in 1..n, i # n PROVE ScopeAt(i)' = ScopeAt(i)
  <2>1. PICK m : m = i + 1
    OBVIOUS
  <2>2. m \in 1..n
    BY <1>3, <1>9, <2>1
  <2>3. EndOf(i)' = EndOf(i)
    <3>1. i \in 1..k /\ i # k /\ m \in 1..k /\ m = i + 1
      BY <1>3, <1>6, <1>9, <2>1, <2>2
    <3> QED
      BY <1>1, <1>2, <1>3, <1>6, <1>9, <2>1, <2>2, <3>1 DEF EndOf
  <2>4. Undisturbed(i)
    <3>1. \A s \in Nat : TopLocal(i) < s /\ s < EndOf(i) => s < b
      BY <1>3, <1>8
    <3> QED
      BY <1>7, <3>1 DEF Undisturbed
  <2> QED
    BY <1>1, <1>2, <1>3, <1>6, <2>3, <2>4, SameScope
<1>10. OperandsOf(n)' = Append(OperandsOf(n), peek(0))
  <2>1. PICK a, tt, x : a = TopLocal(n) /\ tt = stack' /\ x = peek(0)
    OBVIOUS
  <2>2. OperandsOf(n)' = Between(tt, a, b + 1)
    <3>1. TopLocal(n)' = TopLocal(n) /\ EndOf(n)' = b + 1
      BY <1>2, <1>3 DEF TopLocal, EndOf
    <3> QED
      BY <2>1, <3>1 DEF OperandsOf
  <2>3. EndOf(n) = b
    BY <1>1, <1>2, <1>3 DEF EndOf
  <2>4. OperandsOf(n) = Between(stack, a, b)
    BY <2>1, <2>3 DEF OperandsOf
  <2>5. tt[b] = x /\ x \in Things /\ a \in Nat /\ a < b
    <3>1. x \in Held
      BY <1>2, <2>1, PeekFacts
    <3>2. x \in Things
      BY <3>1, TypeFacts DEF Held, Things
    <3> QED
      BY <1>2, <1>3, <1>8, <2>1, <2>3, <3>2
  <2>6. ASSUME NEW s \in (a + 1)..(b - 1) PROVE stack[s] \in Things /\ tt[s] = stack[s]
    <3>1. s \in 0..(b - 1) /\ s \in Nat /\ s < b
      BY <1>3, <2>5
    <3>2. stack[s] \in Things
      BY <1>3, <1>6, <2>3, <3>1, EndFacts, <1>1
    <3> QED
      BY <1>7, <2>1, <3>1, <3>2
  <2>7. Between(tt, a, b + 1) = Append(Between(stack, a, b), tt[b])
    <3>1. a \in Nat /\ b \in Nat /\ a < b /\ tt[b] \in Things
      BY <1>3, <2>5
    <3> QED
      BY <2>6, <3>1, OneMoreBetween
  <2> QED
    BY <2>1, <2>2, <2>4, <2>5, <2>7
<1>11. PICK x : x = [function |-> frames[n].closure, vars |-> VarsOf(n),
                     operands |-> Append(OperandsOf(n), peek(0))]
  OBVIOUS
<1>12. ScopeAt(n)' = x
  <2>1. frames'[n] = frames[n]
    BY <1>2, <1>3
  <2>2. VarsOf(n)' = VarsOf(n)
    BY <2>1 DEF VarsOf, LocalAt
  <2> QED
    BY <1>10, <1>11, <2>1, <2>2 DEF ScopeAt
<1>13. [Scopes[n] EXCEPT !.operands = Append(@, peek(0))] = x
  <2>1. PICK r, f, vs, os : /\ r = Scopes[n] /\ f = frames[n].closure
                            /\ vs = VarsOf(n) /\ os = OperandsOf(n)
    OBVIOUS
  <2>2. r = [function |-> f, vars |-> vs, operands |-> os]
    BY <1>3, <1>4, <1>6, <2>1 DEF ScopeAt
  <2>3. [r EXCEPT !.operands = Append(r.operands, peek(0))]
          = [function |-> f, vars |-> vs, operands |-> Append(os, peek(0))]
    BY <2>2
  <2> QED
    BY <1>11, <2>1, <2>3
<1>14. PICK s, t, r : s = Scopes /\ t = Scopes' /\ r = SubSeq(s, 1, n - 1)
  OBVIOUS
<1>15. /\ s \in Seq(ScopeType) /\ Len(s) = n + 1
       /\ t \in Seq(ScopeType) /\ Len(t) = n
       /\ \A i \in 1..n : i # n => t[i] = s[i]
       /\ t[n] = x
  <2>1. \A i \in 1..n : i # n => t[i] = s[i]
    BY <1>4, <1>5, <1>6, <1>9, <1>14
  <2>2. t[n] = x
    BY <1>3, <1>5, <1>12, <1>14
  <2> QED
    BY <1>3, <1>4, <1>5, <1>14, <2>1, <2>2
<1>16. /\ r \in Seq(ScopeType) /\ Len(r) = n - 1
       /\ \A i \in 1..(n - 1) : r[i] = s[i]
  <2>1. \A i \in 1..(n - 1) : s[i] \in ScopeType
    <3>1. \A i \in 1..(n - 1) : i \in 1..(n + 1)
      BY <1>3
    <3> QED
      BY <1>15, <3>1, ElementOfSeq
  <2>2. PICK e : e = n - 1
    OBVIOUS
  <2>3. e \in Int /\ 1 \in Int /\ e - 1 + 1 = e /\ e = n - 1 /\ e \in Nat
    BY <1>3, <2>2
  <2>4. /\ r \in Seq(ScopeType)
        /\ Len(r) = IF 1 <= e THEN e - 1 + 1 ELSE 0
        /\ \A i \in 1..(e - 1 + 1) : r[i] = s[1 + i - 1]
    BY <1>14, <2>1, <2>3, SubSeqProperties
  <2> QED
    BY <2>3, <2>4
<1>17. x \in ScopeType
  BY <1>3, <1>15
<1>18. t = Append(r, x)
  <2>1. /\ Len(t) = Len(r) + 1 /\ t[Len(r) + 1] = x
        /\ \A i \in 1..Len(r) : t[i] = r[i]
    <3>1. \A i \in 1..(n - 1) : i \in 1..n /\ i # n
      BY <1>3
    <3> QED
      BY <1>3, <1>15, <1>16, <3>1
  <2> QED
    BY <1>15, <1>16, <1>17, <2>1, IsAppend
<1>19. Len(Scopes) - 1 = n
  BY <1>3, <1>4
<1>20. Scopes' = Append(SubSeq(Scopes, 1, n - 1), x)
  BY <1>14, <1>18
<1> QED
  BY <1>13, <1>19, <1>20

LEMMA ReturnPromised ==
  ASSUME LInv, LInv', ~Repl, OP_RETURN
  PROVE  Variables!Next
<1>1. IInv /\ IInv'
  BY DEF LInv
<1>2. PICK k, n : k = Len(frames) /\ n = Len(frames) - 1
  OBVIOUS
<1>3. /\ frames # <<>> /\ Operands = 1 /\ k \in Nat \ {0} /\ global' = global
      /\ Len(frames') = n /\ frames' \in Seq(FrameType) /\ k \in 1..Len(frames)
  BY <1>1, <1>2, ReturnIs, TopScope
<1>4. Variables!Become(Scopes', Captures, Contents)
  BY ReturnKeeps
<1>5. Len(Variables!Top.operands) = 1 /\ Variables!Operand = peek(0)
  BY <1>1, <1>2, <1>3, TopScope, Notation, TopOperand
<1>6. CASE n = 0
  <2>1. Scopes' = <<>>
    <3>1. frames' = <<>>
      BY <1>3, <1>6, EmptySeq
    <3> QED
      BY <3>1 DEF Scopes
  <2>2. Len(Scopes) - 1 = n
    BY <1>1, <1>2, <1>3, Notation
  <2>3. Variables!Return
    BY <1>3, <1>4, <1>5, <1>6, <2>1, <2>2 DEF Variables!Return
  <2> QED
    BY <1>1, <1>3, <2>3, StepIsNext DEF Variables!Step
<1>7. CASE n # 0
  <2>1. /\ Len(Scopes) - 1 = n
        /\ Scopes' = Append(SubSeq(Scopes, 1, n - 1),
             [Scopes[n] EXCEPT !.operands = Append(@, Variables!Operand)])
    BY <1>1, <1>2, <1>5, <1>7, ReturnedScopes
  <2>2. Variables!Return
    BY <1>3, <1>4, <1>5, <1>7, <2>1 DEF Variables!Return
  <2> QED
    BY <1>1, <1>3, <2>2, StepIsNext DEF Variables!Step
<1> QED
  BY <1>6, <1>7

(* A call that succeeds: the callee's frame begins at its own slot, and    *)
(* the arguments above it are the new variables vs.                        *)
Calls(n, k, base, callee, vs) ==
  /\ frames # <<>> /\ k = Len(frames) /\ k \in Nat \ {0}
  /\ n \in Nat /\ n < Operands /\ Operands \in Nat
  /\ callee = stack[base] /\ callee \in 1..Len(closures) /\ closures[callee].arity = n
  /\ vs \in [1..n -> Variable \ Living] /\ \A i, j \in 1..n : vs[i] = vs[j] => i = j
  /\ base \in Nat /\ TopLocal(k) \in Nat /\ TopLocal(k) < base
  /\ stackTop = base + n + 1 /\ base = TopLocal(k) + (Operands - n)
  /\ Len(frames') = k + 1 /\ \A i \in 1..k : frames'[i] = frames[i]
  /\ frames'[k + 1].closure = callee /\ frames'[k + 1].slots = base
  /\ Len(frames'[k + 1].locals) = n
  /\ \A j \in 1..n : frames'[k + 1].locals[j].variable = vs[j]
  /\ UNCHANGED <<stack, stackTop, closures, upvalues, global>>

LEMMA CallIs ==
  ASSUME IInv, NEW n \in 0..MaxArity, OP_CALL(n),
         NEW k, k = Len(frames), NEW base, base = stackTop - 1 - n,
         NEW callee, callee = peek(n), NEW vs, vs = Fresh(n),
         ~(callee \in Data \/ arity(callee) # n \/ k = FramesMax)
  PROVE  Calls(n, k, base, callee, vs)
<1>1. /\ frames # <<>> /\ n < Operands /\ n \in Nat
      /\ CanDeclare(n)
      /\ frames' = Append(frames, CallFrame(callee, stackTop - n - 1,
                                            [i \in 1..n |-> Local(vs[i], TRUE)]))
      /\ UNCHANGED <<stack, stackTop, closures, upvalues, global>>
  BY ClosuresAssumption, TopFacts DEF OP_CALL, Running, heap
<1>2. /\ k \in Nat \ {0} /\ frames \in Seq(FrameType)
      /\ stackTop = TopLocal(k) + 1 + Operands /\ Operands \in Nat
      /\ TopLocal(k) \in Nat /\ stackTop \in Nat
  BY <1>1, TopScope DEF IInv, Typed
<1>3. callee \in 1..Len(closures) /\ callee = stack[base]
  BY <1>1, PeekFacts, HeldFacts
<1>4. closures[callee].arity = n
  BY <1>3, TypeFacts DEF arity
<1>5. /\ base \in Nat /\ TopLocal(k) < base /\ base = stackTop - n - 1
      /\ stackTop = base + n + 1 /\ base = TopLocal(k) + (Operands - n)
  <2>1. PICK a, o, t : a = TopLocal(k) /\ o = Operands /\ t = stackTop
    OBVIOUS
  <2>2. /\ a \in Nat /\ o \in Nat /\ t = a + 1 + o /\ n < o /\ n \in Nat
        /\ base = t - 1 - n
    BY <1>1, <1>2, <2>1
  <2>3. base \in Nat /\ a < base /\ base = t - n - 1 /\ t = base + n + 1 /\ base = a + (o - n)
    BY <2>2
  <2> QED
    BY <2>1, <2>3
<1>6. /\ vs \in [1..n -> Variable \ Living]
      /\ \A i, j \in 1..n : vs[i] = vs[j] => i = j
  BY <1>1, FreshFacts
<1>7. PICK ls : ls = [i \in 1..n |-> Local(vs[i], TRUE)]
  OBVIOUS
<1>8. ls \in Seq(LocalType) /\ Len(ls) = n /\ \A j \in 1..n : ls[j].variable = vs[j]
  <2>1. ls \in [1..n -> LocalType] /\ \A j \in 1..n : ls[j].variable = vs[j]
    BY <1>6, <1>7 DEF Local, LocalType
  <2> QED
    BY <1>1, <2>1, FunctionIsSeq
<1>9. PICK f : f = CallFrame(callee, base, ls)
  OBVIOUS
<1>10. f \in FrameType /\ f.closure = callee /\ f.slots = base /\ f.locals = ls
  BY <1>3, <1>5, <1>8, <1>9, TypeFacts DEF CallFrame, FrameType
<1>11. /\ Len(frames') = k + 1
       /\ \A i \in 1..k : frames'[i] = frames[i]
       /\ frames'[k + 1] = f
  <2>1. frames' = Append(frames, f)
    BY <1>1, <1>5, <1>7, <1>9
  <2> QED
    BY <1>2, <1>10, <2>1, AppendProperties
<1> QED
  BY <1>1, <1>2, <1>3, <1>4, <1>5, <1>6, <1>8, <1>10, <1>11 DEF Calls

(* The arguments leave the caller's operands, and the callee has none yet. *)
LEMMA CalledScopes ==
  ASSUME IInv, IInv', NEW n, NEW k, NEW base, NEW callee, NEW vs,
         Calls(n, k, base, callee, vs)
  PROVE  Scopes' = Append(Variables!WithOperands(
                            SubSeq(Variables!Top.operands, 1, Operands - n - 1)),
                          Variables!Call(callee, vs))
<1>1. /\ frames # <<>> /\ k = Len(frames) /\ k \in Nat \ {0}
      /\ n \in Nat /\ n < Operands /\ Operands \in Nat
      /\ base \in Nat /\ TopLocal(k) \in Nat /\ TopLocal(k) < base
      /\ stackTop = base + n + 1 /\ base = TopLocal(k) + (Operands - n)
      /\ Len(frames') = k + 1 /\ \A i \in 1..k : frames'[i] = frames[i]
      /\ frames'[k + 1].closure = callee /\ frames'[k + 1].slots = base
      /\ Len(frames'[k + 1].locals) = n
      /\ \A j \in 1..n : frames'[k + 1].locals[j].variable = vs[j]
      /\ UNCHANGED <<stack, stackTop, closures, upvalues, global>>
      /\ vs \in [1..n -> Variable \ Living]
  BY DEF Calls
<1>2. /\ Scopes \in Seq(ScopeType) /\ Len(Scopes) = k
      /\ \A i \in 1..k : Scopes[i] = ScopeAt(i)
  BY <1>1, ScopesHold DEF ScopesAre
<1>3. /\ Scopes' \in Seq(ScopeType) /\ Len(Scopes') = k + 1
      /\ \A i \in 1..(k + 1) : Scopes'[i] = ScopeAt(i)'
  <2>1. ScopesAre' /\ ScopeType' = ScopeType
    BY ScopesHoldNext DEF ScopeType
  <2> QED
    BY <1>1, <2>1 DEF ScopesAre
<1>4. \A i \in 1..k : i \in 1..Len(frames) /\ i \in 1..Len(frames') /\ i \in 1..(k + 1)
  BY <1>1
<1>5. ASSUME NEW i \in 1..k, i # k PROVE ScopeAt(i)' = ScopeAt(i)
  <2>1. PICK m : m = i + 1
    OBVIOUS
  <2>2. m \in 1..k /\ i # k + 1
    BY <1>1, <1>5, <2>1
  <2>3. EndOf(i)' = EndOf(i)
    BY <1>1, <1>5, <2>1, <2>2 DEF EndOf
  <2> QED
    BY <1>1, <1>4, <2>3, SameScope DEF Undisturbed
<1>6. OperandsOf(k)' = SubSeq(OperandsOf(k), 1, Operands - n - 1)
  <2>1. PICK a, b, c : /\ a = TopLocal(k) /\ b = stackTop /\ c = Operands - n - 1
    OBVIOUS
  <2>2. a \in Nat /\ b \in Nat /\ a < b /\ c \in 0..(b - a - 1) /\ a + c + 1 = base
    BY <1>1, <2>1
  <2>3. OperandsOf(k) = Between(stack, a, b) /\ \A s \in (a + 1)..(b - 1) : stack[s] \in Things
    <3>1. \A s \in (a + 1)..(b - 1) : s \in 0..(b - 1)
      BY <2>2
    <3> QED
      BY <1>1, <2>1, <3>1, TopScope
  <2>4. SubSeq(Between(stack, a, b), 1, c) = Between(stack, a, a + c + 1)
    BY <2>2, <2>3, FirstBetween
  <2>5. OperandsOf(k)' = Between(stack, a, base)
    <3>1. k # k + 1 /\ k \in 1..k
      BY <1>1
    <3>2. TopLocal(k)' = a /\ EndOf(k)' = base
      BY <1>1, <2>1, <3>1 DEF TopLocal, EndOf
    <3> QED
      BY <1>1, <3>2 DEF OperandsOf
  <2> QED
    BY <2>1, <2>2, <2>3, <2>4, <2>5
<1>7. PICK os, x : /\ os = SubSeq(OperandsOf(k), 1, Operands - n - 1)
                   /\ x = [function |-> Frame.closure, vars |-> VarsOf(k), operands |-> os]
  OBVIOUS
<1>8. ScopeAt(k)' = x
  <2>1. k \in 1..k /\ frames'[k] = frames[k] /\ Frame = frames[k]
    BY <1>1, TopScope
  <2>2. VarsOf(k)' = VarsOf(k)
    BY <2>1 DEF VarsOf, LocalAt
  <2> QED
    BY <1>6, <1>7, <2>1, <2>2 DEF ScopeAt
<1>9. ScopeAt(k + 1)' = Variables!Call(callee, vs)
  <2>1. VarsOf(k + 1)' = vs
    BY <1>1 DEF VarsOf, LocalAt
  <2>2. OperandsOf(k + 1)' = <<>>
    <3>1. PICK a : a \in Nat /\ a = base + n
      BY <1>1
    <3>2. TopLocal(k + 1)' = a /\ EndOf(k + 1)' = a + 1
      BY <1>1, <3>1 DEF TopLocal, EndOf
    <3>3. OperandsOf(k + 1)' = Between(stack, a, a + 1)
      BY <1>1, <3>2 DEF OperandsOf
    <3> QED
      BY <3>1, <3>3, NothingBetween
  <2> QED
    BY <1>1, <2>1, <2>2 DEF ScopeAt, Variables!Call
<1>10. PICK s, t, r, y : /\ s = Scopes /\ t = Scopes' /\ r = [s EXCEPT ![k] = x]
                         /\ y = Variables!Call(callee, vs)
  OBVIOUS
<1>11. /\ s \in Seq(ScopeType) /\ Len(s) = k
       /\ t \in Seq(ScopeType) /\ Len(t) = k + 1
       /\ \A i \in 1..k : i # k => t[i] = s[i]
       /\ t[k] = x /\ t[k + 1] = y
  <2>1. \A i \in 1..k : i # k => t[i] = s[i]
    BY <1>2, <1>3, <1>4, <1>5, <1>10
  <2>2. k \in 1..(k + 1) /\ k + 1 \in 1..(k + 1)
    BY <1>1
  <2> QED
    BY <1>2, <1>3, <1>8, <1>9, <1>10, <2>1, <2>2
<1>12. x \in ScopeType /\ y \in ScopeType
  <2>1. k \in 1..(k + 1) /\ k + 1 \in 1..(k + 1)
    BY <1>1
  <2> QED
    BY <1>11, <2>1, ElementOfSeq
<1>13. r \in Seq(ScopeType) /\ Len(r) = k /\ \A i \in 1..k : r[i] = IF i = k THEN x ELSE s[i]
  <2>1. k \in 1..k
    BY <1>1
  <2> QED
    BY <1>10, <1>11, <1>12, <2>1, ExceptSeq
<1>14. t = Append(r, y)
  <2>1. \A i \in 1..k : t[i] = r[i]
    BY <1>11, <1>13
  <2> QED
    BY <1>11, <1>12, <1>13, <2>1, IsAppend
<1>15. Variables!WithOperands(SubSeq(Variables!Top.operands, 1, Operands - n - 1)) = r
  <2>1. Variables!Top.operands = OperandsOf(k)
    BY <1>1, Notation
  <2>2. Variables!WithOperands(os) = With(k, Frame.closure, VarsOf(k), os)
    BY <1>1, Notation
  <2> QED
    BY <1>7, <1>10, <2>1, <2>2 DEF With
<1> QED
  BY <1>10, <1>14, <1>15

LEMMA CalledArguments ==
  ASSUME IInv, NEW n, NEW k, NEW base, NEW callee, NEW vs, Calls(n, k, base, callee, vs),
         NEW os, os = Variables!Top.operands
  PROVE  /\ Len(os) = Operands
         /\ os[Operands - n] = callee
         /\ \A j \in 1..n : SubSeq(os, Operands - n + 1, Operands)[j] = stack[base + j]
<1>1. /\ frames # <<>> /\ k = Len(frames) /\ k \in Nat \ {0}
      /\ n \in Nat /\ n < Operands /\ Operands \in Nat /\ callee = stack[base]
      /\ base \in Nat /\ TopLocal(k) \in Nat /\ base = TopLocal(k) + (Operands - n)
      /\ stackTop = base + n + 1
  BY DEF Calls
<1>2. PICK a, o, b : a = TopLocal(k) /\ o = Operands /\ b = stackTop
  OBVIOUS
<1>3. /\ a \in Nat /\ o \in Nat /\ n < o /\ n \in Nat /\ base = a + (o - n)
      /\ b - a - 1 = o /\ a < b /\ b \in Nat
  BY <1>1, <1>2
<1>4. /\ os = Between(stack, a, b) /\ os \in Seq(Things) /\ Len(os) = o
      /\ \A s \in 0..(b - 1) : stack[s] \in Things
  BY <1>1, <1>2, TopScope, Notation
<1>5. \A i \in 1..o : os[i] = stack[a + i]
  BY <1>3, <1>4 DEF Between
<1>6. os[o - n] = callee
  <2>1. o - n \in 1..o /\ a + (o - n) = base
    BY <1>3
  <2> QED
    BY <1>1, <1>5, <2>1
<1>7. ASSUME NEW j \in 1..n PROVE SubSeq(os, o - n + 1, o)[j] = stack[base + j]
  <2>1. \A i \in (o - n + 1)..o : os[i] \in Things
    <3>1. \A i \in (o - n + 1)..o : i \in 1..o
      BY <1>3
    <3> QED
      BY <1>4, <3>1, ElementOfSeq
  <2>2. PICK p : p = o - n + 1
    OBVIOUS
  <2>3. p \in Int /\ o \in Int /\ o - p + 1 = n /\ p + j - 1 \in 1..o /\ a + (p + j - 1) = base + j
    BY <1>3, <2>2
  <2>4. SubSeq(os, p, o)[j] = os[p + j - 1]
    BY <2>1, <2>2, <2>3, SubSeqProperties
  <2> QED
    BY <1>5, <2>2, <2>3, <2>4
<1> QED
  BY <1>2, <1>4, <1>6, <1>7

LEMMA CalledValues ==
  ASSUME LInv, LInv', ~Repl, NEW n, NEW k, NEW base, NEW callee, NEW vs,
         Calls(n, k, base, callee, vs),
         NEW args, \A j \in 1..n : args[j] = stack[base + j]
  PROVE  Variables!Become(Scopes', Captures, Variables!Store(Contents, vs, args))
<1>1. /\ IInv /\ frames # <<>> /\ k = Len(frames) /\ k \in Nat \ {0}
      /\ n \in Nat /\ vs \in [1..n -> Variable \ Living]
      /\ \A i, j \in 1..n : vs[i] = vs[j] => i = j
      /\ Len(frames') = k + 1 /\ \A i \in 1..k : frames'[i] = frames[i]
      /\ frames'[k + 1].slots = base /\ Len(frames'[k + 1].locals) = n
      /\ \A j \in 1..n : frames'[k + 1].locals[j].variable = vs[j]
      /\ UNCHANGED <<stack, closures, upvalues, global>>
  BY DEF Calls, LInv
<1>2. PICK st : st = Variables!Store(Contents, vs, args)
  OBVIOUS
<1>3. /\ \A w \in Living : st[w] = Contents[w]
      /\ \A j \in 1..n : st[vs[j]] = stack[base + j]
  <2>1. DOMAIN Contents = Living /\ DOMAIN vs = 1..n
    BY <1>1, ContentsAre
  <2>2. \A i, j \in DOMAIN vs : vs[i] = vs[j] => i = j
    BY <1>1, <2>1
  <2>3. \A w \in Living : \A j \in DOMAIN vs : vs[j] # w
    BY <1>1, <2>1
  <2>4. PICK c : c = Contents
    OBVIOUS
  <2>5. /\ \A w \in DOMAIN c :
             (\A j \in DOMAIN vs : vs[j] # w) => Variables!Store(c, vs, args)[w] = c[w]
        /\ \A j \in DOMAIN vs : Variables!Store(c, vs, args)[vs[j]] = args[j]
    BY <2>2, StoreFacts
  <2>6. st = Variables!Store(c, vs, args)
    BY <1>2, <2>4
  <2>7. \A w \in Living : st[w] = Contents[w]
    BY <2>1, <2>3, <2>4, <2>5, <2>6
  <2>8. \A j \in 1..n : st[vs[j]] = stack[base + j]
    BY <2>1, <2>5, <2>6
  <2> QED
    BY <2>7, <2>8
<1>4. /\ \A i : i \in 1..(k + 1) <=> i \in 1..k \/ i = k + 1
      /\ k + 1 \notin 1..k
  BY <1>1
<1>5. \A i, j : IsLocal(i, j)' <=> IsLocal(i, j) \/ (i = k + 1 /\ j \in 1..n)
  BY <1>1, <1>4 DEF IsLocal
<1>6. \A i, j : IsLocal(i, j) => /\ LocalAt(i, j)' = LocalAt(i, j)
                                 /\ SlotOf(i, j)' = SlotOf(i, j)
  BY <1>1 DEF IsLocal, LocalAt, SlotOf
<1>7. ASSUME NEW i, NEW j, IsLocal(i, j)'
      PROVE  stack'[SlotOf(i, j)'] = st[LocalAt(i, j)'.variable]
  <2>1. CASE IsLocal(i, j)
    BY <1>1, <1>3, <1>6, <2>1, ContentsAre
  <2>2. CASE i = k + 1 /\ j \in 1..n
    <3>1. SlotOf(i, j)' = base + j /\ LocalAt(i, j)'.variable = vs[j]
      BY <1>1, <2>2 DEF SlotOf, LocalAt
    <3> QED
      BY <1>1, <1>3, <2>2, <3>1
  <2> QED
    BY <1>5, <1>7, <2>1, <2>2
<1>8. ASSUME NEW u \in 1..Len(upvalues)
      PROVE  \/ \E i, j : IsLocal(i, j)' /\ LocalAt(i, j)'.variable = upvalues[u].variable
             \/ Read(u)' = st[upvalues[u].variable]
  <2>1. CASE upvalues[u].location = CLOSED
    <3>1. Read(u)' = Read(u)
      BY <1>1, <2>1 DEF Read
    <3> QED
      BY <1>1, <1>3, <3>1, ContentsAre
  <2>2. CASE upvalues[u].location # CLOSED
    <3>1. PICK i, j : IsLocal(i, j) /\ LocalAt(i, j).variable = upvalues[u].variable
      BY <1>1, <2>2, OpenIsLocal
    <3> QED
      BY <1>5, <1>6, <3>1
  <2> QED
    BY <2>1, <2>2
<1>9. Variables!Become(Scopes', Captures', st)
  BY <1>1, <1>7, <1>8, Becoming
<1>10. Captures' = Captures
  BY <1>1, SameCaptures, TypeFacts
<1> QED
  BY <1>2, <1>9, <1>10

LEMMA CallPromised ==
  ASSUME LInv, LInv', ~Repl, NEW n \in 0..MaxArity, OP_CALL(n)
  PROVE  Variables!Next
<1>1. PICK k, base, callee, vs : /\ k = Len(frames) /\ base = stackTop - 1 - n
                                 /\ callee = peek(n) /\ vs = Fresh(n)
  OBVIOUS
<1>2. IInv /\ IInv' /\ frames # <<>>
  BY DEF LInv, OP_CALL, Running
<1>3. CASE callee \in Data \/ arity(callee) # n \/ k = FramesMax
  BY <1>1, <1>2, <1>3, Failed DEF OP_CALL
<1>4. CASE ~(callee \in Data \/ arity(callee) # n \/ k = FramesMax)
  <2>1. Calls(n, k, base, callee, vs)
    BY <1>1, <1>2, <1>4, CallIs
  <2>2. /\ callee \in 1..Len(closures) /\ closures[callee].arity = n
        /\ n \in Nat /\ Operands \in Nat /\ n < Operands
        /\ vs \in [1..n -> Variable \ Living]
        /\ \A i, j \in 1..n : vs[i] = vs[j] => i = j
        /\ global' = global
    BY <2>1 DEF Calls
  <2>3. vs \in Seq(Variable) /\ Len(vs) = n /\ DOMAIN vs = 1..n
    BY <2>2, FunctionIsSeq
  <2>4. PICK os, o, args : /\ os = Variables!Top.operands /\ o = Operands
                           /\ args = SubSeq(os, o - n + 1, o)
    OBVIOUS
  <2>5. /\ Len(os) = o /\ os[o - n] = callee
        /\ \A j \in 1..n : args[j] = stack[base + j]
    BY <1>2, <2>1, <2>4, CalledArguments
  <2>6. Variables!Become(Scopes', Captures, Variables!Store(Contents, vs, args))
    BY <2>1, <2>5, CalledValues
  <2>7. Scopes' = Append(Variables!WithOperands(SubSeq(os, 1, o - n - 1)),
                         Variables!Call(callee, vs))
    BY <1>2, <2>1, <2>4, CalledScopes
  <2>8. callee \in DOMAIN Captures /\ Captures[callee].arity = Len(vs)
    <3>1. DOMAIN Captures = 1..Len(closures)
      BY <1>2, TypeFacts DEF Captures
    <3>2. Captures[callee].arity = closures[callee].arity
      BY <2>2, <3>1 DEF Captures
    <3> QED
      BY <2>2, <2>3, <3>1, <3>2
  <2>9. Variables!Range(vs) \cap DOMAIN Contents = {} /\ Variables!IsInjective(vs)
    <3>1. DOMAIN Contents = Living
      BY <1>2, ContentsAre
    <3> QED
      BY <2>2, <2>3, <3>1 DEF Variables!Range, Variables!IsInjective
  <2>10. o - n >= 1
    BY <2>2, <2>4
  <2>11. Variables!Apply(vs)
    BY <2>2, <2>3, <2>4, <2>5, <2>6, <2>7, <2>8, <2>9, <2>10 DEF Variables!Apply
  <2>12. vs \in Variables!Parameters
    <3>1. vs \in [1..n -> Variable]
      BY <2>2
    <3> QED
      BY <3>1 DEF Variables!Parameters
  <2> QED
    BY <1>2, <2>11, <2>12, StepIsNext DEF Variables!Step
<1> QED
  BY <1>3, <1>4

----------------------------------------------------------------------------
(* The stack machine does what the language promises.                      *)

LEMMA InitPromised == Init => Variables!Init
<1> SUFFICES ASSUME Init PROVE Variables!Init
  OBVIOUS
<1>1. frames = <<>> /\ closures = <<>> /\ upvalues = <<>> /\ global = UNDEFINED
  BY DEF Init
<1>2. Scopes = <<>> /\ Captures = <<>>
  BY <1>1 DEF Scopes, Captures
<1>3. Living = {}
  <2>1. Range(frames) = {} /\ Range(upvalues) = {}
    BY <1>1 DEF Range
  <2> QED
    BY <2>1 DEF Living
<1>4. Contents = [v \in {} |-> UNDEFINED]
  BY <1>3 DEF Contents
<1> QED
  BY <1>1, <1>2, <1>4 DEF Variables!Init

LEMMA NextPromised ==
  ASSUME LInv, LInv', ~Repl, [Next]_vars
  PROVE  Variables!Next \/ UNCHANGED Variables!lexicalVars
<1>1. CASE interpret
  BY <1>1, InterpretPromised
<1>2. ASSUME NEW v \in Data, OP_CONSTANT(v) PROVE Variables!Next
  BY <1>2, ConstantPromised
<1>3. ASSUME NEW j \in Slot, OP_GET_LOCAL(j) \/ OP_SET_LOCAL(j) \/ captureUpvalue(j)
      PROVE  Variables!Next
  BY <1>3, GetLocalPromised, SetLocalPromised, CapturePromised
<1>4. ASSUME NEW k \in 1..MaxUpvalues,
             OP_GET_UPVALUE(k) \/ OP_SET_UPVALUE(k) \/ inheritUpvalue(k)
      PROVE  Variables!Next
  BY <1>4, GetUpvaluePromised, SetUpvaluePromised, InheritPromised
<1>5. CASE OP_POP
  BY <1>5, PopPromised
<1>6. CASE OP_GET_GLOBAL
  BY <1>6, GetGlobalPromised
<1>7. CASE OP_DEFINE_GLOBAL
  BY <1>7, DefineGlobalPromised
<1>8. CASE OP_SET_GLOBAL
  BY <1>8, SetGlobalPromised
<1>9. CASE WrongOperand
  BY <1>9, WrongOperandPromised
<1>10. ASSUME NEW isCaptured \in BOOLEAN, defineVariable(isCaptured) PROVE Variables!Next
  BY <1>10, DefineVariablePromised
<1>11. CASE OP_CLOSE_UPVALUE
  BY <1>11, CloseUpvaluePromised
<1>12. CASE OP_POP_LOCAL
  BY <1>12, PopLocalPromised
<1>13. ASSUME NEW n \in 0..MaxArity, NEW count \in 0..MaxUpvalues, OP_CLOSURE(n, count)
       PROVE  Variables!Next
  BY <1>13, ClosurePromised
<1>14. ASSUME NEW n \in 0..MaxArity, NEW count \in 0..MaxUpvalues,
              NEW isCaptured \in BOOLEAN, OP_CLOSURE_LOCAL(n, count, isCaptured)
       PROVE  Variables!Next
  BY <1>14, ClosureLocalPromised
<1>15. ASSUME NEW n \in 0..MaxArity, OP_CALL(n) PROVE Variables!Next
  BY <1>15, CallPromised
<1>16. CASE OP_RETURN
  BY <1>16, ReturnPromised
<1>17. CASE UNCHANGED vars
  <2>1. UNCHANGED <<stack, stackTop, frames, closures, upvalues>> /\ global' = global
    BY <1>17 DEF vars
  <2>2. UNCHANGED <<Scopes, Captures, Contents>>
    BY <2>1, SameMeaning
  <2> QED
    BY <2>1, <2>2 DEF Variables!lexicalVars
<1> QED
  BY <1>1, <1>2, <1>3, <1>4, <1>5, <1>6, <1>7, <1>8, <1>9, <1>10, <1>11, <1>12, <1>13,
     <1>14, <1>15, <1>16, <1>17 DEF Next, Instruction

(* ImplementsLexical: in a script from a file, slots, upvalues and their   *)
(* closing (vm.c, captureUpvalue, closeUpvalues and the instructions on    *)
(* variables) are not to be told from variables that live as long as       *)
(* anything can name them.                                                 *)
THEOREM ClosuresImplementLexical ==
  ASSUME ~Repl
  PROVE  Spec => ImplementsLexical
<1>1. LInv /\ LInv' /\ [Next]_vars => [Variables!Next]_(Variables!lexicalVars)
  BY NextPromised
<1> QED
  BY <1>1, InitPromised, AlwaysLInv, PTL DEF Spec, ImplementsLexical, Variables!Spec
=============================================================================
