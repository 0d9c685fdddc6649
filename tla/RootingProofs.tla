--------------------------- MODULE RootingProofs ---------------------------
(***************************************************************************)
(* Whatever the program, and whichever allocations collect, no function of *)
(* the interpreter goes on with an object that was freed under it.         *)
(*                                                                         *)
(* At each place of each function the invariant says what its C variables  *)
(* hold and by which root they are kept.                                   *)
(***************************************************************************)
EXTENDS Rooting, FiniteSetTheorems, SequenceTheorems, NaturalsInduction,
        WellFoundedInduction, TLAPS

----------------------------------------------------------------------------
(* The heap.                                                               *)

Live == DOMAIN heap \cup {0}

IsObject(h) == h = [type |-> h.type, refs |-> h.refs]
IsField(f)  == f = <<f[1], f[2]>>

(* What an object refers to is there, keys of tables included, and what    *)
(* the machine takes for granted of each type.                             *)
ObjectOK(a) ==
  /\ IsObject(heap[a]) /\ \A f \in DOMAIN heap[a].refs : IsField(f)
  /\ \A f \in DOMAIN heap[a].refs : /\ heap[a].refs[f] \in Live
                                    /\ f[1] \in Tables => f[2] \in DOMAIN heap
  /\ Is(a, "closure")  => Has(a, "function", 0) /\ Ref(a, "function", 0) # 0
  /\ Is(a, "instance") => Has(a, "class", 0) /\ Ref(a, "class", 0) # 0
  /\ Is(a, "bound")    => Has(a, "method", 0) /\ Is(Ref(a, "method", 0), "closure")
  /\ \A k : Has(a, "methods", k) => Is(Ref(a, "methods", k), "closure")
  /\ \A k : Has(a, "upvalues", k) => Ref(a, "upvalues", k) # 0

HeapOK ==
  /\ DOMAIN heap \subseteq Nat \ {0} /\ IsFiniteSet(DOMAIN heap)
  /\ \A a \in DOMAIN heap : ObjectOK(a)

RootsOK ==
  /\ stack \in Seq(Nat) /\ ToSet(stack) \subseteq Live
  /\ frames \in Seq([closure : Nat, slots : Nat \ {0}])
  /\ \A f \in ToSet(frames) : f.closure \in DOMAIN heap /\ Is(f.closure, "closure")
  /\ frames # <<>> => frames[1].slots = 1
  /\ \A u \in openUpvalues : u.at \in DOMAIN heap /\ u.location \in 1..Len(stack)
  /\ DOMAIN globals \cup Range(globals) \subseteq Live
  /\ compilers \in Seq(Nat) /\ ToSet(compilers) \subseteq DOMAIN heap
  /\ initString \in Live /\ strings \subseteq DOMAIN heap

---------------------------------------------------------------------------
(* Reachability: to be in every set that has the roots and is closed under *)
(* the references.                                                         *)

IsClosed(C) == \A a \in C \cap DOMAIN heap : References(heap[a]) \subseteq C
Reaches(x)  == \A C \in SUBSET Nat : Roots \subseteq C /\ IsClosed(C) => x \in C
Kept(x)     == x = 0 \/ Reaches(x)

LEMMA ToSetIs ==
  /\ \A s : ToSet(s) = {s[i] : i \in DOMAIN s}
  /\ \A s : Range(s) = {s[i] : i \in DOMAIN s}
BY DEF ToSet, Range

LEMMA ReferencesLive ==
  ASSUME HeapOK, NEW a \in DOMAIN heap
  PROVE  References(heap[a]) \subseteq DOMAIN heap
<1>1. ObjectOK(a)
  BY DEF HeapOK
<1>2. \A f \in DOMAIN heap[a].refs : heap[a].refs[f] \in Live
  BY <1>1 DEF ObjectOK
<1>3. \A f \in DOMAIN heap[a].refs : f[1] \in Tables => f[2] \in DOMAIN heap
  BY <1>1 DEF ObjectOK
<1> QED
  BY <1>2, <1>3 DEF References, Keys, Range, Live

LEMMA RootsLive ==
  ASSUME HeapOK, RootsOK
  PROVE  Roots \subseteq DOMAIN heap
BY DEF HeapOK, RootsOK, Roots, Live

(* A set of natural numbers has a least element.                           *)
LEMMA Least ==
  ASSUME NEW T, T \subseteq Nat, T # {}
  PROVE  \E m \in T : \A n \in T : m <= n
<1>1. PICK m \in T : \A n \in T : <<n, m>> \notin OpToRel(<, Nat)
  BY WFMin, NatLessThanWellFounded
<1>2. \A n \in T : ~(n < m)
  BY <1>1 DEF OpToRel
<1> QED
  BY <1>2

(* The marking of traceReferences ends, with a set that is closed.         *)
After(m) == m \cup UNION {References(heap[a]) : a \in m \cap DOMAIN heap}

LEMMA TracedIs ==
  ASSUME HeapOK
  PROVE  \A m \in SUBSET Nat : Traced[m] = IF After(m) = m THEN m ELSE Traced[After(m)]
<1> DEFINE Next1(m) == m \cup UNION {References(heap[a]) : a \in m \cap DOMAIN heap}
           Least1(m) == {x \in Nat : \A C \in SUBSET Nat : m \subseteq C /\ IsClosed(C) => x \in C}
           f == [m \in SUBSET Nat |-> Least1(m)]
<1>1. ASSUME NEW m \in SUBSET Nat
      PROVE  /\ Next1(m) \in SUBSET Nat
             /\ Next1(m) = m => Least1(m) = m
             /\ Least1(Next1(m)) = Least1(m)
  <2>1. \A a \in DOMAIN heap : References(heap[a]) \subseteq Nat
    BY ReferencesLive DEF HeapOK
  <2>2. Next1(m) \in SUBSET Nat
    BY <2>1
  <2>3. Next1(m) = m => IsClosed(m)
    BY DEF IsClosed
  <2>4. Next1(m) = m => Least1(m) = m
    BY <2>3
  <2>5. \A C \in SUBSET Nat : m \subseteq C /\ IsClosed(C) <=> Next1(m) \subseteq C /\ IsClosed(C)
    BY DEF IsClosed
  <2>6. Least1(Next1(m)) = Least1(m)
    BY <2>5
  <2> QED
    BY <2>2, <2>4, <2>6
<1>2. f = [m \in SUBSET Nat |-> IF Next1(m) = m THEN m ELSE f[Next1(m)]]
  <2>1. \A m \in SUBSET Nat : f[m] = IF Next1(m) = m THEN m ELSE f[Next1(m)]
    BY <1>1
  <2> QED
    BY <2>1
<1>3. \E g : g = [m \in SUBSET Nat |-> IF Next1(m) = m THEN m ELSE g[Next1(m)]]
  BY <1>2
<1>4. Traced = [m \in SUBSET Nat |-> IF Next1(m) = m THEN m ELSE Traced[Next1(m)]]
  BY <1>3 DEF Traced
<1> QED
  BY <1>4 DEF After

LEMMA TracedReaches ==
  ASSUME HeapOK
  PROVE  \A m \in SUBSET DOMAIN heap :
           /\ m \subseteq Traced[m] /\ Traced[m] \subseteq DOMAIN heap
           /\ IsClosed(Traced[m])
<1> DEFINE Good(m) == /\ m \subseteq Traced[m] /\ Traced[m] \subseteq DOMAIN heap
                      /\ IsClosed(Traced[m])
           Left(m) == Cardinality(DOMAIN heap \ m)
<1>1. \A m \in SUBSET DOMAIN heap : Left(m) \in Nat
  BY FS_Subset, FS_CardinalityType DEF HeapOK
<1>2. ASSUME NEW m \in SUBSET DOMAIN heap
      PROVE  /\ After(m) \in SUBSET DOMAIN heap
             /\ After(m) = m => IsClosed(m)
             /\ After(m) # m => Left(After(m)) < Left(m)
  <2>1. After(m) \in SUBSET DOMAIN heap /\ m \subseteq After(m)
    BY ReferencesLive DEF After
  <2>2. After(m) = m => IsClosed(m)
    BY DEF After, IsClosed
  <2>3. ASSUME After(m) # m PROVE Left(After(m)) < Left(m)
    <3>1. PICK S, T : S = DOMAIN heap \ After(m) /\ T = DOMAIN heap \ m
      OBVIOUS
    <3>2. S \subseteq T /\ S # T
      BY <2>1, <2>3, <3>1
    <3>3. IsFiniteSet(T)
      BY <3>1, FS_Subset DEF HeapOK
    <3>4. IsFiniteSet(S) /\ Cardinality(S) <= Cardinality(T) /\ Cardinality(S) # Cardinality(T)
      BY <3>2, <3>3, FS_Subset
    <3>5. Cardinality(S) \in Nat /\ Cardinality(T) \in Nat
      BY <3>3, <3>4, FS_CardinalityType
    <3> QED
      BY <3>1, <3>4, <3>5
  <2> QED
    BY <2>1, <2>2, <2>3
<1> SUFFICES ASSUME NEW z \in SUBSET DOMAIN heap, ~Good(z) PROVE FALSE
  OBVIOUS
<1>3. PICK T : T = {n \in Nat : \E m \in SUBSET DOMAIN heap : ~Good(m) /\ Left(m) = n}
  OBVIOUS
<1>4. T \subseteq Nat /\ Left(z) \in T
  BY <1>1, <1>3
<1>5. PICK n \in T : \A k \in T : n <= k
  BY <1>4, Least
<1>6. PICK m \in SUBSET DOMAIN heap : ~Good(m) /\ Left(m) = n
  BY <1>3
<1>7. m \in SUBSET Nat
  BY DEF HeapOK
<1>8. CASE After(m) = m
  <2>1. Traced[m] = m
    BY <1>7, <1>8, TracedIs
  <2> QED
    BY <1>2, <1>6, <1>8, <2>1
<1>9. CASE After(m) # m
  <2>1. After(m) \in SUBSET DOMAIN heap /\ Left(After(m)) < Left(m)
    BY <1>2, <1>9
  <2>2. Left(After(m)) \in Nat /\ Left(m) \in Nat
    BY <1>1, <2>1
  <2>3. Left(After(m)) \notin T
    BY <1>5, <1>6, <2>1, <2>2
  <2>4. Good(After(m))
    BY <1>3, <2>1, <2>2, <2>3
  <2>5. Traced[m] = Traced[After(m)]
    BY <1>7, <1>9, TracedIs
  <2>6. m \subseteq After(m)
    BY DEF After
  <2> QED
    BY <1>6, <2>4, <2>5, <2>6
<1> QED
  BY <1>8, <1>9

LEMMA ReachableIs ==
  ASSUME HeapOK, RootsOK
  PROVE  /\ Roots \subseteq Reachable /\ Reachable \subseteq DOMAIN heap
         /\ IsClosed(Reachable)
BY RootsLive, TracedReaches DEF Reachable

LEMMA ReachesIs ==
  ASSUME HeapOK, RootsOK
  PROVE  \A x : Reaches(x) => x \in Reachable
<1>1. Reachable \in SUBSET Nat
  BY ReachableIs DEF HeapOK
<1> QED
  BY <1>1, ReachableIs DEF Reaches

(* What is reachable, as the functions come to it.                         *)
LEMMA RootReaches ==
  ASSUME HeapOK, RootsOK
  PROVE  /\ \A x \in ToSet(stack) : Kept(x)
         /\ \A f \in ToSet(frames) : Reaches(f.closure)
         /\ \A u \in openUpvalues : Reaches(u.at)
         /\ \A x \in DOMAIN globals \cup Range(globals) : Kept(x)
         /\ \A x \in ToSet(compilers) : Reaches(x)
         /\ Kept(initString)
<1>1. \A x \in Roots : Reaches(x)
  BY DEF Reaches
<1>2. \A f \in ToSet(frames) : f.closure # 0
  BY DEF RootsOK, HeapOK
<1>3. \A u \in openUpvalues : u.at # 0
  BY DEF RootsOK, HeapOK
<1>4. \A x \in ToSet(compilers) : x # 0
  BY DEF RootsOK, HeapOK
<1> QED
  BY <1>1, <1>2, <1>3, <1>4 DEF Kept, Roots

LEMMA ReferenceReaches ==
  ASSUME NEW a, Reaches(a), NEW name, NEW key, Has(a, name, key), HeapOK, a \in DOMAIN heap
  PROVE  Kept(Ref(a, name, key)) /\ (name \in Tables => Kept(key))
<1>1. ASSUME NEW x \in References(heap[a]) PROVE Reaches(x)
  BY <1>1 DEF Reaches, IsClosed
<1>2. Ref(a, name, key) \in Range(heap[a].refs)
  BY DEF Ref, Has, Range
<1>3. name \in Tables => key \in Keys(heap[a])
  <2>1. PICK f : f = <<name, key>>
    OBVIOUS
  <2>2. f \in DOMAIN heap[a].refs /\ f[1] = name /\ f[2] = key
    BY <2>1 DEF Has
  <2> QED
    BY <2>2 DEF Keys
<1> QED
  BY <1>1, <1>2, <1>3 DEF References, Kept

---------------------------------------------------------------------------
(* The code of a function: a step, and the steps that follow it.           *)

Then(s, K) == <<s>> \o K

IsCode(K) == K \in Seq(Range(K)) /\ "" \notin Wanted(K)
Named(v)  == v # ""

LEMMA ThenSeq ==
  ASSUME NEW s, NEW K, K \in Seq(Range(K))
  PROVE  /\ Then(s, K) \in Seq(Range(Then(s, K))) /\ Then(s, K) # <<>>
         /\ Head(Then(s, K)) = s /\ Tail(Then(s, K)) = K
         /\ DOMAIN Then(s, K) = 1..(Len(K) + 1) /\ Len(K) \in Nat /\ DOMAIN K = 1..Len(K)
         /\ Then(s, K)[1] = s /\ \A i \in 1..Len(K) : Then(s, K)[i + 1] = K[i]
<1>1. PICK S : S = Range(K) \cup {s}
  OBVIOUS
<1>2. K \in Seq(S) /\ <<s>> \in Seq(S) /\ Len(<<s>>) = 1 /\ <<s>>[1] = s
  BY <1>1, ToSetIs
<1>3. PICK T : T = Then(s, K)
  OBVIOUS
<1>4. T \in Seq(S) /\ Len(T) = 1 + Len(K) /\ Len(K) \in Nat
  BY <1>2, <1>3 DEF Then
<1>5. T[1] = s /\ \A i \in 1..Len(K) : T[i + 1] = K[i]
  BY <1>2, <1>3, <1>4 DEF Then
<1>6. DOMAIN T = 1..(Len(K) + 1) /\ DOMAIN K = 1..Len(K)
  BY <1>2, <1>4
<1>7. T \in Seq(Range(T))
  BY <1>4, <1>6, ToSetIs, IsASeq, LenProperties
<1>8. T # <<>> /\ Head(T) = s
  BY <1>4, <1>5
<1>9. Tail(T) = K
  <2>1. Tail(T) \in Seq(S) /\ Len(Tail(T)) = Len(K)
    BY <1>4, <1>8
  <2>2. \A i \in 1..Len(K) : Tail(T)[i] = K[i]
    BY <1>4, <1>5, <1>8
  <2> QED
    BY <1>2, <2>1, <2>2, SeqEqual
<1> QED
  BY <1>3, <1>4, <1>5, <1>6, <1>7, <1>8, <1>9

LEMMA NoCode == IsCode(<<>>) /\ Wanted(<<>>) = {}
<1>1. <<>> \in Seq(Range(<<>>)) /\ DOMAIN <<>> = {}
  BY ToSetIs
<1> QED
  BY <1>1 DEF IsCode, Wanted

LEMMA WantedThen ==
  ASSUME NEW s, NEW K, K \in Seq(Range(K))
  PROVE  Wanted(Then(s, K)) = ToSet(s.of) \cup (Wanted(K) \ {s.gets})
<1>1. PICK T : T = Then(s, K)
  OBVIOUS
<1>2. /\ DOMAIN T = 1..(Len(K) + 1) /\ Len(K) \in Nat /\ DOMAIN K = 1..Len(K)
      /\ T[1] = s /\ \A i \in 1..Len(K) : T[i + 1] = K[i]
  BY <1>1, ThenSeq
<1>3. \A steps, v : v \in Wanted(steps) <=>
        \E i \in DOMAIN steps : /\ v \in ToSet(steps[i].of)
                                /\ \A j \in 1..(i - 1) : steps[j].gets # v
  <2>1. \A steps : \A i \in DOMAIN steps : steps[i] \in ToSet(steps)
    BY ToSetIs
  <2> QED
    BY <2>1 DEF Wanted
<1>4. ASSUME NEW v, v \in Wanted(T) PROVE v \in ToSet(s.of) \cup (Wanted(K) \ {s.gets})
  <2>1. PICK i \in DOMAIN T : v \in ToSet(T[i].of) /\ \A j \in 1..(i - 1) : T[j].gets # v
    BY <1>3, <1>4
  <2>2. CASE i = 1
    BY <1>2, <2>1, <2>2
  <2>3. CASE i # 1
    <3>1. i \in Nat /\ i - 1 \in 1..Len(K) /\ (i - 1) + 1 = i
      BY <1>2, <2>3
    <3>2. K[i - 1] = T[i] /\ T[1].gets # v
      BY <1>2, <2>1, <3>1
    <3>3. \A j \in 1..((i - 1) - 1) : j \in 1..Len(K) /\ j + 1 \in 1..(i - 1)
      BY <1>2, <3>1
    <3>4. \A j \in 1..((i - 1) - 1) : K[j].gets # v
      BY <1>2, <2>1, <3>3
    <3>5. v \in Wanted(K)
      BY <1>2, <1>3, <2>1, <3>1, <3>2, <3>4
    <3> QED
      BY <1>2, <3>2, <3>5
  <2> QED
    BY <2>2, <2>3
<1>5. ASSUME NEW v, v \in ToSet(s.of) PROVE v \in Wanted(T)
  <2>1. 1 \in DOMAIN T /\ T[1] = s /\ \A j \in 1..(1 - 1) : FALSE
    BY <1>2
  <2> QED
    BY <1>3, <1>5, <2>1
<1>6. ASSUME NEW v, v \in Wanted(K), v # s.gets PROVE v \in Wanted(T)
  <2>1. PICK i \in DOMAIN K : v \in ToSet(K[i].of) /\ \A j \in 1..(i - 1) : K[j].gets # v
    BY <1>3, <1>6
  <2>2. i + 1 \in DOMAIN T /\ T[i + 1] = K[i] /\ i \in 1..Len(K)
    BY <1>2
  <2>3. ASSUME NEW j \in 1..((i + 1) - 1) PROVE T[j].gets # v
    <3>1. CASE j = 1
      BY <1>2, <1>6, <3>1
    <3>2. CASE j # 1
      <4>1. j - 1 \in 1..(i - 1) /\ j - 1 \in 1..Len(K) /\ (j - 1) + 1 = j
        BY <1>2, <2>2, <3>2
      <4> QED
        BY <1>2, <2>1, <4>1
    <3> QED
      BY <3>1, <3>2
  <2> QED
    BY <1>3, <2>1, <2>2, <2>3
<1> QED
  BY <1>1, <1>4, <1>5, <1>6

LEMMA ThenIs ==
  ASSUME NEW s, NEW K, IsCode(K)
  PROVE  /\ Then(s, K) # <<>> /\ Head(Then(s, K)) = s /\ Tail(Then(s, K)) = K
         /\ Wanted(Then(s, K)) = ToSet(s.of) \cup (Wanted(K) \ {s.gets})
         /\ "" \notin ToSet(s.of) => IsCode(Then(s, K))
BY ThenSeq, WantedThen DEF IsCode

LEMMA ToSets ==
  /\ ToSet(<<>>) = {}
  /\ \A a : ToSet(<<a>>) = {a}
  /\ \A a, b : ToSet(<<a, b>>) = {a, b}
  /\ \A a, b, c : ToSet(<<a, b, c>>) = {a, b, c}
BY DEF ToSet

LEMMA ToSetOfThree ==
  ASSUME NEW a, NEW b, NEW c
  PROVE  ToSet(<<a, b, c>>) = {a, b, c}
<1>1. PICK t : t = <<a, b, c>>
  OBVIOUS
<1>2. DOMAIN t = 1..3 /\ t[1] = a /\ t[2] = b /\ t[3] = c
  BY <1>1
<1> QED
  BY <1>1, <1>2, ToSetIs

LEMMA Items ==
  /\ \A a : <<a>>[1] = a
  /\ \A a, b : <<a, b>>[1] = a /\ <<a, b>>[2] = b
  /\ \A a, b, c : <<a, b, c>>[1] = a /\ <<a, b, c>>[2] = b /\ <<a, b, c>>[3] = c
OBVIOUS

LEMMA EmptyJoined ==
  ASSUME NEW K, K \in Seq(Range(K))
  PROVE  <<>> \o K = K
BY ConcatEmptySeq

LEMMA ThenJoined ==
  ASSUME NEW s, NEW K, NEW L, K \in Seq(Range(K)), L \in Seq(Range(L))
  PROVE  Then(s, K) \o L = Then(s, K \o L)
<1>1. PICK S : S = Range(K) \cup Range(L) \cup {s}
  OBVIOUS
<1>2. K \in Seq(S) /\ L \in Seq(S) /\ <<s>> \in Seq(S)
  BY <1>1, ToSetIs
<1> QED
  BY <1>2, ConcatAssociative DEF Then

(* Tuples of steps, and what follows them.                                 *)
LEMMA OneTuple ==
  ASSUME NEW a
  PROVE  <<a>> = Then(a, <<>>)
<1>1. PICK S : S = {a}
  OBVIOUS
<1>2. /\ <<a>> \in Seq(S) /\ <<a>> \in Seq(S) /\ <<>> \in Seq(S)
      /\ Len(<<a>>) = 1 /\ Len(<<>>) = 0 /\ Len(<<a>>) = 1
  BY <1>1
<1> QED
  BY <1>2 DEF Then

LEMMA OneCode ==
  ASSUME NEW a
  PROVE  <<a>> \in Seq(Range(<<a>>))
<1>1. PICK r : r = <<>>
  OBVIOUS
<1>2. r \in Seq(Range(r))
  BY <1>1, NoCode DEF IsCode
<1>3. Then(a, r) \in Seq(Range(Then(a, r)))
  BY <1>2, ThenSeq
<1>4. <<a>> = Then(a, r)
  BY <1>1, OneTuple
<1> QED
  BY <1>3, <1>4

LEMMA OneSteps ==
  ASSUME NEW a,
         NEW K, K \in Seq(Range(K))
  PROVE  <<a>> \o K = Then(a, K)
<1>1. PICK r : r = <<>>
  OBVIOUS
<1>2. r \in Seq(Range(r))
  BY <1>1, NoCode DEF IsCode
<1>3. Then(a, r) \o K = Then(a, r \o K)
  BY <1>2, ThenJoined
<1>4. <<>> \o K = K
  BY EmptyJoined
<1>5. <<a>> = Then(a, r)
  BY <1>1, OneTuple
<1> QED
  BY <1>1, <1>3, <1>4, <1>5

LEMMA TwoTuple ==
  ASSUME NEW a, NEW b
  PROVE  <<a, b>> = Then(a, <<b>>)
<1>1. PICK S : S = {a, b}
  OBVIOUS
<1>2. PICK s, t : s = <<a>> /\ t = <<b>>
  OBVIOUS
<1>3. s \in Seq(S) /\ t \in Seq(S) /\ Len(s) = 1 /\ Len(t) = 1 /\ s[1] = a /\ t[1] = b
  BY <1>1, <1>2
<1>4. PICK u : u = s \o t
  OBVIOUS
<1>5. /\ u \in Seq(S) /\ Len(u) = 1 + 1
      /\ \A i \in 1..(1 + 1) : u[i] = IF i <= 1 THEN s[i] ELSE t[i - 1]
  BY <1>3, <1>4, ConcatProperties
<1>6. u[1] = a /\ u[2] = b /\ Len(u) = 2
  BY <1>3, <1>5
<1>7. u = <<a, b>>
  BY <1>5, <1>6
<1> QED
  BY <1>2, <1>4, <1>7 DEF Then

LEMMA TwoCode ==
  ASSUME NEW a, NEW b
  PROVE  <<a, b>> \in Seq(Range(<<a, b>>))
<1>1. PICK r : r = <<b>>
  OBVIOUS
<1>2. r \in Seq(Range(r))
  BY <1>1, OneCode
<1>3. Then(a, r) \in Seq(Range(Then(a, r)))
  BY <1>2, ThenSeq
<1>4. <<a, b>> = Then(a, r)
  BY <1>1, TwoTuple
<1> QED
  BY <1>3, <1>4

LEMMA TwoSteps ==
  ASSUME NEW a, NEW b,
         NEW K, K \in Seq(Range(K))
  PROVE  <<a, b>> \o K = Then(a, Then(b, K))
<1>1. PICK r : r = <<b>>
  OBVIOUS
<1>2. r \in Seq(Range(r))
  BY <1>1, OneCode
<1>3. Then(a, r) \o K = Then(a, r \o K)
  BY <1>2, ThenJoined
<1>4. <<b>> \o K = Then(b, K)
  BY OneSteps
<1>5. <<a, b>> = Then(a, r)
  BY <1>1, TwoTuple
<1> QED
  BY <1>1, <1>3, <1>4, <1>5

LEMMA ThreeTuple ==
  ASSUME NEW a, NEW b, NEW c
  PROVE  <<a, b, c>> = Then(a, <<b, c>>)
<1>1. PICK S : S = {a, b, c}
  OBVIOUS
<1>2. /\ <<a, b, c>> \in Seq(S) /\ <<a>> \in Seq(S) /\ <<b, c>> \in Seq(S)
      /\ Len(<<a, b, c>>) = 3 /\ Len(<<b, c>>) = 2 /\ Len(<<a>>) = 1
  BY <1>1
<1> QED
  BY <1>2 DEF Then

LEMMA ThreeCode ==
  ASSUME NEW a, NEW b, NEW c
  PROVE  <<a, b, c>> \in Seq(Range(<<a, b, c>>))
<1>1. PICK r : r = <<b, c>>
  OBVIOUS
<1>2. r \in Seq(Range(r))
  BY <1>1, TwoCode
<1>3. Then(a, r) \in Seq(Range(Then(a, r)))
  BY <1>2, ThenSeq
<1>4. <<a, b, c>> = Then(a, r)
  BY <1>1, ThreeTuple
<1> QED
  BY <1>3, <1>4

LEMMA ThreeSteps ==
  ASSUME NEW a, NEW b, NEW c,
         NEW K, K \in Seq(Range(K))
  PROVE  <<a, b, c>> \o K = Then(a, Then(b, Then(c, K)))
<1>1. PICK r : r = <<b, c>>
  OBVIOUS
<1>2. r \in Seq(Range(r))
  BY <1>1, TwoCode
<1>3. Then(a, r) \o K = Then(a, r \o K)
  BY <1>2, ThenJoined
<1>4. <<b, c>> \o K = Then(b, Then(c, K))
  BY TwoSteps
<1>5. <<a, b, c>> = Then(a, r)
  BY <1>1, ThreeTuple
<1> QED
  BY <1>1, <1>3, <1>4, <1>5

LEMMA FourTuple ==
  ASSUME NEW a, NEW b, NEW c, NEW d
  PROVE  <<a, b, c, d>> = Then(a, <<b, c, d>>)
<1>1. PICK S : S = {a, b, c, d}
  OBVIOUS
<1>2. /\ <<a, b, c, d>> \in Seq(S) /\ <<a>> \in Seq(S) /\ <<b, c, d>> \in Seq(S)
      /\ Len(<<a, b, c, d>>) = 4 /\ Len(<<b, c, d>>) = 3 /\ Len(<<a>>) = 1
  BY <1>1
<1> QED
  BY <1>2 DEF Then

LEMMA FourCode ==
  ASSUME NEW a, NEW b, NEW c, NEW d
  PROVE  <<a, b, c, d>> \in Seq(Range(<<a, b, c, d>>))
<1>1. PICK r : r = <<b, c, d>>
  OBVIOUS
<1>2. r \in Seq(Range(r))
  BY <1>1, ThreeCode
<1>3. Then(a, r) \in Seq(Range(Then(a, r)))
  BY <1>2, ThenSeq
<1>4. <<a, b, c, d>> = Then(a, r)
  BY <1>1, FourTuple
<1> QED
  BY <1>3, <1>4

LEMMA FourSteps ==
  ASSUME NEW a, NEW b, NEW c, NEW d,
         NEW K, K \in Seq(Range(K))
  PROVE  <<a, b, c, d>> \o K = Then(a, Then(b, Then(c, Then(d, K))))
<1>1. PICK r : r = <<b, c, d>>
  OBVIOUS
<1>2. r \in Seq(Range(r))
  BY <1>1, ThreeCode
<1>3. Then(a, r) \o K = Then(a, r \o K)
  BY <1>2, ThenJoined
<1>4. <<b, c, d>> \o K = Then(b, Then(c, Then(d, K)))
  BY ThreeSteps
<1>5. <<a, b, c, d>> = Then(a, r)
  BY <1>1, FourTuple
<1> QED
  BY <1>1, <1>3, <1>4, <1>5

LEMMA FiveTuple ==
  ASSUME NEW a, NEW b, NEW c, NEW d, NEW e
  PROVE  <<a, b, c, d, e>> = Then(a, <<b, c, d, e>>)
<1>1. PICK S : S = {a, b, c, d, e}
  OBVIOUS
<1>2. /\ <<a, b, c, d, e>> \in Seq(S) /\ <<a>> \in Seq(S) /\ <<b, c, d, e>> \in Seq(S)
      /\ Len(<<a, b, c, d, e>>) = 5 /\ Len(<<b, c, d, e>>) = 4 /\ Len(<<a>>) = 1
  BY <1>1
<1> QED
  BY <1>2 DEF Then

LEMMA FiveCode ==
  ASSUME NEW a, NEW b, NEW c, NEW d, NEW e
  PROVE  <<a, b, c, d, e>> \in Seq(Range(<<a, b, c, d, e>>))
<1>1. PICK r : r = <<b, c, d, e>>
  OBVIOUS
<1>2. r \in Seq(Range(r))
  BY <1>1, FourCode
<1>3. Then(a, r) \in Seq(Range(Then(a, r)))
  BY <1>2, ThenSeq
<1>4. <<a, b, c, d, e>> = Then(a, r)
  BY <1>1, FiveTuple
<1> QED
  BY <1>3, <1>4

LEMMA FiveSteps ==
  ASSUME NEW a, NEW b, NEW c, NEW d, NEW e,
         NEW K, K \in Seq(Range(K))
  PROVE  <<a, b, c, d, e>> \o K = Then(a, Then(b, Then(c, Then(d, Then(e, K)))))
<1>1. PICK r : r = <<b, c, d, e>>
  OBVIOUS
<1>2. r \in Seq(Range(r))
  BY <1>1, FourCode
<1>3. Then(a, r) \o K = Then(a, r \o K)
  BY <1>2, ThenJoined
<1>4. <<b, c, d, e>> \o K = Then(b, Then(c, Then(d, Then(e, K))))
  BY FourSteps
<1>5. <<a, b, c, d, e>> = Then(a, r)
  BY <1>1, FiveTuple
<1> QED
  BY <1>1, <1>3, <1>4, <1>5

LEMMA SixTuple ==
  ASSUME NEW a, NEW b, NEW c, NEW d, NEW e, NEW f
  PROVE  <<a, b, c, d, e, f>> = Then(a, <<b, c, d, e, f>>)
<1>1. PICK S : S = {a, b, c, d, e, f}
  OBVIOUS
<1>2. /\ <<a, b, c, d, e, f>> \in Seq(S) /\ <<a>> \in Seq(S) /\ <<b, c, d, e, f>> \in Seq(S)
      /\ Len(<<a, b, c, d, e, f>>) = 6 /\ Len(<<b, c, d, e, f>>) = 5 /\ Len(<<a>>) = 1
  BY <1>1
<1> QED
  BY <1>2 DEF Then

LEMMA SixCode ==
  ASSUME NEW a, NEW b, NEW c, NEW d, NEW e, NEW f
  PROVE  <<a, b, c, d, e, f>> \in Seq(Range(<<a, b, c, d, e, f>>))
<1>1. PICK r : r = <<b, c, d, e, f>>
  OBVIOUS
<1>2. r \in Seq(Range(r))
  BY <1>1, FiveCode
<1>3. Then(a, r) \in Seq(Range(Then(a, r)))
  BY <1>2, ThenSeq
<1>4. <<a, b, c, d, e, f>> = Then(a, r)
  BY <1>1, SixTuple
<1> QED
  BY <1>3, <1>4

LEMMA SixSteps ==
  ASSUME NEW a, NEW b, NEW c, NEW d, NEW e, NEW f,
         NEW K, K \in Seq(Range(K))
  PROVE  <<a, b, c, d, e, f>> \o K = Then(a, Then(b, Then(c, Then(d, Then(e, Then(f, K))))))
<1>1. PICK r : r = <<b, c, d, e, f>>
  OBVIOUS
<1>2. r \in Seq(Range(r))
  BY <1>1, FiveCode
<1>3. Then(a, r) \o K = Then(a, r \o K)
  BY <1>2, ThenJoined
<1>4. <<b, c, d, e, f>> \o K = Then(b, Then(c, Then(d, Then(e, Then(f, K)))))
  BY FiveSteps
<1>5. <<a, b, c, d, e, f>> = Then(a, r)
  BY <1>1, SixTuple
<1> QED
  BY <1>1, <1>3, <1>4, <1>5

LEMMA SevenTuple ==
  ASSUME NEW a, NEW b, NEW c, NEW d, NEW e, NEW f, NEW g
  PROVE  <<a, b, c, d, e, f, g>> = Then(a, <<b, c, d, e, f, g>>)
<1>1. PICK S : S = {a, b, c, d, e, f, g}
  OBVIOUS
<1>2. /\ <<a, b, c, d, e, f, g>> \in Seq(S) /\ <<a>> \in Seq(S) /\ <<b, c, d, e, f, g>> \in Seq(S)
      /\ Len(<<a, b, c, d, e, f, g>>) = 7 /\ Len(<<b, c, d, e, f, g>>) = 6 /\ Len(<<a>>) = 1
  BY <1>1
<1> QED
  BY <1>2 DEF Then

LEMMA SevenCode ==
  ASSUME NEW a, NEW b, NEW c, NEW d, NEW e, NEW f, NEW g
  PROVE  <<a, b, c, d, e, f, g>> \in Seq(Range(<<a, b, c, d, e, f, g>>))
<1>1. PICK r : r = <<b, c, d, e, f, g>>
  OBVIOUS
<1>2. r \in Seq(Range(r))
  BY <1>1, SixCode
<1>3. Then(a, r) \in Seq(Range(Then(a, r)))
  BY <1>2, ThenSeq
<1>4. <<a, b, c, d, e, f, g>> = Then(a, r)
  BY <1>1, SevenTuple
<1> QED
  BY <1>3, <1>4

LEMMA SevenSteps ==
  ASSUME NEW a, NEW b, NEW c, NEW d, NEW e, NEW f, NEW g,
         NEW K, K \in Seq(Range(K))
  PROVE  <<a, b, c, d, e, f, g>> \o K = Then(a, Then(b, Then(c, Then(d, Then(e, Then(f, Then(g, K)))))))
<1>1. PICK r : r = <<b, c, d, e, f, g>>
  OBVIOUS
<1>2. r \in Seq(Range(r))
  BY <1>1, SixCode
<1>3. Then(a, r) \o K = Then(a, r \o K)
  BY <1>2, ThenJoined
<1>4. <<b, c, d, e, f, g>> \o K = Then(b, Then(c, Then(d, Then(e, Then(f, Then(g, K))))))
  BY SixSteps
<1>5. <<a, b, c, d, e, f, g>> = Then(a, r)
  BY <1>1, SevenTuple
<1> QED
  BY <1>1, <1>3, <1>4, <1>5

LEMMA EightTuple ==
  ASSUME NEW a, NEW b, NEW c, NEW d, NEW e, NEW f, NEW g, NEW h
  PROVE  <<a, b, c, d, e, f, g, h>> = Then(a, <<b, c, d, e, f, g, h>>)
<1>1. PICK S : S = {a, b, c, d, e, f, g, h}
  OBVIOUS
<1>2. /\ <<a, b, c, d, e, f, g, h>> \in Seq(S) /\ <<a>> \in Seq(S) /\ <<b, c, d, e, f, g, h>> \in Seq(S)
      /\ Len(<<a, b, c, d, e, f, g, h>>) = 8 /\ Len(<<b, c, d, e, f, g, h>>) = 7 /\ Len(<<a>>) = 1
  BY <1>1
<1> QED
  BY <1>2 DEF Then

LEMMA EightCode ==
  ASSUME NEW a, NEW b, NEW c, NEW d, NEW e, NEW f, NEW g, NEW h
  PROVE  <<a, b, c, d, e, f, g, h>> \in Seq(Range(<<a, b, c, d, e, f, g, h>>))
<1>1. PICK r : r = <<b, c, d, e, f, g, h>>
  OBVIOUS
<1>2. r \in Seq(Range(r))
  BY <1>1, SevenCode
<1>3. Then(a, r) \in Seq(Range(Then(a, r)))
  BY <1>2, ThenSeq
<1>4. <<a, b, c, d, e, f, g, h>> = Then(a, r)
  BY <1>1, EightTuple
<1> QED
  BY <1>3, <1>4

LEMMA EightSteps ==
  ASSUME NEW a, NEW b, NEW c, NEW d, NEW e, NEW f, NEW g, NEW h,
         NEW K, K \in Seq(Range(K))
  PROVE  <<a, b, c, d, e, f, g, h>> \o K = Then(a, Then(b, Then(c, Then(d, Then(e, Then(f, Then(g, Then(h, K))))))))
<1>1. PICK r : r = <<b, c, d, e, f, g, h>>
  OBVIOUS
<1>2. r \in Seq(Range(r))
  BY <1>1, SevenCode
<1>3. Then(a, r) \o K = Then(a, r \o K)
  BY <1>2, ThenJoined
<1>4. <<b, c, d, e, f, g, h>> \o K = Then(b, Then(c, Then(d, Then(e, Then(f, Then(g, Then(h, K)))))))
  BY SevenSteps
<1>5. <<a, b, c, d, e, f, g, h>> = Then(a, r)
  BY <1>1, EightTuple
<1> QED
  BY <1>1, <1>3, <1>4, <1>5

LEMMA NineTuple ==
  ASSUME NEW a, NEW b, NEW c, NEW d, NEW e, NEW f, NEW g, NEW h, NEW i
  PROVE  <<a, b, c, d, e, f, g, h, i>> = Then(a, <<b, c, d, e, f, g, h, i>>)
<1>1. PICK S : S = {a, b, c, d, e, f, g, h, i}
  OBVIOUS
<1>2. /\ <<a, b, c, d, e, f, g, h, i>> \in Seq(S) /\ <<a>> \in Seq(S) /\ <<b, c, d, e, f, g, h, i>> \in Seq(S)
      /\ Len(<<a, b, c, d, e, f, g, h, i>>) = 9 /\ Len(<<b, c, d, e, f, g, h, i>>) = 8 /\ Len(<<a>>) = 1
  BY <1>1
<1> QED
  BY <1>2 DEF Then

LEMMA NineCode ==
  ASSUME NEW a, NEW b, NEW c, NEW d, NEW e, NEW f, NEW g, NEW h, NEW i
  PROVE  <<a, b, c, d, e, f, g, h, i>> \in Seq(Range(<<a, b, c, d, e, f, g, h, i>>))
<1>1. PICK r : r = <<b, c, d, e, f, g, h, i>>
  OBVIOUS
<1>2. r \in Seq(Range(r))
  BY <1>1, EightCode
<1>3. Then(a, r) \in Seq(Range(Then(a, r)))
  BY <1>2, ThenSeq
<1>4. <<a, b, c, d, e, f, g, h, i>> = Then(a, r)
  BY <1>1, NineTuple
<1> QED
  BY <1>3, <1>4

LEMMA NineSteps ==
  ASSUME NEW a, NEW b, NEW c, NEW d, NEW e, NEW f, NEW g, NEW h, NEW i,
         NEW K, K \in Seq(Range(K))
  PROVE  <<a, b, c, d, e, f, g, h, i>> \o K = Then(a, Then(b, Then(c, Then(d, Then(e, Then(f, Then(g, Then(h, Then(i, K)))))))))
<1>1. PICK r : r = <<b, c, d, e, f, g, h, i>>
  OBVIOUS
<1>2. r \in Seq(Range(r))
  BY <1>1, EightCode
<1>3. Then(a, r) \o K = Then(a, r \o K)
  BY <1>2, ThenJoined
<1>4. <<b, c, d, e, f, g, h, i>> \o K = Then(b, Then(c, Then(d, Then(e, Then(f, Then(g, Then(h, Then(i, K))))))))
  BY EightSteps
<1>5. <<a, b, c, d, e, f, g, h, i>> = Then(a, r)
  BY <1>1, NineTuple
<1> QED
  BY <1>1, <1>3, <1>4, <1>5

(* What a step wants, and then K.                                          *)
LEMMA ArrayCode ==
  ASSUME NEW K, IsCode(K)
  PROVE  IsCode(Then(Array, K)) /\ Wanted(Then(Array, K)) = Wanted(K)
<1>1. PICK s : s = Array
  OBVIOUS
<1>2. s.of = <<>> /\ s.gets = ""
  BY <1>1 DEF Step, Array
<1>3. ToSet(<<>>) = {}
  BY ToSets
<1>4. ToSet(s.of) = {} /\ "" \notin ToSet(s.of)
  BY <1>2, <1>3
<1>5. IsCode(Then(s, K)) /\ Wanted(Then(s, K)) = {} \cup (Wanted(K) \ {s.gets})
  BY <1>4, ThenIs
<1>6. "" \notin Wanted(K)
  BY DEF IsCode
<1> QED
  BY <1>1, <1>2, <1>5, <1>6

LEMMA PopCode ==
  ASSUME NEW K, IsCode(K)
  PROVE  IsCode(Then(Pop, K)) /\ Wanted(Then(Pop, K)) = Wanted(K)
<1>1. PICK s : s = Pop
  OBVIOUS
<1>2. s.of = <<>> /\ s.gets = ""
  BY <1>1 DEF Step, Pop
<1>3. ToSet(<<>>) = {}
  BY ToSets
<1>4. ToSet(s.of) = {} /\ "" \notin ToSet(s.of)
  BY <1>2, <1>3
<1>5. IsCode(Then(s, K)) /\ Wanted(Then(s, K)) = {} \cup (Wanted(K) \ {s.gets})
  BY <1>4, ThenIs
<1>6. "" \notin Wanted(K)
  BY DEF IsCode
<1> QED
  BY <1>1, <1>2, <1>5, <1>6

LEMMA PushCode ==
  ASSUME NEW K, IsCode(K), NEW v, v # ""
  PROVE  IsCode(Then(Push(v), K)) /\ Wanted(Then(Push(v), K)) = {v} \cup Wanted(K)
<1>1. PICK s : s = Push(v)
  OBVIOUS
<1>2. s.of = <<v>> /\ s.gets = ""
  BY <1>1 DEF Step, Push
<1>3. ToSet(<<v>>) = {v}
  BY ToSets
<1>4. ToSet(s.of) = {v} /\ "" \notin ToSet(s.of)
  BY <1>2, <1>3
<1>5. IsCode(Then(s, K)) /\ Wanted(Then(s, K)) = {v} \cup (Wanted(K) \ {s.gets})
  BY <1>4, ThenIs
<1>6. "" \notin Wanted(K)
  BY DEF IsCode
<1> QED
  BY <1>1, <1>2, <1>5, <1>6

LEMMA AllocateCode ==
  ASSUME NEW K, IsCode(K), NEW t
  PROVE  IsCode(Then(Allocate(t, <<>>), K)) /\ Wanted(Then(Allocate(t, <<>>), K)) = Wanted(K) \ {t}
<1>1. PICK s : s = Allocate(t, <<>>)
  OBVIOUS
<1>2. s.of = <<>> /\ s.gets = t
  BY <1>1 DEF Step, Allocate
<1>3. ToSet(<<>>) = {}
  BY ToSets
<1>4. ToSet(s.of) = {} /\ "" \notin ToSet(s.of)
  BY <1>2, <1>3
<1>5. IsCode(Then(s, K)) /\ Wanted(Then(s, K)) = {} \cup (Wanted(K) \ {s.gets})
  BY <1>4, ThenIs
<1>6. "" \notin Wanted(K)
  BY DEF IsCode
<1> QED
  BY <1>1, <1>2, <1>5, <1>6

LEMMA AllocateOfCode ==
  ASSUME NEW K, IsCode(K), NEW t, NEW v, v # ""
  PROVE  IsCode(Then(Allocate(t, <<v>>), K)) /\ Wanted(Then(Allocate(t, <<v>>), K)) = {v} \cup (Wanted(K) \ {t})
<1>1. PICK s : s = Allocate(t, <<v>>)
  OBVIOUS
<1>2. s.of = <<v>> /\ s.gets = t
  BY <1>1 DEF Step, Allocate
<1>3. ToSet(<<v>>) = {v}
  BY ToSets
<1>4. ToSet(s.of) = {v} /\ "" \notin ToSet(s.of)
  BY <1>2, <1>3
<1>5. IsCode(Then(s, K)) /\ Wanted(Then(s, K)) = {v} \cup (Wanted(K) \ {s.gets})
  BY <1>4, ThenIs
<1>6. "" \notin Wanted(K)
  BY DEF IsCode
<1> QED
  BY <1>1, <1>2, <1>5, <1>6

LEMMA AllocateOfTwoCode ==
  ASSUME NEW K, IsCode(K), NEW t, NEW v, NEW w, Named(v), Named(w)
  PROVE  IsCode(Then(Allocate(t, <<v, w>>), K)) /\ Wanted(Then(Allocate(t, <<v, w>>), K)) = {v, w} \cup (Wanted(K) \ {t})
<1>1. PICK s : s = Allocate(t, <<v, w>>)
  OBVIOUS
<1>2. s.of = <<v, w>> /\ s.gets = t
  BY <1>1 DEF Step, Allocate
<1>3. ToSet(<<v, w>>) = {v, w}
  BY ToSets
<1>4. ToSet(s.of) = {v, w} /\ "" \notin ToSet(s.of)
  BY <1>2, <1>3 DEF Named
<1>5. IsCode(Then(s, K)) /\ Wanted(Then(s, K)) = {v, w} \cup (Wanted(K) \ {s.gets})
  BY <1>4, ThenIs
<1>6. "" \notin Wanted(K)
  BY DEF IsCode
<1> QED
  BY <1>1, <1>2, <1>5, <1>6

LEMMA PeekCode ==
  ASSUME NEW K, IsCode(K), NEW n, NEW v
  PROVE  IsCode(Then(Peek(n, v), K)) /\ Wanted(Then(Peek(n, v), K)) = Wanted(K) \ {v}
<1>1. PICK s : s = Peek(n, v)
  OBVIOUS
<1>2. s.of = <<>> /\ s.gets = v
  BY <1>1 DEF Step, Peek
<1>3. ToSet(<<>>) = {}
  BY ToSets
<1>4. ToSet(s.of) = {} /\ "" \notin ToSet(s.of)
  BY <1>2, <1>3
<1>5. IsCode(Then(s, K)) /\ Wanted(Then(s, K)) = {} \cup (Wanted(K) \ {s.gets})
  BY <1>4, ThenIs
<1>6. "" \notin Wanted(K)
  BY DEF IsCode
<1> QED
  BY <1>1, <1>2, <1>5, <1>6

LEMMA PokeCode ==
  ASSUME NEW K, IsCode(K), NEW n, NEW v, v # ""
  PROVE  IsCode(Then(Poke(n, v), K)) /\ Wanted(Then(Poke(n, v), K)) = {v} \cup Wanted(K)
<1>1. PICK s : s = Poke(n, v)
  OBVIOUS
<1>2. s.of = <<v>> /\ s.gets = ""
  BY <1>1 DEF Step, Poke
<1>3. ToSet(<<v>>) = {v}
  BY ToSets
<1>4. ToSet(s.of) = {v} /\ "" \notin ToSet(s.of)
  BY <1>2, <1>3
<1>5. IsCode(Then(s, K)) /\ Wanted(Then(s, K)) = {v} \cup (Wanted(K) \ {s.gets})
  BY <1>4, ThenIs
<1>6. "" \notin Wanted(K)
  BY DEF IsCode
<1> QED
  BY <1>1, <1>2, <1>5, <1>6

LEMMA CallCode ==
  ASSUME NEW K, IsCode(K), NEW v, NEW n, v # ""
  PROVE  IsCode(Then(Call(v, n), K)) /\ Wanted(Then(Call(v, n), K)) = {v} \cup Wanted(K)
<1>1. PICK s : s = Call(v, n)
  OBVIOUS
<1>2. s.of = <<v>> /\ s.gets = ""
  BY <1>1 DEF Step, Call
<1>3. ToSet(<<v>>) = {v}
  BY ToSets
<1>4. ToSet(s.of) = {v} /\ "" \notin ToSet(s.of)
  BY <1>2, <1>3
<1>5. IsCode(Then(s, K)) /\ Wanted(Then(s, K)) = {v} \cup (Wanted(K) \ {s.gets})
  BY <1>4, ThenIs
<1>6. "" \notin Wanted(K)
  BY DEF IsCode
<1> QED
  BY <1>1, <1>2, <1>5, <1>6

LEMMA ReadCode ==
  ASSUME NEW K, IsCode(K), NEW v, v # ""
  PROVE  IsCode(Then(Read(<<v>>), K)) /\ Wanted(Then(Read(<<v>>), K)) = {v} \cup Wanted(K)
<1>1. PICK s : s = Read(<<v>>)
  OBVIOUS
<1>2. s.of = <<v>> /\ s.gets = ""
  BY <1>1 DEF Step, Read
<1>3. ToSet(<<v>>) = {v}
  BY ToSets
<1>4. ToSet(s.of) = {v} /\ "" \notin ToSet(s.of)
  BY <1>2, <1>3
<1>5. IsCode(Then(s, K)) /\ Wanted(Then(s, K)) = {v} \cup (Wanted(K) \ {s.gets})
  BY <1>4, ThenIs
<1>6. "" \notin Wanted(K)
  BY DEF IsCode
<1> QED
  BY <1>1, <1>2, <1>5, <1>6

LEMMA ReadTwoCode ==
  ASSUME NEW K, IsCode(K), NEW v, NEW w, v # "", w # ""
  PROVE  IsCode(Then(Read(<<v, w>>), K)) /\ Wanted(Then(Read(<<v, w>>), K)) = {v, w} \cup Wanted(K)
<1>1. PICK s : s = Read(<<v, w>>)
  OBVIOUS
<1>2. s.of = <<v, w>> /\ s.gets = ""
  BY <1>1 DEF Step, Read
<1>3. ToSet(<<v, w>>) = {v, w}
  BY ToSets
<1>4. ToSet(s.of) = {v, w} /\ "" \notin ToSet(s.of)
  BY <1>2, <1>3
<1>5. IsCode(Then(s, K)) /\ Wanted(Then(s, K)) = {v, w} \cup (Wanted(K) \ {s.gets})
  BY <1>4, ThenIs
<1>6. "" \notin Wanted(K)
  BY DEF IsCode
<1> QED
  BY <1>1, <1>2, <1>5, <1>6

LEMMA SetGlobalCode ==
  ASSUME NEW K, IsCode(K), NEW v, NEW w, v # "", w # ""
  PROVE  IsCode(Then(SetGlobal(v, w), K)) /\ Wanted(Then(SetGlobal(v, w), K)) = {v, w} \cup Wanted(K)
<1>1. PICK s : s = SetGlobal(v, w)
  OBVIOUS
<1>2. s.of = <<v, w>> /\ s.gets = ""
  BY <1>1 DEF Step, SetGlobal
<1>3. ToSet(<<v, w>>) = {v, w}
  BY ToSets
<1>4. ToSet(s.of) = {v, w} /\ "" \notin ToSet(s.of)
  BY <1>2, <1>3
<1>5. IsCode(Then(s, K)) /\ Wanted(Then(s, K)) = {v, w} \cup (Wanted(K) \ {s.gets})
  BY <1>4, ThenIs
<1>6. "" \notin Wanted(K)
  BY DEF IsCode
<1> QED
  BY <1>1, <1>2, <1>5, <1>6

LEMMA SetEntryCode ==
  ASSUME NEW K, IsCode(K), NEW u, NEW t, NEW v, NEW w, Named(u), Named(v), Named(w)
  PROVE  IsCode(Then(SetEntry(u, t, v, w), K)) /\ Wanted(Then(SetEntry(u, t, v, w), K)) = {u, v, w} \cup Wanted(K)
<1>1. PICK s : s = SetEntry(u, t, v, w)
  OBVIOUS
<1>2. s.of = <<u, v, w>> /\ s.gets = ""
  BY <1>1 DEF Step, SetEntry
<1>3. ToSet(<<u, v, w>>) = {u, v, w}
  BY ToSetOfThree
<1>4. ToSet(s.of) = {u, v, w} /\ "" \notin ToSet(s.of)
  BY <1>2, <1>3 DEF Named
<1>5. IsCode(Then(s, K)) /\ Wanted(Then(s, K)) = {u, v, w} \cup (Wanted(K) \ {s.gets})
  BY <1>4, ThenIs
<1>6. "" \notin Wanted(K)
  BY DEF IsCode
<1> QED
  BY <1>1, <1>2, <1>5, <1>6

LEMMA FindCode ==
  ASSUME NEW K, IsCode(K), NEW n
  PROVE  IsCode(Then(FindOr(n), K)) /\ Wanted(Then(FindOr(n), K)) = Wanted(K) \ {"string"}
<1>1. PICK s : s = FindOr(n)
  OBVIOUS
<1>2. s.of = <<>> /\ s.gets = "string"
  BY <1>1 DEF Step, FindOr
<1>3. ToSet(<<>>) = {}
  BY ToSets
<1>4. ToSet(s.of) = {} /\ "" \notin ToSet(s.of)
  BY <1>2, <1>3
<1>5. IsCode(Then(s, K)) /\ Wanted(Then(s, K)) = {} \cup (Wanted(K) \ {s.gets})
  BY <1>4, ThenIs
<1>6. "" \notin Wanted(K)
  BY DEF IsCode
<1> QED
  BY <1>1, <1>2, <1>5, <1>6

LEMMA GetsCode ==
  ASSUME NEW K, IsCode(K), NEW t, NEW n
  PROVE  IsCode(Then(Step(t, <<>>, n), K)) /\ Wanted(Then(Step(t, <<>>, n), K)) = Wanted(K) \ {n}
<1>1. PICK s : s = Step(t, <<>>, n)
  OBVIOUS
<1>2. s.of = <<>> /\ s.gets = n
  BY <1>1 DEF Step
<1>3. ToSet(<<>>) = {}
  BY ToSets
<1>4. ToSet(s.of) = {} /\ "" \notin ToSet(s.of)
  BY <1>2, <1>3
<1>5. IsCode(Then(s, K)) /\ Wanted(Then(s, K)) = {} \cup (Wanted(K) \ {s.gets})
  BY <1>4, ThenIs
<1>6. "" \notin Wanted(K)
  BY DEF IsCode
<1> QED
  BY <1>1, <1>2, <1>5, <1>6

LEMMA OfCode ==
  ASSUME NEW K, IsCode(K), NEW t, NEW v, v # ""
  PROVE  IsCode(Then(Step(t, <<v>>, ""), K)) /\ Wanted(Then(Step(t, <<v>>, ""), K)) = {v} \cup Wanted(K)
<1>1. PICK s : s = Step(t, <<v>>, "")
  OBVIOUS
<1>2. s.of = <<v>> /\ s.gets = ""
  BY <1>1 DEF Step
<1>3. ToSet(<<v>>) = {v}
  BY ToSets
<1>4. ToSet(s.of) = {v} /\ "" \notin ToSet(s.of)
  BY <1>2, <1>3
<1>5. IsCode(Then(s, K)) /\ Wanted(Then(s, K)) = {v} \cup (Wanted(K) \ {s.gets})
  BY <1>4, ThenIs
<1>6. "" \notin Wanted(K)
  BY DEF IsCode
<1> QED
  BY <1>1, <1>2, <1>5, <1>6

---------------------------------------------------------------------------
(* What a step does.                                                       *)

LocalsOK ==
  /\ locals = [v \in Wanted(todo) |-> locals[v]]
  /\ \A v \in Wanted(todo) : locals[v] \in Live

Consistent == HeapOK /\ RootsOK /\ LocalsOK

(* Nothing that a C variable holds would be collected.                     *)
Held == \A v \in DOMAIN locals : Kept(locals[v])

(* The variables go on to K, and x has the value a.                        *)
Passes(K, x, a) ==
  /\ todo' = K
  /\ locals' = [v \in Wanted(K) |-> IF v = x THEN a ELSE locals[v]]
  /\ \A v \in Wanted(K) : v = x \/ v \in DOMAIN locals

LEMMA At1 ==
  ASSUME NEW s, NEW K, IsCode(K), todo = Then(s, K), LocalsOK
  PROVE  /\ todo # <<>> /\ first = s /\ Tail(todo) = K
         /\ \A v \in ToSet(s.of) : v \in DOMAIN locals /\ locals[v] \in Live
         /\ DOMAIN locals = ToSet(s.of) \cup (Wanted(K) \ {s.gets})
<1>1. todo # <<>> /\ first = s /\ Tail(todo) = K
  BY ThenIs DEF first
<1>2. Wanted(todo) = ToSet(s.of) \cup (Wanted(K) \ {s.gets})
  BY ThenIs
<1>3. DOMAIN locals = Wanted(todo) /\ \A v \in Wanted(todo) : locals[v] \in Live
  BY DEF LocalsOK
<1> QED
  BY <1>1, <1>2, <1>3

LEMMA Operand ==
  ASSUME NEW s, NEW K, IsCode(K), todo = Then(s, K), LocalsOK, NEW u, s.of = <<u>>
  PROVE  first = s /\ At(1) = locals[u] /\ u \in DOMAIN locals /\ locals[u] \in Live
<1>1. first = s /\ \A v \in ToSet(s.of) : v \in DOMAIN locals /\ locals[v] \in Live
  BY At1
<1>2. u \in ToSet(s.of)
  BY ToSets
<1>3. At(1) = locals[u]
  BY <1>1, Items DEF At
<1> QED
  BY <1>1, <1>2, <1>3

LEMMA TwoOperands ==
  ASSUME NEW s, NEW K, IsCode(K), todo = Then(s, K), LocalsOK, NEW u, NEW w, s.of = <<u, w>>
  PROVE  /\ first = s /\ At(1) = locals[u] /\ At(2) = locals[w]
         /\ u \in DOMAIN locals /\ locals[u] \in Live
         /\ w \in DOMAIN locals /\ locals[w] \in Live
<1>1. first = s /\ \A v \in ToSet(s.of) : v \in DOMAIN locals /\ locals[v] \in Live
  BY At1
<1>2. u \in ToSet(s.of) /\ w \in ToSet(s.of)
  BY ToSets
<1>3. At(1) = locals[u] /\ At(2) = locals[w]
  BY <1>1, Items DEF At
<1> QED
  BY <1>1, <1>2, <1>3

LEMMA ThreeOperands ==
  ASSUME NEW s, NEW K, IsCode(K), todo = Then(s, K), LocalsOK,
         NEW t, NEW u, NEW w, s.of = <<t, u, w>>
  PROVE  /\ first = s /\ At(1) = locals[t] /\ At(2) = locals[u] /\ At(3) = locals[w]
         /\ t \in DOMAIN locals /\ locals[t] \in Live
         /\ u \in DOMAIN locals /\ locals[u] \in Live
         /\ w \in DOMAIN locals /\ locals[w] \in Live
<1>1. first = s /\ \A v \in ToSet(s.of) : v \in DOMAIN locals /\ locals[v] \in Live
  BY At1
<1>2. t \in ToSet(s.of) /\ u \in ToSet(s.of) /\ w \in ToSet(s.of)
  BY ToSets
<1>3. At(1) = locals[t] /\ At(2) = locals[u] /\ At(3) = locals[w]
  BY <1>1, Items DEF At
<1> QED
  BY <1>1, <1>2, <1>3

LEMMA GoesIs ==
  ASSUME NEW s, NEW K, IsCode(K), todo = Then(s, K), LocalsOK, s.gets = "", Goes
  PROVE  Passes(K, "", 0)
BY At1 DEF Goes, Continue, Passes, IsCode

LEMMA GoesWithIs ==
  ASSUME NEW s, NEW K, IsCode(K), todo = Then(s, K), LocalsOK,
         NEW a, GoesWith(a)
  PROVE  Passes(K, s.gets, a)
<1>1. first = s /\ Tail(todo) = K /\ DOMAIN locals = ToSet(s.of) \cup (Wanted(K) \ {s.gets})
  BY At1
<1>2. todo' = K /\ locals' = [v \in Wanted(K) |-> With(locals, s.gets, a)[v]]
  BY <1>1 DEF GoesWith, Continue
<1>3. \A v \in Wanted(K) : v \in DOMAIN locals \cup {s.gets}
  BY <1>1
<1>4. \A v \in Wanted(K) : With(locals, s.gets, a)[v] = IF v = s.gets THEN a ELSE locals[v]
  BY <1>3 DEF With
<1> QED
  BY <1>2, <1>3, <1>4 DEF Passes

LEMMA PassesLocals ==
  ASSUME NEW K, NEW x, NEW a, LocalsOK, Passes(K, x, a), a \in Live', Live \subseteq Live'
  PROVE  LocalsOK'
<1>1. \A v \in DOMAIN locals : locals[v] \in Live
  BY DEF LocalsOK
<1>2. todo' = K /\ locals' = [v \in Wanted(K) |-> IF v = x THEN a ELSE locals[v]]
  BY DEF Passes
<1>3. \A v \in Wanted(K) : locals'[v] \in Live'
  BY <1>1, <1>2 DEF Passes
<1> QED
  BY <1>2, <1>3 DEF LocalsOK

LEMMA Ways ==
  ASSUME NEW s, NEW K, IsCode(K), todo = Then(s, K), Next
  PROVE  /\ first = s /\ Tail(todo) = K /\ todo # <<>>
         /\ \/ s.do \in {"array", "allocate"} /\ collectGarbage
            \/ s.do \in {"array", "read"} /\ enlarge
            \/ s.do = "allocate" /\ allocateObject
            \/ s.do = "find" /\ find
            \/ s.do = "intern" /\ intern
            \/ s.do \in {"push", "pop", "poke", "native", "peek"} /\ moveStack
            \/ s.do \in {"global", "initString", "current"} /\ setRoot
            \/ s.do = "end" /\ endCurrent
            \/ s.do \in {"name", "constant", "entry", "copy", "upvalue"} /\ setReference
            \/ s.do \in {"capture", "inherit", "open"} /\ upvalueStep
            \/ s.do \in {"call", "error", "initialize"} /\ call
<1>1. first = s /\ Tail(todo) = K /\ todo # <<>>
  BY ThenIs DEF first
<1>2. \A action : ~Starts(action) /\ ~Begins(action)
  BY <1>1 DEF Starts, Begins
<1>3. \/ collectGarbage \/ enlarge \/ allocateObject \/ find \/ intern \/ moveStack
      \/ setRoot \/ endCurrent \/ setReference \/ upvalueStep \/ call
  <2>1. ~interpret
    BY <1>2 DEF interpret
  <2>2. ~stringConstant
    BY <1>2 DEF stringConstant
  <2>3. ~beginFunction
    BY <1>2 DEF beginFunction
  <2>4. ~endFunction
    BY <1>2 DEF endFunction
  <2>5. ~endCompile
    BY <1>2 DEF endCompile
  <2>6. ~endInError
    BY <1>2 DEF endInError
  <2>7. ~pushValue
    BY <1>2 DEF pushValue
  <2>8. ~OP_POP
    BY <1>2 DEF OP_POP
  <2>9. ~OP_DEFINE_GLOBAL
    BY <1>2 DEF OP_DEFINE_GLOBAL
  <2>10. ~OP_SET_GLOBAL
    BY <1>2 DEF OP_SET_GLOBAL
  <2>11. ~OP_ADD
    BY <1>2 DEF OP_ADD
  <2>12. ~OP_GET_PROPERTY
    BY <1>2 DEF OP_GET_PROPERTY
  <2>13. ~OP_SET_PROPERTY
    BY <1>2 DEF OP_SET_PROPERTY
  <2>14. ~OP_GET_SUPER
    BY <1>2 DEF OP_GET_SUPER
  <2>15. ~OP_CALL
    BY <1>2 DEF OP_CALL
  <2>16. ~OP_INVOKE
    BY <1>2 DEF OP_INVOKE
  <2>17. ~OP_CLOSURE
    BY <1>2 DEF OP_CLOSURE
  <2>18. ~OP_CLOSE_UPVALUE
    BY <1>2 DEF OP_CLOSE_UPVALUE
  <2>19. ~OP_RETURN
    BY <1>2 DEF OP_RETURN
  <2>20. ~OP_CLASS
    BY <1>2 DEF OP_CLASS
  <2>21. ~OP_INHERIT
    BY <1>2 DEF OP_INHERIT
  <2>22. ~OP_METHOD
    BY <1>2 DEF OP_METHOD
  <2>23. ~operandError
    BY <1>2 DEF operandError
  <2> QED
    BY <2>1, <2>2, <2>3, <2>4, <2>5, <2>6, <2>7, <2>8, <2>9, <2>10, <2>11, <2>12, <2>13, <2>14, <2>15, <2>16, <2>17, <2>18, <2>19, <2>20, <2>21, <2>22, <2>23 DEF Next
<1>4. \A steps : Doing(steps) => s.do \in steps
  BY <1>1 DEF Doing
<1> QED
  BY <1>1, <1>3, <1>4 DEF collectGarbage, enlarge, allocateObject, find, intern, moveStack,
    setRoot, endCurrent, setReference, upvalueStep, call

(* What is kept outlives a collection.                                     *)
LEMMA Collects ==
  ASSUME Consistent, Held, collectGarbage
  PROVE  /\ Consistent'
         /\ \A x : Reaches(x) => x \in DOMAIN heap /\ x \in DOMAIN heap' /\ heap'[x] = heap[x]
         /\ \A x : Reaches(x) => Reaches(x)'
         /\ \A x \in DOMAIN heap' : x \in DOMAIN heap /\ heap'[x] = heap[x]
         /\ UNCHANGED <<stack, frames, openUpvalues, globals, compilers, initString, locals, todo>>
<1>1. HeapOK /\ RootsOK /\ LocalsOK
  BY DEF Consistent
<1>2. /\ heap' = Restrict(heap, Reachable \cap DOMAIN heap)
      /\ strings' = strings \cap Reachable
      /\ UNCHANGED <<stack, frames, openUpvalues, globals, compilers, initString, locals, todo>>
  BY DEF collectGarbage, machine
<1>3. PICK R : R = Reachable
  OBVIOUS
<1>4. Roots \subseteq R /\ R \subseteq DOMAIN heap /\ IsClosed(R)
  BY <1>1, <1>3, ReachableIs
<1>5. DOMAIN heap' = R /\ \A x \in R : heap'[x] = heap[x]
  BY <1>2, <1>3, <1>4 DEF Restrict
<1>6. \A x : Reaches(x) => x \in R
  BY <1>1, <1>3, ReachesIs
<1>7. DOMAIN heap \subseteq Nat \ {0} /\ IsFiniteSet(DOMAIN heap)
  BY <1>1 DEF HeapOK
<1>8. Roots' = Roots
  BY <1>2 DEF Roots
<1>9. ASSUME NEW x, Reaches(x) PROVE Reaches(x)'
  <2>1. SUFFICES ASSUME NEW C \in SUBSET Nat, Roots' \subseteq C, IsClosed(C)' PROVE x \in C
    BY DEF Reaches
  <2>2. Roots \subseteq C \cap R
    BY <1>4, <1>8, <2>1
  <2>3. \A a \in C \cap DOMAIN heap' : References(heap'[a]) \subseteq C
    BY <2>1 DEF IsClosed
  <2>4. ASSUME NEW a \in (C \cap R) \cap DOMAIN heap PROVE References(heap[a]) \subseteq C \cap R
    <3>1. References(heap'[a]) \subseteq C /\ heap'[a] = heap[a]
      BY <1>5, <2>3
    <3>2. References(heap[a]) \subseteq R
      BY <1>4 DEF IsClosed
    <3> QED
      BY <3>1, <3>2
  <2>5. IsClosed(C \cap R)
    BY <2>4 DEF IsClosed
  <2> QED
    BY <1>9, <2>1, <2>2, <2>5 DEF Reaches
<1>10. \A a \in R : References(heap[a]) \subseteq R
  BY <1>4 DEF IsClosed
<1>11. \A a \in R : \A f \in DOMAIN heap[a].refs :
         /\ heap[a].refs[f] \in R \cup {0}
         /\ f[1] \in Tables => f[2] \in R
  <2>1. ASSUME NEW a \in R, NEW f \in DOMAIN heap[a].refs
        PROVE  heap[a].refs[f] \in R \cup {0} /\ (f[1] \in Tables => f[2] \in R)
    <3>1. ObjectOK(a) /\ References(heap[a]) \subseteq R
      BY <1>1, <1>4, <1>10 DEF HeapOK
    <3>2. heap[a].refs[f] \in Range(heap[a].refs)
      BY DEF Range
    <3>3. f[1] \in Tables => f[2] \in Keys(heap[a])
      BY DEF Keys
    <3>4. f[1] \in Tables => f[2] # 0
      BY <1>7, <3>1 DEF ObjectOK
    <3> QED
      BY <3>1, <3>2, <3>3, <3>4 DEF References
  <2> QED
    BY <2>1
<1>12. \A a \in R : \A name, key :
         /\ Has(a, name, key)' <=> Has(a, name, key)
         /\ Ref(a, name, key)' = Ref(a, name, key)
         /\ Has(a, name, key) => Ref(a, name, key) \in R \cup {0}
  <2>1. \A a \in R : \A name, key :
         /\ Has(a, name, key)' <=> Has(a, name, key)
         /\ Ref(a, name, key)' = Ref(a, name, key)
    BY <1>5 DEF Has, Ref
  <2>2. \A a \in R : \A name, key : Has(a, name, key) => Ref(a, name, key) \in R \cup {0}
    BY <1>11 DEF Has, Ref
  <2> QED
    BY <2>1, <2>2
<1>13. \A a \in R \cup {0} : \A type : Is(a, type)' <=> Is(a, type)
  BY <1>5 DEF Is
<1>14. ASSUME NEW a \in R PROVE ObjectOK(a)'
  <2>1. ObjectOK(a)
    BY <1>1, <1>4 DEF HeapOK
  <2>2. IsObject(heap'[a]) /\ \A f \in DOMAIN heap'[a].refs : IsField(f)
    BY <1>5, <2>1 DEF ObjectOK
  <2>3. \A f \in DOMAIN heap'[a].refs : /\ heap'[a].refs[f] \in Live'
                                        /\ f[1] \in Tables => f[2] \in DOMAIN heap'
    BY <1>5, <1>11 DEF Live
  <2>4. Is(a, "closure") => Has(a, "function", 0) /\ Ref(a, "function", 0) # 0
    BY <2>1 DEF ObjectOK
  <2>5. Is(a, "instance") => Has(a, "class", 0) /\ Ref(a, "class", 0) # 0
    BY <2>1 DEF ObjectOK
  <2>6. Is(a, "bound") => Has(a, "method", 0) /\ Is(Ref(a, "method", 0), "closure")
    BY <2>1 DEF ObjectOK
  <2>7. \A k : Has(a, "methods", k) => Is(Ref(a, "methods", k), "closure")
    BY <2>1 DEF ObjectOK
  <2>8. \A k : Has(a, "upvalues", k) => Ref(a, "upvalues", k) # 0
    BY <2>1 DEF ObjectOK
  <2>9. Is(a, "closure")' => Has(a, "function", 0)' /\ Ref(a, "function", 0)' # 0
    BY <1>12, <1>13, <2>4
  <2>10. Is(a, "instance")' => Has(a, "class", 0)' /\ Ref(a, "class", 0)' # 0
    BY <1>12, <1>13, <2>5
  <2>11. Is(a, "bound")' => Has(a, "method", 0)' /\ Is(Ref(a, "method", 0), "closure")'
    <3>1. PICK m : m = Ref(a, "method", 0)
      OBVIOUS
    <3>2. Is(a, "bound")' => Has(a, "method", 0) /\ m \in R \cup {0} /\ Is(m, "closure")
      BY <1>12, <1>13, <2>6, <3>1
    <3>3. Ref(a, "method", 0)' = m
      BY <1>12, <3>1
    <3>4. Is(a, "bound")' => Is(m, "closure")'
      BY <1>13, <3>2
    <3>5. Is(m, "closure")' <=> Is(Ref(a, "method", 0), "closure")'
      BY <3>3 DEF Is
    <3> QED
      BY <1>12, <3>2, <3>4, <3>5
  <2>12. ASSUME NEW k, Has(a, "methods", k)' PROVE Is(Ref(a, "methods", k), "closure")'
    <3>1. PICK m : m = Ref(a, "methods", k)
      OBVIOUS
    <3>2. m \in R \cup {0} /\ Is(m, "closure") /\ Ref(a, "methods", k)' = m
      BY <1>12, <2>7, <2>12, <3>1
    <3>3. Is(m, "closure")'
      BY <1>13, <3>2
    <3> QED
      BY <3>2, <3>3 DEF Is
  <2>13. \A k : Has(a, "upvalues", k)' => Ref(a, "upvalues", k)' # 0
    BY <1>12, <2>8
  <2> QED
    BY <2>2, <2>3, <2>9, <2>10, <2>11, <2>12, <2>13 DEF ObjectOK
<1>15. HeapOK'
  <2>1. IsFiniteSet(R)
    BY <1>4, <1>7, FS_Subset
  <2> QED
    BY <1>4, <1>5, <1>7, <1>14, <2>1 DEF HeapOK
<1>17. RootsOK'
  <2>1. RootsOK
    BY <1>1
  <2>2. \A x \in Roots : x \in R
    BY <1>4
  <2>3. ToSet(stack) \subseteq R \cup {0} /\ DOMAIN globals \cup Range(globals) \subseteq R \cup {0}
        /\ initString \in R \cup {0}
    BY <2>2 DEF Roots
  <2>4. ToSet(compilers) \subseteq R
    BY <1>7, <2>1, <2>2 DEF Roots, RootsOK
  <2>5. \A u \in openUpvalues : u.at \in R
    BY <1>7, <2>1, <2>2 DEF Roots, RootsOK
  <2>6. \A f \in ToSet(frames) : f.closure \in R
    BY <1>7, <2>1, <2>2 DEF Roots, RootsOK
  <2>7. strings' \subseteq R
    BY <1>2, <1>3
  <2>8. \A f \in ToSet(frames) : Is(f.closure, "closure")'
    BY <1>13, <2>1, <2>6 DEF RootsOK
  <2> QED
    BY <1>2, <1>5, <2>1, <2>3, <2>4, <2>5, <2>6, <2>7, <2>8 DEF RootsOK, Live
<1>18. LocalsOK'
  <2>1. \A v \in DOMAIN locals : locals[v] \in R \cup {0}
    BY <1>6 DEF Held, Kept
  <2> QED
    BY <1>1, <1>2, <1>5, <2>1 DEF LocalsOK, Live
<1> QED
  BY <1>2, <1>4, <1>5, <1>6, <1>9, <1>15, <1>17, <1>18 DEF Consistent

(* A reference that may be set.                                            *)
LinkOK(name, key, b) ==
  /\ b \in Live /\ (name \in Tables => key \in DOMAIN heap)
  /\ name \in {"name", "constants", "fields", "methods", "upvalues", "closed"}
  /\ name = "methods" => Is(b, "closure")
  /\ name = "upvalues" => b # 0

(* The heap grows, and objects in it have a reference set.                 *)
LEMMA Relinks ==
  ASSUME HeapOK,
         DOMAIN heap' \subseteq Nat \ {0}, IsFiniteSet(DOMAIN heap'),
         \A x \in DOMAIN heap :
           /\ x \in DOMAIN heap' /\ heap'[x].type = heap[x].type /\ IsObject(heap'[x])
           /\ \/ heap'[x].refs = heap[x].refs
              \/ \E name, key, b : /\ heap'[x].refs = With(heap[x].refs, <<name, key>>, b)
                                   /\ LinkOK(name, key, b),
         \A x \in DOMAIN heap' \ DOMAIN heap :
           ObjectOK(x)'
  PROVE  /\ HeapOK'
         /\ Live \subseteq Live'
         /\ \A x \in Live : \A type : Is(x, type)' <=> Is(x, type)
<1>1. \A x \in Live : x \in Live' /\ \A type : Is(x, type)' <=> Is(x, type)
  BY DEF Live, Is
<1>2. ASSUME NEW x \in DOMAIN heap, NEW name, NEW key
      PROVE  /\ Has(x, name, key) => Has(x, name, key)'
             /\ Has(x, name, key)' => \/ Has(x, name, key) /\ Ref(x, name, key)' = Ref(x, name, key)
                                      \/ LinkOK(name, key, Ref(x, name, key)')
  <2>1. PICK f : f = <<name, key>>
    OBVIOUS
  <2>2. x # 0
    BY DEF HeapOK
  <2>3. CASE heap'[x].refs = heap[x].refs
    BY <2>1, <2>2, <2>3 DEF Has, Ref
  <2>4. CASE \E n, k, b : /\ heap'[x].refs = With(heap[x].refs, <<n, k>>, b)
                          /\ LinkOK(n, k, b)
    <3>1. PICK n, k, b : /\ heap'[x].refs = With(heap[x].refs, <<n, k>>, b)
                         /\ LinkOK(n, k, b)
      BY <2>4
    <3>2. /\ DOMAIN heap'[x].refs = DOMAIN heap[x].refs \cup {<<n, k>>}
          /\ \A z \in DOMAIN heap'[x].refs :
               heap'[x].refs[z] = IF z = <<n, k>> THEN b ELSE heap[x].refs[z]
      BY <3>1 DEF With
    <3>3. CASE <<n, k>> = <<name, key>>
      BY <2>2, <3>1, <3>2, <3>3 DEF Has, Ref
    <3>4. CASE <<n, k>> # <<name, key>>
      BY <2>2, <3>2, <3>4 DEF Has, Ref
    <3> QED
      BY <3>3, <3>4
  <2> QED
    BY <2>3, <2>4
<1>3. ASSUME NEW x \in DOMAIN heap, NEW f \in DOMAIN heap'[x].refs
      PROVE  /\ heap'[x].refs[f] \in Live'
             /\ f[1] \in Tables => f[2] \in DOMAIN heap'
             /\ IsField(f)
  <2>1. ObjectOK(x)
    BY DEF HeapOK
  <2>2. CASE heap'[x].refs = heap[x].refs
    BY <1>1, <2>1, <2>2 DEF ObjectOK
  <2>3. CASE \E n, k, b : /\ heap'[x].refs = With(heap[x].refs, <<n, k>>, b)
                          /\ LinkOK(n, k, b)
    <3>1. PICK n, k, b : /\ heap'[x].refs = With(heap[x].refs, <<n, k>>, b)
                         /\ LinkOK(n, k, b)
      BY <2>3
    <3>2. PICK g : g = <<n, k>>
      OBVIOUS
    <3>3. g[1] = n /\ g[2] = k
      BY <3>2
    <3>4. f = g \/ f \in DOMAIN heap[x].refs
      BY <3>1, <3>2 DEF With
    <3>5. heap'[x].refs[f] = IF f = g THEN b ELSE heap[x].refs[f]
      BY <3>1, <3>2, <3>4 DEF With
    <3>6. CASE f = g
      BY <1>1, <3>1, <3>2, <3>3, <3>5, <3>6 DEF LinkOK, IsField
    <3>7. CASE f # g
      BY <1>1, <2>1, <3>4, <3>5, <3>7 DEF ObjectOK
    <3> QED
      BY <3>6, <3>7
  <2> QED
    BY <2>2, <2>3
<1>4. ASSUME NEW x \in DOMAIN heap PROVE ObjectOK(x)'
  <2>1. ObjectOK(x)
    BY DEF HeapOK
  <2>2. \A name, key : Has(x, name, key)' /\ name \in {"function", "class", "method"} =>
                       Ref(x, name, key)' = Ref(x, name, key)
    BY <1>2 DEF LinkOK
  <2>3. IsObject(heap'[x]) /\ x \in Live
    BY DEF Live
  <2>11. \A f \in DOMAIN heap'[x].refs : IsField(f)
    BY <1>3
  <2>4. \A f \in DOMAIN heap'[x].refs : /\ heap'[x].refs[f] \in Live'
                                        /\ f[1] \in Tables => f[2] \in DOMAIN heap'
    BY <1>3
  <2>5. Is(x, "closure")' => Has(x, "function", 0)' /\ Ref(x, "function", 0)' # 0
    <3>1. Is(x, "closure") => Has(x, "function", 0) /\ Ref(x, "function", 0) # 0
      BY <2>1 DEF ObjectOK
    <3> QED
      BY <1>1, <1>2, <2>2, <2>3, <3>1
  <2>6. Is(x, "instance")' => Has(x, "class", 0)' /\ Ref(x, "class", 0)' # 0
    <3>1. Is(x, "instance") => Has(x, "class", 0) /\ Ref(x, "class", 0) # 0
      BY <2>1 DEF ObjectOK
    <3> QED
      BY <1>1, <1>2, <2>2, <2>3, <3>1
  <2>7. \A name, key : Has(x, name, key) => Ref(x, name, key) \in Live
    BY <2>1 DEF ObjectOK, Has, Ref
  <2>8. ASSUME Is(x, "bound")' PROVE Has(x, "method", 0)' /\ Is(Ref(x, "method", 0), "closure")'
    <3>1. PICK m : m = Ref(x, "method", 0)
      OBVIOUS
    <3>2. Has(x, "method", 0) /\ Is(m, "closure") /\ m \in Live
      BY <1>1, <2>1, <2>3, <2>7, <2>8, <3>1 DEF ObjectOK
    <3>3. Has(x, "method", 0)' /\ Ref(x, "method", 0)' = m /\ Is(m, "closure")'
      BY <1>1, <1>2, <2>2, <3>1, <3>2
    <3> QED
      BY <3>3 DEF Is
  <2>9. ASSUME NEW k, Has(x, "methods", k)' PROVE Is(Ref(x, "methods", k), "closure")'
    <3>1. PICK m : m = Ref(x, "methods", k)'
      OBVIOUS
    <3>2. \/ LinkOK("methods", k, m)
          \/ Has(x, "methods", k) /\ Ref(x, "methods", k) = m
      BY <1>2, <2>9, <3>1
    <3>3. m \in Live /\ Is(m, "closure")
      BY <2>1, <2>7, <3>2 DEF LinkOK, ObjectOK
    <3>4. Is(m, "closure")'
      BY <1>1, <3>3
    <3> QED
      BY <3>1, <3>4 DEF Is
  <2>10. ASSUME NEW k, Has(x, "upvalues", k)' PROVE Ref(x, "upvalues", k)' # 0
    <3>1. \/ LinkOK("upvalues", k, Ref(x, "upvalues", k)')
          \/ Has(x, "upvalues", k) /\ Ref(x, "upvalues", k)' = Ref(x, "upvalues", k)
      BY <1>2, <2>10
    <3> QED
      BY <2>1, <3>1 DEF LinkOK, ObjectOK
  <2> QED
    BY <2>3, <2>4, <2>5, <2>6, <2>8, <2>9, <2>10, <2>11 DEF ObjectOK
<1>7. HeapOK'
  BY <1>4 DEF HeapOK
<1> QED
  BY <1>1, <1>7

LEMMA HeapStays ==
  ASSUME HeapOK, UNCHANGED heap
  PROVE  HeapOK'
  BY DEF HeapOK, ObjectOK, IsObject, IsField, Is, Has, Ref, Live

(* An address that is free, as allocateObject takes one.                   *)
LEMMA FreeAddress ==
  ASSUME NEW S, S \subseteq Nat \ {0}, IsFiniteSet(S)
  PROVE  LET a == Min((1..(Cardinality(S) + 1)) \ S)
         IN  a \in Nat \ {0} /\ a \notin S
<1>1. PICK n : n = Cardinality(S)
  OBVIOUS
<1>2. n \in Nat
  BY <1>1, FS_CardinalityType
<1>3. PICK T : T = (1..(n + 1)) \ S
  OBVIOUS
<1>4. T # {}
  <2>1. IsFiniteSet(1..(n + 1)) /\ Cardinality(1..(n + 1)) = n + 1
    BY <1>2, FS_Interval
  <2>2. \A I \in SUBSET S : Cardinality(I) <= n
    BY <1>1, FS_Subset
  <2>3. PICK I : I = 1..(n + 1)
    OBVIOUS
  <2>4. Cardinality(I) = n + 1
    BY <2>1, <2>3
  <2>5. ~(I \subseteq S)
    BY <1>2, <2>2, <2>4
  <2> QED
    BY <1>3, <2>3, <2>5
<1>5. T \subseteq Nat \ {0}
  BY <1>2, <1>3
<1>6. PICK m \in T : \A k \in T : m <= k
  BY <1>4, <1>5, Least
<1>7. Min(T) \in T
  BY <1>6 DEF Min
<1> QED
  BY <1>1, <1>3, <1>5, <1>7

(* What a new object is to refer to.                                       *)
FieldsOK(s) ==
  /\ ToSet(s.of) \cap {"methods", "fields", "upvalues"} = {}
  /\ s.gets = "closure"  => "function" \in ToSet(s.of) /\ locals["function"] # 0
  /\ s.gets = "instance" => "class" \in ToSet(s.of) /\ locals["class"] # 0
  /\ s.gets = "bound"    => "method" \in ToSet(s.of) /\ Is(locals["method"], "closure")

LEMMA RootsStay ==
  ASSUME RootsOK, DOMAIN heap \subseteq DOMAIN heap', \A x \in Live : \A type : Is(x, type)' <=> Is(x, type),
         UNCHANGED <<stack, frames, openUpvalues, globals, compilers, initString, strings>>
  PROVE  RootsOK'
<1>1. \A f \in ToSet(frames) : f.closure \in DOMAIN heap /\ Is(f.closure, "closure")'
  BY DEF RootsOK, Live
<1>2. /\ stack' = stack /\ frames' = frames /\ openUpvalues' = openUpvalues
      /\ globals' = globals /\ compilers' = compilers /\ initString' = initString
      /\ strings' = strings
  OBVIOUS
<1> QED
  BY <1>1, <1>2 DEF RootsOK, Live

LEMMA Allocates ==
  ASSUME Consistent, NEW s, NEW K, IsCode(K), todo = Then(s, K), FieldsOK(s), allocateObject
  PROVE  /\ Consistent'
         /\ \E a \in DOMAIN heap' : /\ Passes(K, s.gets, a) /\ a \notin DOMAIN heap /\ a # 0
                                    /\ heap'[a].type = s.gets
         /\ \A x \in DOMAIN heap : x \in DOMAIN heap' /\ heap'[x] = heap[x]
         /\ UNCHANGED <<stack, frames, openUpvalues, globals, compilers, initString>>
<1>1. HeapOK /\ RootsOK /\ LocalsOK
  BY DEF Consistent
<1>2. /\ first = s /\ \A v \in ToSet(s.of) : v \in DOMAIN locals /\ locals[v] \in Live
  BY <1>1, At1
<1>3. PICK a : a = Min((1..(Cardinality(DOMAIN heap) + 1)) \ DOMAIN heap)
  OBVIOUS
<1>4. a \in Nat \ {0} /\ a \notin DOMAIN heap
  BY <1>1, <1>3, FreeAddress DEF HeapOK
<1>5. PICK refs : refs = [f \in ToSet(s.of) \X {0} |-> locals[f[1]]]
  OBVIOUS
<1>6. PICK h : h = [type |-> s.gets, refs |-> refs]
  OBVIOUS
<1>7. /\ heap' = With(heap, a, h) /\ GoesWith(a)
      /\ UNCHANGED <<stack, frames, openUpvalues, globals, compilers, initString, strings>>
  BY <1>2, <1>3, <1>5, <1>6 DEF allocateObject, machine
<1>8. /\ DOMAIN heap' = DOMAIN heap \cup {a} /\ heap'[a] = h
      /\ \A x \in DOMAIN heap : heap'[x] = heap[x]
  BY <1>4, <1>7 DEF With
<1>9. h.type = s.gets /\ h.refs = refs /\ IsObject(h)
  BY <1>6 DEF IsObject
<1>10. \A name, key : /\ Has(a, name, key)' <=> name \in ToSet(s.of) /\ key = 0
                      /\ Has(a, name, key)' => Ref(a, name, key)' = locals[name]
  <2>1. ASSUME NEW name, NEW key
        PROVE  /\ Has(a, name, key)' <=> name \in ToSet(s.of) /\ key = 0
               /\ Has(a, name, key)' => Ref(a, name, key)' = locals[name]
    <3>1. PICK f : f = <<name, key>>
      OBVIOUS
    <3>2. f \in ToSet(s.of) \X {0} <=> name \in ToSet(s.of) /\ key = 0
      BY <3>1
    <3>3. f[1] = name
      BY <3>1
    <3>4. DOMAIN refs = ToSet(s.of) \X {0}
      BY <1>5
    <3>5. f \in DOMAIN refs => refs[f] = locals[name]
      BY <1>5, <3>3
    <3>6. Has(a, name, key)' <=> f \in DOMAIN refs
      BY <1>4, <1>8, <1>9, <3>1 DEF Has
    <3>7. Ref(a, name, key)' = refs[f]
      BY <1>8, <1>9, <3>1 DEF Ref
    <3> QED
      BY <3>2, <3>4, <3>5, <3>6, <3>7
  <2> QED
    BY <2>1
<1>11. \A x \in Live : x \in Live' /\ \A type : Is(x, type)' <=> Is(x, type)
  BY <1>8 DEF Live, Is
<1>12. ObjectOK(a)'
  <2>1. \A f \in DOMAIN refs : refs[f] \in Live /\ f[1] \in ToSet(s.of)
    BY <1>2, <1>5
  <2>2. \A f \in DOMAIN heap'[a].refs : /\ heap'[a].refs[f] \in Live'
                                        /\ f[1] \in Tables => f[2] \in DOMAIN heap'
    BY <1>8, <1>9, <1>11, <2>1 DEF Tables, FieldsOK
  <2>3. \A type : Is(a, type)' <=> s.gets = type
    BY <1>4, <1>8, <1>9 DEF Is
  <2>4. s.gets = "bound" => /\ Has(a, "method", 0)'
                            /\ Is(Ref(a, "method", 0), "closure")'
    <3>1. ASSUME s.gets = "bound"
          PROVE  Has(a, "method", 0)' /\ Is(Ref(a, "method", 0), "closure")'
      <4>1. PICK m : m = locals["method"]
        OBVIOUS
      <4>2. "method" \in ToSet(s.of) /\ m \in Live /\ Is(m, "closure")
        BY <1>2, <3>1, <4>1 DEF FieldsOK
      <4>3. Is(m, "closure")' /\ Has(a, "method", 0)' /\ Ref(a, "method", 0)' = m
        BY <1>10, <1>11, <4>1, <4>2
      <4> QED
        BY <4>3 DEF Is
    <3> QED
      BY <3>1
  <2>5. s.gets = "closure" => Has(a, "function", 0)' /\ Ref(a, "function", 0)' # 0
    BY <1>10 DEF FieldsOK
  <2>6. s.gets = "instance" => Has(a, "class", 0)' /\ Ref(a, "class", 0)' # 0
    BY <1>10 DEF FieldsOK
  <2>7. \A k : ~Has(a, "methods", k)' /\ ~Has(a, "upvalues", k)'
    BY <1>10 DEF FieldsOK
  <2>8. \A f \in DOMAIN heap'[a].refs : IsField(f)
    <3>1. \A f \in DOMAIN refs : f = <<f[1], f[2]>>
      BY <1>5
    <3> QED
      BY <1>8, <1>9, <3>1 DEF IsField
  <2> QED
    BY <1>8, <1>9, <2>2, <2>3, <2>4, <2>5, <2>6, <2>7, <2>8 DEF ObjectOK
<1>13. Passes(K, s.gets, a)
  BY <1>1, <1>7, GoesWithIs
<1>14. HeapOK'
  <2>1. DOMAIN heap' \subseteq Nat \ {0} /\ IsFiniteSet(DOMAIN heap')
    BY <1>1, <1>4, <1>8, FS_AddElement DEF HeapOK
  <2>2. \A x \in DOMAIN heap : x \in DOMAIN heap' /\ heap'[x] = heap[x] /\ IsObject(heap[x])
    BY <1>1, <1>8 DEF HeapOK, ObjectOK
  <2>3. \A x \in DOMAIN heap' \ DOMAIN heap : ObjectOK(x)'
    BY <1>8, <1>12
  <2> QED
    BY <1>1, <2>1, <2>2, <2>3, Relinks
<1>15. RootsOK'
  BY <1>1, <1>7, <1>8, <1>11, RootsStay
<1>16. LocalsOK'
  BY <1>1, <1>8, <1>11, <1>13, PassesLocals DEF Live
<1> QED
  BY <1>4, <1>7, <1>8, <1>9, <1>13, <1>14, <1>15, <1>16 DEF Consistent

---------------------------------------------------------------------------
(* The stack.  Room(n): the n values on top are no variables.  Between the *)
(* calls of interpret() the stack is empty; while the compiler runs, or    *)
(* initVM(), there is nothing on it but what they push.                    *)

Room(n) == n <= Len(stack) /\ \A u \in openUpvalues : u.location <= Len(stack) - n
Bare(n) == frames = <<>> /\ openUpvalues = {} /\ Len(stack) = n

Level(mode, n) ==
  \/ mode = "alone"     /\ Bare(n) /\ compilers = <<>>
  \/ mode = "compiling" /\ Bare(n) /\ compilers # <<>>
  \/ mode = "running"   /\ frames # <<>> /\ compilers = <<>> /\ Room(n)

LEMMA Pushes ==
  ASSUME Consistent, NEW v, NEW K, IsCode(K), todo = Then(Push(v), K), Next,
         NEW mode, NEW n \in Nat, Level(mode, n)
  PROVE  /\ Consistent' /\ Passes(K, "", 0) /\ Level(mode, n + 1)'
         /\ v \in DOMAIN locals /\ stack' = Append(stack, locals[v])
         /\ Top(0)' = locals[v]
         /\ UNCHANGED <<heap, strings, frames, openUpvalues, globals, compilers, initString>>
<1>1. HeapOK /\ RootsOK /\ LocalsOK
  BY DEF Consistent
<1>2. PICK s : s = Push(v)
  OBVIOUS
<1>3. s.do = "push" /\ s.of = <<v>> /\ s.gets = ""
  BY <1>2 DEF Push, Step
<1>4. first = s /\ At(1) = locals[v] /\ v \in DOMAIN locals /\ locals[v] \in Live
  BY <1>1, <1>2, <1>3, Operand
<1>5. moveStack
  BY <1>2, <1>3, Ways
<1>6. /\ stack' = Append(stack, locals[v]) /\ Goes
      /\ UNCHANGED <<heap, strings, frames, openUpvalues, globals, compilers, initString>>
  <2>1. /\ stack' = Append(stack, At(1)) /\ Goes
        /\ UNCHANGED <<heap, strings, frames, openUpvalues, globals, compilers, initString>>
    BY <1>3, <1>4, <1>5 DEF moveStack, Doing
  <2> QED
    BY <1>4, <2>1
<1>7. Passes(K, "", 0)
  BY <1>1, <1>2, <1>3, <1>6, GoesIs
<1>8. PICK a : a = locals[v]
  OBVIOUS
<1>9. a \in Live /\ a \in Nat /\ stack \in Seq(Nat) /\ Len(stack) \in Nat
  BY <1>1, <1>4, <1>8 DEF HeapOK, RootsOK, Live
<1>10. PICK t : t = Append(stack, a)
  OBVIOUS
<1>11. /\ t \in Seq(Nat) /\ Len(t) = Len(stack) + 1 /\ t[Len(t)] = a
       /\ \A i \in 1..Len(stack) : t[i] = stack[i]
  BY <1>9, <1>10
<1>12. ToSet(t) \subseteq ToSet(stack) \cup {a}
  <2>1. DOMAIN t = 1..Len(t) /\ DOMAIN stack = 1..Len(stack)
    BY <1>9, <1>11
  <2>2. \A i \in 1..Len(t) : i \in 1..Len(stack) \/ i = Len(t)
    BY <1>9, <1>11
  <2> QED
    BY <1>11, <2>1, <2>2, ToSetIs
<1>13. stack' = t
  BY <1>6, <1>8, <1>10
<1>14. HeapOK'
  BY <1>1, <1>6, HeapStays
<1>15. RootsOK'
  <2>1. \A u \in openUpvalues : u.location \in 1..Len(t)
    BY <1>1, <1>9, <1>11 DEF RootsOK
  <2> QED
    BY <1>1, <1>6, <1>9, <1>11, <1>12, <1>13, <2>1 DEF RootsOK, Live, Is
<1>16. LocalsOK'
  BY <1>1, <1>6, <1>7, PassesLocals DEF Live
<1>17. Level(mode, n + 1)'
  <2>1. Len(t) = Len(stack) + 1 /\ Len(t) - (n + 1) = Len(stack) - n
    BY <1>9, <1>11
  <2>2. Bare(n) => Bare(n + 1)'
    BY <1>6, <1>13, <2>1 DEF Bare
  <2>3. Room(n) => Room(n + 1)'
    BY <1>6, <1>9, <1>13, <2>1 DEF Room
  <2> QED
    BY <1>6, <2>2, <2>3 DEF Level
<1>18. Top(0)' = a
  BY <1>9, <1>11, <1>13 DEF Top
<1> QED
  BY <1>4, <1>6, <1>7, <1>8, <1>14, <1>15, <1>16, <1>17, <1>18 DEF Consistent

LEMMA Pops ==
  ASSUME Consistent, NEW K, IsCode(K), todo = Then(Pop, K), Next,
         NEW mode, NEW n \in Nat, Level(mode, n + 1)
  PROVE  /\ Consistent' /\ Passes(K, "", 0) /\ Level(mode, n)'
         /\ UNCHANGED <<heap, strings, frames, openUpvalues, globals, compilers, initString>>
<1>1. HeapOK /\ RootsOK /\ LocalsOK
  BY DEF Consistent
<1>2. PICK s : s = Pop
  OBVIOUS
<1>3. s.do = "pop" /\ s.gets = ""
  BY <1>2 DEF Pop, Step
<1>4. first = s
  BY <1>1, <1>2, At1
<1>5. moveStack
  BY <1>2, <1>3, Ways
<1>6. /\ stack' = Front(stack) /\ Goes
      /\ UNCHANGED <<heap, strings, frames, openUpvalues, globals, compilers, initString>>
  BY <1>3, <1>4, <1>5 DEF moveStack, Doing
<1>7. Passes(K, "", 0)
  BY <1>1, <1>2, <1>3, <1>6, GoesIs
<1>8. PICK l : l = Len(stack)
  OBVIOUS
<1>9. l \in Nat /\ stack \in Seq(Nat) /\ n + 1 <= l /\ \A u \in openUpvalues : u.location <= l - 1
  <2>1. l \in Nat /\ stack \in Seq(Nat)
    BY <1>1, <1>8 DEF RootsOK
  <2>2. Bare(n + 1) \/ Room(n + 1)
    BY DEF Level
  <2>3. \A u \in openUpvalues : u.location \in Nat
    BY <1>1, <1>8, <2>1 DEF RootsOK
  <2> QED
    BY <1>8, <2>1, <2>2, <2>3 DEF Bare, Room
<1>10. PICK t : t = Front(stack)
  OBVIOUS
<1>11. t \in Seq(Nat) /\ Len(t) = l - 1 /\ \A i \in 1..(l - 1) : t[i] = stack[i]
  BY <1>8, <1>9, <1>10 DEF Front
<1>12. ToSet(t) \subseteq ToSet(stack)
  <2>1. DOMAIN t = 1..(l - 1) /\ DOMAIN stack = 1..l
    BY <1>8, <1>9, <1>11
  <2>2. \A i \in 1..(l - 1) : i \in 1..l
    BY <1>9
  <2> QED
    BY <1>11, <2>1, <2>2, ToSetIs
<1>13. stack' = t
  BY <1>6, <1>10
<1>14. HeapOK'
  BY <1>1, <1>6, HeapStays
<1>15. RootsOK'
  <2>1. \A u \in openUpvalues : u.location \in 1..Len(t)
    BY <1>1, <1>9, <1>11 DEF RootsOK
  <2> QED
    BY <1>1, <1>6, <1>11, <1>12, <1>13, <2>1 DEF RootsOK, Live, Is
<1>16. LocalsOK'
  BY <1>1, <1>6, <1>7, PassesLocals DEF Live
<1>17. Level(mode, n)'
  <2>1. Len(t) = l - 1 /\ l - (n + 1) = (l - 1) - n
    BY <1>9, <1>11
  <2>2. Bare(n + 1) => Bare(n)'
    BY <1>6, <1>8, <1>13, <2>1 DEF Bare
  <2>3. Room(n + 1) => Room(n)'
    BY <1>6, <1>8, <1>9, <1>13, <2>1 DEF Room
  <2> QED
    BY <1>6, <2>2, <2>3 DEF Level
<1> QED
  BY <1>6, <1>7, <1>14, <1>15, <1>16, <1>17 DEF Consistent

LEMMA LevelStays ==
  ASSUME UNCHANGED <<stack, frames, openUpvalues, compilers>>
  PROVE  \A mode, n : Level(mode, n) <=> Level(mode, n)'
BY DEF Level, Bare, Room

LEMMA TopIs ==
  ASSUME Consistent, NEW n \in Nat, n + 1 <= Len(stack)
  PROVE  Top(n) \in ToSet(stack) /\ Top(n) \in Live /\ Kept(Top(n))
<1>1. HeapOK /\ RootsOK
  BY DEF Consistent
<1>2. PICK l : l = Len(stack)
  OBVIOUS
<1>3. l \in Nat /\ DOMAIN stack = 1..l
  BY <1>1, <1>2 DEF RootsOK
<1>4. l - n \in 1..l
  BY <1>2, <1>3
<1>5. Top(n) \in ToSet(stack)
  BY <1>2, <1>3, <1>4, ToSetIs DEF Top
<1> QED
  BY <1>1, <1>5, RootReaches DEF RootsOK

(* The collector ran, and the step is still to come.                       *)
Collected ==
  /\ UNCHANGED <<stack, frames, openUpvalues, globals, compilers, initString, locals, todo>>
  /\ \A x : Reaches(x) => /\ x \in DOMAIN heap /\ x \in DOMAIN heap' /\ heap'[x] = heap[x]
                          /\ Reaches(x)'

LEMMA Enlarges ==
  ASSUME Consistent, NEW s, NEW K, IsCode(K), todo = Then(s, K), s.gets = "", enlarge
  PROVE  /\ Consistent' /\ Passes(K, "", 0)
         /\ UNCHANGED <<heap, strings, stack, frames, openUpvalues, globals, compilers, initString>>
<1>1. HeapOK /\ RootsOK /\ LocalsOK
  BY DEF Consistent
<1>2. /\ Goes
      /\ UNCHANGED <<heap, strings, stack, frames, openUpvalues, globals, compilers, initString>>
  BY DEF enlarge, machine
<1>3. Passes(K, "", 0)
  BY <1>1, <1>2, GoesIs
<1>4. HeapOK'
  BY <1>1, <1>2, HeapStays
<1>5. RootsOK'
  BY <1>1, <1>2, RootsStay DEF Is
<1>6. LocalsOK'
  BY <1>1, <1>2, <1>3, PassesLocals DEF Live
<1> QED
  BY <1>2, <1>3, <1>4, <1>5, <1>6 DEF Consistent

LEMMA Arrays ==
  ASSUME Consistent, NEW K, IsCode(K), todo = Then(Array, K), Next, Held
  PROVE  /\ Consistent'
         /\ \/ Collected
            \/ /\ Passes(K, "", 0)
               /\ UNCHANGED <<heap, strings, stack, frames, openUpvalues, globals, compilers, initString>>
<1>1. PICK s : s = Array
  OBVIOUS
<1>2. s.do = "array" /\ s.gets = ""
  BY <1>1 DEF Array, Step
<1>3. collectGarbage \/ enlarge
  BY <1>1, <1>2, Ways
<1>4. CASE collectGarbage
  BY <1>4, Collects DEF Collected
<1>5. CASE enlarge
  BY <1>1, <1>2, <1>5, Enlarges
<1> QED
  BY <1>3, <1>4, <1>5

LEMMA ReadSteps ==
  ASSUME Consistent, NEW of, NEW K, IsCode(K), todo = Then(Read(of), K), Next
  PROVE  /\ Consistent' /\ Passes(K, "", 0)
         /\ UNCHANGED <<heap, strings, stack, frames, openUpvalues, globals, compilers, initString>>
<1>1. PICK s : s = Read(of)
  OBVIOUS
<1>2. s.do = "read" /\ s.gets = ""
  BY <1>1 DEF Read, Step
<1>3. enlarge
  BY <1>1, <1>2, Ways
<1> QED
  BY <1>1, <1>2, <1>3, Enlarges

LEMMA AllocateSteps ==
  ASSUME Consistent, NEW type, NEW of, NEW K, IsCode(K), todo = Then(Allocate(type, of), K), Next,
         Held, FieldsOK(Allocate(type, of))
  PROVE  /\ Consistent'
         /\ \/ Collected
            \/ /\ \E a \in DOMAIN heap' : /\ Passes(K, type, a) /\ a \notin DOMAIN heap /\ a # 0
                                          /\ heap'[a].type = type
               /\ \A x \in DOMAIN heap : x \in DOMAIN heap' /\ heap'[x] = heap[x]
               /\ UNCHANGED <<stack, frames, openUpvalues, globals, compilers, initString>>
<1>1. PICK s : s = Allocate(type, of)
  OBVIOUS
<1>2. s.do = "allocate" /\ s.gets = type
  BY <1>1 DEF Allocate, Step
<1>3. collectGarbage \/ allocateObject
  BY <1>1, <1>2, Ways
<1>4. CASE collectGarbage
  BY <1>4, Collects DEF Collected
<1>5. CASE allocateObject
  BY <1>1, <1>2, <1>5, Allocates
<1> QED
  BY <1>3, <1>4, <1>5

LEMMA Finds ==
  ASSUME Consistent, NEW steps, NEW K, IsCode(K), todo = Then(FindOr(steps), K), Next,
         Wanted(steps \o K) \subseteq Wanted(K) \ {"string"}
  PROVE  /\ Consistent'
         /\ \/ \E x \in DOMAIN heap : Passes(K, "string", x)
            \/ Passes(steps \o K, "", 0)
         /\ UNCHANGED <<heap, strings, stack, frames, openUpvalues, globals, compilers, initString>>
<1>1. HeapOK /\ RootsOK /\ LocalsOK
  BY DEF Consistent
<1>2. PICK s : s = FindOr(steps)
  OBVIOUS
<1>3. s.do = "find" /\ s.gets = "string" /\ s.of = <<>> /\ s.otherwise = steps
  BY <1>2 DEF FindOr, Step
<1>4. find
  BY <1>2, <1>3, Ways
<1>5. first = s /\ Tail(todo) = K /\ DOMAIN locals = Wanted(K) \ {"string"}
  BY <1>1, <1>2, <1>3, At1, ToSets
<1>6. /\ (\E x \in strings : GoesWith(x)) \/ Continue(locals, steps \o K)
      /\ UNCHANGED <<heap, strings, stack, frames, openUpvalues, globals, compilers, initString>>
  BY <1>3, <1>4, <1>5 DEF find, machine
<1>7. (\E x \in DOMAIN heap : Passes(K, "string", x)) \/ Passes(steps \o K, "", 0)
  <2>1. CASE \E x \in strings : GoesWith(x)
    <3>1. PICK x \in strings : GoesWith(x)
      BY <2>1
    <3>2. Passes(K, "string", x)
      BY <1>1, <1>2, <1>3, <3>1, GoesWithIs
    <3> QED
      BY <1>1, <3>2 DEF RootsOK
  <2>2. CASE Continue(locals, steps \o K)
    <3>1. "" \notin Wanted(K)
      BY DEF IsCode
    <3> QED
      BY <1>5, <2>2, <3>1 DEF Continue, Passes
  <2> QED
    BY <1>6, <2>1, <2>2
<1>8. HeapOK'
  BY <1>1, <1>6, HeapStays
<1>9. RootsOK'
  BY <1>1, <1>6, RootsStay DEF Is
<1>10. LocalsOK'
  <2>1. Live' = Live /\ 0 \in Live /\ \A x \in DOMAIN heap : x \in Live
    BY <1>6 DEF Live
  <2> QED
    BY <1>1, <1>7, <2>1, PassesLocals
<1> QED
  BY <1>6, <1>7, <1>8, <1>9, <1>10 DEF Consistent

intern_ == Step("intern", <<"string">>, "")

LEMMA Interns ==
  ASSUME Consistent, NEW K, IsCode(K), todo = Then(intern_, K), Next,
         locals["string"] # 0
  PROVE  /\ Consistent' /\ Passes(K, "", 0)
         /\ UNCHANGED <<heap, stack, frames, openUpvalues, globals, compilers, initString>>
<1>1. HeapOK /\ RootsOK /\ LocalsOK
  BY DEF Consistent
<1>2. PICK s : s = intern_
  OBVIOUS
<1>3. s.do = "intern" /\ s.gets = "" /\ s.of = <<"string">>
  BY <1>2 DEF intern_, Step
<1>4. intern
  BY <1>2, <1>3, Ways
<1>5. first = s /\ "string" \in DOMAIN locals /\ locals["string"] \in Live
  BY <1>1, <1>2, <1>3, Operand
<1>6. At(1) = locals["string"]
  BY <1>1, <1>2, <1>3, Operand
<1>7. /\ Goes /\ strings' = strings \cup {locals["string"]}
      /\ UNCHANGED <<heap, stack, frames, openUpvalues, globals, compilers, initString>>
  BY <1>4, <1>6 DEF intern, machine
<1>8. Passes(K, "", 0)
  BY <1>1, <1>2, <1>3, <1>7, GoesIs
<1>9. HeapOK'
  BY <1>1, <1>7, HeapStays
<1>10. RootsOK'
  BY <1>1, <1>5, <1>7 DEF RootsOK, Live, Is
<1>11. LocalsOK'
  BY <1>1, <1>7, <1>8, PassesLocals DEF Live
<1> QED
  BY <1>7, <1>8, <1>9, <1>10, <1>11 DEF Consistent

---------------------------------------------------------------------------
(* copyString and takeString, followed by K.                               *)

popString(K)    == Then(Pop, K)
internString(K) == Then(intern_, popString(K))
growStrings(K)  == Then(Array, internString(K))
pushString(K)   == Then(Push("string"), growStrings(K))
makeString(K)   == Then(Allocate("string", <<>>), pushString(K))
makeChars(K)    == Then(Array, makeString(K))
copies(K)       == Then(FindOr(<<Array>> \o allocateString), K)
takes(K)        == Then(FindOr(allocateString), K)

InString(mode, n, K) ==
  \/ todo \in {copies(K), takes(K), makeChars(K), makeString(K)} /\ Level(mode, n)
  \/ todo = pushString(K) /\ Level(mode, n) /\ locals["string"] # 0
  \/ /\ todo \in {growStrings(K), internString(K)}
     /\ Level(mode, n + 1) /\ locals["string"] = Top(0) /\ Top(0) # 0
  \/ todo = popString(K) /\ Level(mode, n + 1) /\ locals["string"] # 0

HasString(mode, n, K) == todo = K /\ Level(mode, n) /\ locals["string"] # 0

LEMMA StringCode ==
  ASSUME NEW K, IsCode(K), Wanted(K) = {"string"}
  PROVE  /\ \A L \in {popString(K), internString(K), growStrings(K), pushString(K)} :
              IsCode(L) /\ Wanted(L) = {"string"}
         /\ \A L \in {makeString(K), makeChars(K), copies(K), takes(K)} :
              IsCode(L) /\ Wanted(L) = {}
         /\ allocateString \o K = makeString(K)
         /\ (<<Array>> \o allocateString) \o K = makeChars(K)
<1>1. IsCode(popString(K)) /\ Wanted(popString(K)) = {"string"}
  BY PopCode DEF popString
<1>2. IsCode(internString(K)) /\ Wanted(internString(K)) = {"string"}
  BY <1>1, OfCode DEF internString, intern_
<1>3. IsCode(growStrings(K)) /\ Wanted(growStrings(K)) = {"string"}
  BY <1>2, ArrayCode DEF growStrings
<1>4. IsCode(pushString(K)) /\ Wanted(pushString(K)) = {"string"}
  BY <1>3, PushCode DEF pushString
<1>5. IsCode(makeString(K)) /\ Wanted(makeString(K)) = {}
  BY <1>4, AllocateCode DEF makeString
<1>6. IsCode(makeChars(K)) /\ Wanted(makeChars(K)) = {}
  BY <1>5, ArrayCode DEF makeChars
<1>7. IsCode(copies(K)) /\ Wanted(copies(K)) = {}
  BY FindCode DEF copies
<1>8. IsCode(takes(K)) /\ Wanted(takes(K)) = {}
  BY FindCode DEF takes
<1>9. K \in Seq(Range(K))
  BY DEF IsCode
<1>10. allocateString \o K = makeString(K)
  <2>1. PICK a, b, c, d, e : /\ a = Allocate("string", <<>>) /\ b = Push("string") /\ c = Array
                             /\ d = intern_ /\ e = Pop
    OBVIOUS
  <2>2. <<a, b, c, d, e>> \o K = Then(a, Then(b, Then(c, Then(d, Then(e, K)))))
    BY <1>9, FiveSteps
  <2>3. allocateString = <<a, b, c, d, e>>
    BY <2>1 DEF allocateString, intern_
  <2>4. makeString(K) = Then(a, Then(b, Then(c, Then(d, Then(e, K)))))
    BY <2>1 DEF makeString, pushString, growStrings, internString, popString
  <2> QED
    BY <2>2, <2>3, <2>4
<1>11. PICK A : A = allocateString
  OBVIOUS
<1>12. A \in Seq(Range(A))
  BY <1>11, FiveCode DEF allocateString
<1>13. <<Array>> \o A = Then(Array, A)
  BY OneSteps, <1>12
<1>14. Then(Array, A) \o K = Then(Array, A \o K)
  BY <1>9, <1>12, ThenJoined
<1>15. (<<Array>> \o allocateString) \o K = makeChars(K)
  BY <1>10, <1>11, <1>13, <1>14 DEF makeChars
<1> QED
  BY <1>1, <1>2, <1>3, <1>4, <1>5, <1>6, <1>7, <1>8, <1>10, <1>15

LEMMA NothingHeld ==
  ASSUME LocalsOK, Wanted(todo) = {}
  PROVE  Held
BY DEF LocalsOK, Held

(* Where only string is wanted.                                            *)
LEMMA StringHeld ==
  ASSUME LocalsOK, Wanted(todo) = {"string"}, Kept(locals["string"])
  PROVE  Held
BY DEF LocalsOK, Held

LEMMA StringNext ==
  ASSUME Consistent, Next, NEW mode, NEW n \in Nat, NEW K, IsCode(K), Wanted(K) = {"string"},
         InString(mode, n, K)
  PROVE  Consistent' /\ (InString(mode, n, K)' \/ HasString(mode, n, K)')
<1>1. HeapOK /\ LocalsOK /\ 0 \notin DOMAIN heap
  BY DEF Consistent, HeapOK
<1>2. CASE todo = copies(K) /\ Level(mode, n)
  <2>1. PICK S : S = <<Array>> \o allocateString
    OBVIOUS
  <2>2. S \o K = makeChars(K) /\ Wanted(S \o K) = {} /\ todo = Then(FindOr(S), K)
    BY <1>2, <2>1, StringCode DEF copies
  <2>3. /\ Consistent'
        /\ (\E x \in DOMAIN heap : Passes(K, "string", x)) \/ Passes(S \o K, "", 0)
        /\ UNCHANGED <<heap, strings, stack, frames, openUpvalues, globals, compilers, initString>>
    BY <2>2, Finds
  <2>4. Level(mode, n)'
    BY <1>2, <2>3, LevelStays
  <2> QED
    BY <1>1, <2>2, <2>3, <2>4 DEF Passes, InString, HasString
<1>3. CASE todo = takes(K) /\ Level(mode, n)
  <2>1. PICK S : S = allocateString
    OBVIOUS
  <2>2. S \o K = makeString(K) /\ Wanted(S \o K) = {} /\ todo = Then(FindOr(S), K)
    BY <1>3, <2>1, StringCode DEF takes
  <2>3. /\ Consistent'
        /\ (\E x \in DOMAIN heap : Passes(K, "string", x)) \/ Passes(S \o K, "", 0)
        /\ UNCHANGED <<heap, strings, stack, frames, openUpvalues, globals, compilers, initString>>
    BY <2>2, Finds
  <2>4. Level(mode, n)'
    BY <1>3, <2>3, LevelStays
  <2> QED
    BY <1>1, <2>2, <2>3, <2>4 DEF Passes, InString, HasString
<1>4. CASE todo = makeChars(K) /\ Level(mode, n)
  <2>1. PICK L : L = makeString(K)
    OBVIOUS
  <2>2. IsCode(L) /\ todo = Then(Array, L) /\ Wanted(todo) = {}
    BY <1>4, <2>1, StringCode DEF makeChars
  <2>3. Held
    BY <1>1, <2>2, NothingHeld
  <2>4. Consistent' /\ (Collected \/ (/\ Passes(L, "", 0)
               /\ UNCHANGED <<heap, strings, stack, frames, openUpvalues, globals, compilers, initString>>))
    BY <2>2, <2>3, Arrays
  <2>5. todo' \in {makeChars(K), L} /\ UNCHANGED <<stack, frames, openUpvalues, compilers>>
    BY <1>4, <2>4 DEF Collected, Passes
  <2>6. Level(mode, n)'
    BY <1>4, <2>5, LevelStays
  <2> QED
    BY <2>1, <2>4, <2>5, <2>6 DEF InString
<1>5. CASE todo = makeString(K) /\ Level(mode, n)
  <2>1. PICK L : L = pushString(K)
    OBVIOUS
  <2>2. IsCode(L) /\ todo = Then(Allocate("string", <<>>), L) /\ Wanted(todo) = {} /\ Wanted(L) = {"string"}
    BY <1>5, <2>1, StringCode DEF makeString
  <2>3. Held
    BY <1>1, <2>2, NothingHeld
  <2>4. FieldsOK(Allocate("string", <<>>))
    BY ToSets DEF FieldsOK, Allocate, Step
  <2>5. /\ Consistent'
        /\ \/ Collected
           \/ /\ \E a \in DOMAIN heap' : Passes(L, "string", a) /\ a # 0
              /\ UNCHANGED <<stack, frames, openUpvalues, globals, compilers, initString>>
    BY <2>2, <2>3, <2>4, AllocateSteps
  <2>6. UNCHANGED <<stack, frames, openUpvalues, compilers>>
    BY <2>5 DEF Collected
  <2>7. Level(mode, n)'
    BY <1>5, <2>6, LevelStays
  <2>8. todo' = makeString(K) \/ (todo' = L /\ locals'["string"] # 0)
    BY <1>5, <2>2, <2>5 DEF Collected, Passes
  <2> QED
    BY <2>1, <2>5, <2>7, <2>8 DEF InString
<1>6. CASE todo = pushString(K) /\ Level(mode, n) /\ locals["string"] # 0
  <2>1. PICK L : L = growStrings(K)
    OBVIOUS
  <2>2. IsCode(L) /\ todo = Then(Push("string"), L) /\ Wanted(L) = {"string"}
    BY <1>6, <2>1, StringCode DEF pushString
  <2>3. /\ Consistent' /\ Passes(L, "", 0) /\ Level(mode, n + 1)'
        /\ Top(0)' = locals["string"]
    BY <1>6, <2>2, Pushes
  <2>4. todo' = L /\ locals'["string"] = locals["string"]
    BY <2>2, <2>3 DEF Passes
  <2> QED
    BY <1>6, <2>1, <2>3, <2>4 DEF InString
<1>7. CASE todo = growStrings(K) /\ Level(mode, n + 1) /\ locals["string"] = Top(0) /\ Top(0) # 0
  <2>1. PICK L : L = internString(K)
    OBVIOUS
  <2>2. IsCode(L) /\ todo = Then(Array, L) /\ Wanted(todo) = {"string"} /\ Wanted(L) = {"string"}
    BY <1>7, <2>1, StringCode DEF growStrings
  <2>3. n + 1 <= Len(stack)
    BY <1>7 DEF Level, Bare, Room
  <2>4. 0 + 1 <= Len(stack)
    BY <2>3 DEF Consistent, RootsOK
  <2>5. Held
    BY <1>1, <1>7, <2>2, <2>4, TopIs, StringHeld
  <2>6. Consistent' /\ (Collected \/ (/\ Passes(L, "", 0)
               /\ UNCHANGED <<heap, strings, stack, frames, openUpvalues, globals, compilers, initString>>))
    BY <2>2, <2>5, Arrays
  <2>7. todo' \in {growStrings(K), L} /\ UNCHANGED <<stack, frames, openUpvalues, compilers>>
        /\ locals'["string"] = locals["string"]
    BY <1>7, <2>2, <2>6 DEF Collected, Passes
  <2>8. Level(mode, n + 1)'
    BY <1>7, <2>7, LevelStays
  <2>9. Top(0)' = Top(0)
    BY <2>7 DEF Top
  <2> QED
    BY <1>7, <2>1, <2>6, <2>7, <2>8, <2>9 DEF InString
<1>8. CASE todo = internString(K) /\ Level(mode, n + 1) /\ locals["string"] = Top(0) /\ Top(0) # 0
  <2>1. PICK L : L = popString(K)
    OBVIOUS
  <2>2. IsCode(L) /\ todo = Then(intern_, L) /\ Wanted(L) = {"string"}
    BY <1>8, <2>1, StringCode DEF internString
  <2>3. /\ Consistent' /\ Passes(L, "", 0)
        /\ UNCHANGED <<heap, stack, frames, openUpvalues, globals, compilers, initString>>
    BY <1>8, <2>2, Interns
  <2>4. todo' = L /\ locals'["string"] = locals["string"]
    BY <2>2, <2>3 DEF Passes
  <2>5. Level(mode, n + 1)'
    BY <1>8, <2>3, LevelStays
  <2> QED
    BY <1>8, <2>1, <2>3, <2>4, <2>5 DEF InString
<1>9. CASE todo = popString(K) /\ Level(mode, n + 1) /\ locals["string"] # 0
  <2>1. todo = Then(Pop, K)
    BY <1>9 DEF popString
  <2>2. Consistent' /\ Passes(K, "", 0) /\ Level(mode, n)'
    BY <1>9, <2>1, Pops
  <2>3. todo' = K /\ locals'["string"] = locals["string"]
    BY <2>2 DEF Passes
  <2> QED
    BY <1>9, <2>2, <2>3 DEF HasString
<1> QED
  BY <1>2, <1>3, <1>4, <1>5, <1>6, <1>7, <1>8, <1>9 DEF InString

---------------------------------------------------------------------------
(* The other steps.                                                        *)

(* What is kept is still there, as it was.                                 *)
Stays ==
  \A x : Kept(x) =>
    /\ Kept(x)' /\ \A type : Is(x, type) => Is(x, type)'
    /\ \A name, key : Has(x, name, key) => Has(x, name, key)' /\ Ref(x, name, key)' = Ref(x, name, key)

LEMMA NothingChanges ==
  ASSUME HeapOK, RootsOK, UNCHANGED <<heap, stack, frames, openUpvalues, globals, compilers, initString>>
  PROVE  Stays
<1>1. \A x : Kept(x)' <=> Kept(x)
  BY DEF Kept, Reaches, Roots, IsClosed
<1> QED
  BY <1>1 DEF Stays, Is, Has, Ref

LEMMA CollectedStays ==
  ASSUME Collected, HeapOK
  PROVE  Stays
<1>1. \A x : Kept(x) => x = 0 \/ (Reaches(x) /\ x \in DOMAIN heap')
  BY DEF Kept, Collected
<1>2. \A x : Kept(x) => x = 0 \/ heap'[x] = heap[x]
  BY <1>1 DEF Collected
<1>3. \A x : Kept(x) => Kept(x)'
  BY <1>1 DEF Kept, Collected
<1> QED
  BY <1>1, <1>2, <1>3 DEF Stays, Is, Has, Ref

(* An array grows, which may collect.                                      *)
LEMMA ArrayStep ==
  ASSUME Consistent, Next, NEW K, IsCode(K), todo = Then(Array, K), Held, NEW mode, NEW n, Level(mode, n)
  PROVE  /\ Consistent' /\ Level(mode, n)' /\ Stays
         /\ todo' = todo \/ todo' = K
         /\ \A v \in Wanted(K) : locals'[v] = locals[v]
         /\ UNCHANGED <<stack, frames, openUpvalues, globals, compilers, initString>>
         /\ \A k : Top(k)' = Top(k)
<1>1. HeapOK /\ RootsOK /\ LocalsOK
  BY DEF Consistent
<1>2. /\ Consistent'
      /\ \/ Collected
         \/ /\ Passes(K, "", 0)
            /\ UNCHANGED <<heap, strings, stack, frames, openUpvalues, globals, compilers, initString>>
  BY Arrays
<1>3. UNCHANGED <<stack, frames, openUpvalues, globals, compilers, initString>>
  BY <1>2 DEF Collected
<1>4. Level(mode, n)'
  BY <1>3, LevelStays
<1>5. Stays
  BY <1>1, <1>2, CollectedStays, NothingChanges
<1>6. "" \notin Wanted(K)
  BY DEF IsCode
<1>7. todo' = todo \/ todo' = K
  BY <1>2 DEF Collected, Passes
<1>8. \A v \in Wanted(K) : locals'[v] = locals[v]
  BY <1>2, <1>6 DEF Collected, Passes
<1>9. \A k : Top(k)' = Top(k)
  BY <1>3 DEF Top
<1> QED
  BY <1>2, <1>3, <1>4, <1>5, <1>7, <1>8, <1>9

(* An object is allocated, which may collect.                              *)
LEMMA AllocateStep ==
  ASSUME Consistent, Next, NEW type, Named(type), NEW of, NEW K, IsCode(K), todo = Then(Allocate(type, of), K), Held,
         FieldsOK(Allocate(type, of)), NEW mode, NEW n, Level(mode, n)
  PROVE  /\ Consistent' /\ Level(mode, n)'
         /\ UNCHANGED <<stack, frames, openUpvalues, globals, compilers, initString>>
         /\ \A k : Top(k)' = Top(k)
         /\ \A x : Kept(x) /\ x \in Live => \A t : Is(x, t) => Is(x, t)'
         /\ \/ Collected /\ Stays /\ todo' = todo /\ locals' = locals
            \/ /\ todo' = K
               /\ \A v \in Wanted(K) : v # type => locals'[v] = locals[v]
               /\ type \in Wanted(K) => locals'[type] # 0 /\ heap'[locals'[type]].type = type
               /\ \A x \in DOMAIN heap : x \in DOMAIN heap' /\ heap'[x] = heap[x]
<1>1. HeapOK /\ RootsOK /\ LocalsOK
  BY DEF Consistent
<1>2. /\ Consistent'
      /\ \/ Collected
         \/ /\ \E a \in DOMAIN heap' : /\ Passes(K, type, a) /\ a \notin DOMAIN heap /\ a # 0
                                       /\ heap'[a].type = type
            /\ \A x \in DOMAIN heap : x \in DOMAIN heap' /\ heap'[x] = heap[x]
            /\ UNCHANGED <<stack, frames, openUpvalues, globals, compilers, initString>>
  BY AllocateSteps
<1>3. UNCHANGED <<stack, frames, openUpvalues, globals, compilers, initString>>
  BY <1>2 DEF Collected
<1>4. Level(mode, n)'
  BY <1>3, LevelStays
<1>5. \A k : Top(k)' = Top(k)
  BY <1>3 DEF Top
<1>6. CASE Collected
  <2>1. Stays /\ todo' = todo /\ locals' = locals
    BY <1>1, <1>6, CollectedStays DEF Collected
  <2>2. \A x : Kept(x) => \A t : Is(x, t) => Is(x, t)'
    BY <2>1 DEF Stays
  <2> QED
    BY <1>2, <1>3, <1>4, <1>5, <1>6, <2>1, <2>2
<1>7. ASSUME NEW a \in DOMAIN heap', Passes(K, type, a), a # 0, heap'[a].type = type,
             \A x \in DOMAIN heap : x \in DOMAIN heap' /\ heap'[x] = heap[x]
      PROVE  /\ \A x : Kept(x) /\ x \in Live => \A t : Is(x, t) => Is(x, t)'
             /\ todo' = K
             /\ \A v \in Wanted(K) : v # type => locals'[v] = locals[v]
             /\ type \in Wanted(K) => locals'[type] # 0 /\ heap'[locals'[type]].type = type
  <2>1. \A x \in Live : \A t : Is(x, t) => Is(x, t)'
    BY <1>7 DEF Is, Live
  <2>2. todo' = K /\ \A v \in Wanted(K) : locals'[v] = IF v = type THEN a ELSE locals[v]
    BY <1>7 DEF Passes
  <2>3. PICK b : b = locals'[type]
    OBVIOUS
  <2>4. type \in Wanted(K) => b = a
    BY <2>2, <2>3
  <2>5. Is(a, type)'
    BY <1>7 DEF Is
  <2>6. type \in Wanted(K) => locals'[type] # 0 /\ heap'[locals'[type]].type = type
    BY <1>7, <2>3, <2>4 DEF Is
  <2> QED
    BY <2>1, <2>2, <2>6
<1> QED
  BY <1>2, <1>3, <1>4, <1>5, <1>6, <1>7

(* A C variable gets what is on the stack.                                 *)
LEMMA PeekStep ==
  ASSUME Consistent, Next, NEW k \in Nat, NEW v, NEW K, IsCode(K), todo = Then(Peek(k, v), K),
         k + 1 <= Len(stack), NEW mode, NEW n, Level(mode, n)
  PROVE  /\ Consistent' /\ Level(mode, n)' /\ todo' = K
         /\ \A w \in Wanted(K) : locals'[w] = IF w = v THEN Top(k) ELSE locals[w]
         /\ UNCHANGED <<heap, strings, stack, frames, openUpvalues, globals, compilers, initString>>
         /\ \A j : Top(j)' = Top(j)
         /\ Stays
<1>1. HeapOK /\ RootsOK /\ LocalsOK
  BY DEF Consistent
<1>2. PICK s : s = Peek(k, v)
  OBVIOUS
<1>3. s.do = "peek" /\ s.gets = v /\ s.n = k
  BY <1>2 DEF Peek, Step
<1>4. first = s /\ moveStack
  BY <1>2, <1>3, Ways
<1>5. /\ GoesWith(Top(k))
      /\ UNCHANGED <<heap, strings, stack, frames, openUpvalues, globals, compilers, initString>>
  BY <1>3, <1>4 DEF moveStack, Doing
<1>6. PICK a : a = Top(k)
  OBVIOUS
<1>7. Passes(K, v, a)
  BY <1>1, <1>2, <1>3, <1>5, <1>6, GoesWithIs
<1>8. HeapOK'
  BY <1>1, <1>5, HeapStays
<1>9. RootsOK'
  BY <1>1, <1>5, RootsStay DEF Is
<1>10. a \in Live
  BY <1>6, TopIs
<1>11. LocalsOK'
  BY <1>1, <1>5, <1>7, <1>10, PassesLocals DEF Live
<1>12. Level(mode, n)' /\ Stays
  BY <1>1, <1>5, LevelStays, NothingChanges
<1>13. \A j : Top(j)' = Top(j)
  BY <1>5 DEF Top
<1>14. todo' = K /\ \A w \in Wanted(K) : locals'[w] = IF w = v THEN Top(k) ELSE locals[w]
  BY <1>6, <1>7 DEF Passes
<1> QED
  BY <1>5, <1>8, <1>9, <1>11, <1>12, <1>13, <1>14 DEF Consistent

(* A place of the stack gets what a C variable holds.                      *)
LEMMA PokeStep ==
  ASSUME Consistent, Next, NEW k \in Nat, NEW v, NEW K, IsCode(K), todo = Then(Poke(k, v), K),
         k + 1 <= Len(stack), NEW mode, NEW n, Level(mode, n)
  PROVE  /\ Consistent' /\ Level(mode, n)' /\ todo' = K
         /\ \A w \in Wanted(K) : locals'[w] = locals[w]
         /\ UNCHANGED <<heap, strings, frames, openUpvalues, globals, compilers, initString>>
         /\ Len(stack') = Len(stack) /\ Top(k)' = locals[v]
<1>1. HeapOK /\ RootsOK /\ LocalsOK
  BY DEF Consistent
<1>2. PICK s : s = Poke(k, v)
  OBVIOUS
<1>3. s.do = "poke" /\ s.of = <<v>> /\ s.gets = "" /\ s.n = k
  BY <1>2 DEF Poke, Step
<1>4. first = s /\ At(1) = locals[v] /\ v \in DOMAIN locals /\ locals[v] \in Live
  BY <1>1, <1>2, <1>3, Operand
<1>5. moveStack
  BY <1>2, <1>3, Ways
<1>6. PICK a, l : a = locals[v] /\ l = Len(stack)
  OBVIOUS
<1>7. /\ stack' = [stack EXCEPT ![l - k] = a] /\ Goes
      /\ UNCHANGED <<heap, strings, frames, openUpvalues, globals, compilers, initString>>
  <2>1. /\ stack' = [stack EXCEPT ![Len(stack) - first.n] = At(1)] /\ Goes
        /\ UNCHANGED <<heap, strings, frames, openUpvalues, globals, compilers, initString>>
    BY <1>3, <1>4, <1>5 DEF moveStack, Doing
  <2> QED
    BY <1>3, <1>4, <1>6, <2>1
<1>8. Passes(K, "", 0)
  BY <1>1, <1>2, <1>3, <1>7, GoesIs
<1>9. a \in Live /\ a \in Nat /\ stack \in Seq(Nat) /\ l \in Nat /\ l - k \in 1..l
  <2>1. a \in Live /\ a \in Nat /\ stack \in Seq(Nat)
    BY <1>1, <1>4, <1>6 DEF HeapOK, RootsOK, Live
  <2>2. l \in Nat
    BY <1>6, <2>1
  <2> QED
    BY <1>6, <2>1, <2>2
<1>10. PICK t : t = [stack EXCEPT ![l - k] = a]
  OBVIOUS
<1>11. /\ t \in Seq(Nat) /\ Len(t) = l /\ t[l - k] = a
       /\ \A i \in 1..l : t[i] = IF i = l - k THEN a ELSE stack[i]
  BY <1>6, <1>9, <1>10
<1>12. ToSet(t) \subseteq ToSet(stack) \cup {a}
  <2>1. DOMAIN t = 1..l /\ DOMAIN stack = 1..l
    BY <1>6, <1>9, <1>11
  <2> QED
    BY <1>11, <2>1, ToSetIs
<1>13. stack' = t
  BY <1>7, <1>10
<1>14. HeapOK'
  BY <1>1, <1>7, HeapStays
<1>15. RootsOK'
  <2>1. \A u \in openUpvalues : u.location \in 1..Len(t)
    BY <1>1, <1>6, <1>11 DEF RootsOK
  <2> QED
    BY <1>1, <1>7, <1>9, <1>11, <1>12, <1>13, <2>1 DEF RootsOK, Live, Is
<1>16. LocalsOK'
  BY <1>1, <1>7, <1>8, PassesLocals DEF Live
<1>17. Level(mode, n)'
  BY <1>6, <1>7, <1>11, <1>13 DEF Level, Bare, Room
<1>18. Len(stack') = Len(stack) /\ Top(k)' = locals[v]
  BY <1>6, <1>11, <1>13 DEF Top
<1>19. "" \notin Wanted(K)
  BY DEF IsCode
<1>20. todo' = K /\ \A w \in Wanted(K) : locals'[w] = locals[w]
  BY <1>8, <1>19 DEF Passes
<1> QED
  BY <1>7, <1>14, <1>15, <1>16, <1>17, <1>18, <1>20 DEF Consistent

(* A native function returns.                                              *)
Native(k) == [Step("native", <<>>, "") EXCEPT !.n = k]

LEMMA NativeStep ==
  ASSUME Consistent, Next, NEW k \in Nat, NEW K, IsCode(K), todo = Then(Native(k), K), Level("running", k + 1)
  PROVE  Consistent' /\ Level("running", 0)' /\ todo' = K
<1>1. HeapOK /\ RootsOK /\ LocalsOK
  BY DEF Consistent
<1>2. PICK s : s = Native(k)
  OBVIOUS
<1>3. s.do = "native" /\ s.gets = "" /\ s.n = k
  BY <1>2 DEF Native, Step
<1>4. first = s /\ moveStack
  BY <1>2, <1>3, Ways
<1>5. PICK l : l = Len(stack)
  OBVIOUS
<1>6. /\ stack' = Append(SubSeq(stack, 1, l - k - 1), 0) /\ Goes
      /\ UNCHANGED <<heap, strings, frames, openUpvalues, globals, compilers, initString>>
  BY <1>3, <1>4, <1>5 DEF moveStack, Doing
<1>7. Passes(K, "", 0)
  BY <1>1, <1>2, <1>3, <1>6, GoesIs
<1>8. stack \in Seq(Nat) /\ l \in Nat /\ k + 1 <= l /\ \A u \in openUpvalues : u.location <= l - (k + 1)
  <2>1. stack \in Seq(Nat)
    BY <1>1 DEF RootsOK
  <2> QED
    BY <1>5, <2>1 DEF Level, Room
<1>9. PICK m : m = l - k - 1
  OBVIOUS
<1>10. m \in 0..l /\ m \in Nat /\ l - (k + 1) = m
  BY <1>8, <1>9
<1>11. PICK f : f = SubSeq(stack, 1, m)
  OBVIOUS
<1>12. f \in Seq(Nat) /\ Len(f) = m /\ \A i \in 1..m : f[i] = stack[i]
  BY <1>5, <1>8, <1>10, <1>11
<1>13. PICK t : t = Append(f, 0)
  OBVIOUS
<1>14. t \in Seq(Nat) /\ Len(t) = m + 1 /\ t[m + 1] = 0 /\ \A i \in 1..m : t[i] = stack[i]
  BY <1>10, <1>12, <1>13
<1>15. ToSet(t) \subseteq ToSet(stack) \cup {0}
  <2>1. DOMAIN t = 1..(m + 1) /\ DOMAIN stack = 1..l
    BY <1>5, <1>8, <1>14
  <2>2. \A i \in 1..(m + 1) : i = m + 1 \/ (i \in 1..m /\ i \in 1..l)
    BY <1>8, <1>10
  <2> QED
    BY <1>14, <2>1, <2>2, ToSetIs
<1>16. stack' = t
  BY <1>6, <1>9, <1>11, <1>13
<1>17. HeapOK'
  BY <1>1, <1>6, HeapStays
<1>18. RootsOK'
  <2>1. \A u \in openUpvalues : u.location \in 1..Len(t)
    BY <1>1, <1>8, <1>10, <1>14 DEF RootsOK
  <2> QED
    BY <1>1, <1>6, <1>14, <1>15, <1>16, <2>1 DEF RootsOK, Live, Is
<1>19. LocalsOK'
  BY <1>1, <1>6, <1>7, PassesLocals DEF Live
<1>20. Level("running", 0)'
  <2>1. PICK j : j = Len(t)
    OBVIOUS
  <2>2. j = m + 1
    BY <1>14, <2>1
  <2>3. \A u \in openUpvalues : u.location \in Nat /\ u.location <= m
    BY <1>1, <1>8, <1>10, <1>5 DEF RootsOK
  <2>4. \A u \in openUpvalues : u.location <= j - 0
    BY <1>10, <2>2, <2>3
  <2>5. 0 <= j
    BY <1>10, <2>2
  <2>6. Room(0)'
    BY <1>6, <1>16, <2>1, <2>4, <2>5 DEF Room
  <2> QED
    BY <1>6, <2>6 DEF Level
<1> QED
  BY <1>7, <1>17, <1>18, <1>19, <1>20 DEF Consistent, Passes

(* Roots of the machine are set.                                           *)
LEMMA GlobalStep ==
  ASSUME Consistent, Next, NEW k, NEW v, NEW K, IsCode(K), todo = Then(SetGlobal(k, v), K),
         NEW mode, NEW n, Level(mode, n)
  PROVE  /\ Consistent' /\ Level(mode, n)' /\ todo' = K
         /\ \A w \in Wanted(K) : locals'[w] = locals[w]
<1>1. HeapOK /\ RootsOK /\ LocalsOK
  BY DEF Consistent
<1>2. PICK s : s = SetGlobal(k, v)
  OBVIOUS
<1>3. s.do = "global" /\ s.of = <<k, v>> /\ s.gets = ""
  BY <1>2 DEF SetGlobal, Step
<1>4. first = s /\ setRoot
  BY <1>2, <1>3, Ways
<1>5. PICK a, b : a = locals[k] /\ b = locals[v]
  OBVIOUS
<1>6. At(1) = a /\ At(2) = b /\ a \in Live /\ b \in Live
  BY <1>1, <1>2, <1>3, <1>5, TwoOperands
<1>7. /\ globals' = With(globals, a, b) /\ Goes
      /\ UNCHANGED <<heap, strings, stack, frames, openUpvalues, compilers, initString>>
  BY <1>3, <1>4, <1>6 DEF setRoot, Doing
<1>8. Passes(K, "", 0)
  BY <1>1, <1>2, <1>3, <1>7, GoesIs
<1>9. HeapOK'
  BY <1>1, <1>7, HeapStays
<1>10. DOMAIN globals' \cup Range(globals') \subseteq Live
  <2>1. DOMAIN globals \subseteq Live /\ \A x \in DOMAIN globals : globals[x] \in Live
    BY <1>1 DEF RootsOK, Range
  <2>2. DOMAIN With(globals, a, b) \subseteq Live
        /\ \A x \in DOMAIN With(globals, a, b) : With(globals, a, b)[x] \in Live
    BY <1>6, <2>1 DEF With
  <2> QED
    BY <1>7, <2>2 DEF Range
<1>11. RootsOK'
  BY <1>1, <1>7, <1>10 DEF RootsOK, Live, Is
<1>12. LocalsOK'
  BY <1>1, <1>7, <1>8, PassesLocals DEF Live
<1>13. Level(mode, n)'
  BY <1>7, LevelStays
<1>14. "" \notin Wanted(K)
  BY DEF IsCode
<1> QED
  BY <1>8, <1>9, <1>11, <1>12, <1>13, <1>14 DEF Consistent, Passes

initString_ == Step("initString", <<"string">>, "")

LEMMA InitStringStep ==
  ASSUME Consistent, Next, NEW K, IsCode(K), todo = Then(initString_, K), NEW mode, NEW n, Level(mode, n)
  PROVE  Consistent' /\ Level(mode, n)' /\ todo' = K
<1>1. HeapOK /\ RootsOK /\ LocalsOK
  BY DEF Consistent
<1>2. PICK s : s = initString_
  OBVIOUS
<1>3. s.do = "initString" /\ s.of = <<"string">> /\ s.gets = ""
  BY <1>2 DEF initString_, Step
<1>4. first = s /\ setRoot
  BY <1>2, <1>3, Ways
<1>5. PICK a : a = locals["string"]
  OBVIOUS
<1>6. At(1) = a /\ a \in Live
  BY <1>1, <1>2, <1>3, <1>5, Operand
<1>7. /\ initString' = a /\ Goes
      /\ UNCHANGED <<heap, strings, stack, frames, openUpvalues, compilers, globals>>
  BY <1>3, <1>4, <1>6 DEF setRoot, Doing
<1>8. Passes(K, "", 0)
  BY <1>1, <1>2, <1>3, <1>7, GoesIs
<1>9. HeapOK'
  BY <1>1, <1>7, HeapStays
<1>10. RootsOK'
  BY <1>1, <1>6, <1>7 DEF RootsOK, Live, Is
<1>11. LocalsOK'
  BY <1>1, <1>7, <1>8, PassesLocals DEF Live
<1>12. Level(mode, n)'
  BY <1>7, LevelStays
<1> QED
  BY <1>8, <1>9, <1>10, <1>11, <1>12 DEF Consistent, Passes

(* A compiler begins, and ends.                                            *)
current_ == Step("current", <<"function">>, "")

LEMMA CurrentStep ==
  ASSUME Consistent, Next, NEW K, IsCode(K), todo = Then(current_, K),
         NEW n \in Nat, Bare(n), locals["function"] # 0
  PROVE  Consistent' /\ Level("compiling", n)' /\ todo' = K
<1>1. HeapOK /\ RootsOK /\ LocalsOK
  BY DEF Consistent
<1>2. PICK s : s = current_
  OBVIOUS
<1>3. s.do = "current" /\ s.of = <<"function">> /\ s.gets = ""
  BY <1>2 DEF current_, Step
<1>4. first = s /\ setRoot
  BY <1>2, <1>3, Ways
<1>5. PICK a : a = locals["function"]
  OBVIOUS
<1>6. At(1) = a /\ a \in Live /\ a \in DOMAIN heap /\ a \in Nat
  BY <1>1, <1>2, <1>3, <1>5, Operand DEF Live, HeapOK
<1>7. PICK t : t = Append(compilers, a)
  OBVIOUS
<1>8. /\ compilers' = t /\ Goes
      /\ UNCHANGED <<heap, strings, stack, frames, openUpvalues, initString, globals>>
  BY <1>3, <1>4, <1>6, <1>7 DEF setRoot, Doing
<1>9. Passes(K, "", 0)
  BY <1>1, <1>2, <1>3, <1>8, GoesIs
<1>10. HeapOK'
  BY <1>1, <1>8, HeapStays
<1>11. t \in Seq(Nat) /\ t # <<>> /\ ToSet(t) \subseteq DOMAIN heap
  <2>1. compilers \in Seq(Nat) /\ Len(compilers) \in Nat /\ ToSet(compilers) \subseteq DOMAIN heap
    BY <1>1 DEF RootsOK
  <2>2. PICK l : l = Len(compilers)
    OBVIOUS
  <2>3. /\ t \in Seq(Nat) /\ t # <<>> /\ DOMAIN t = 1..(l + 1) /\ DOMAIN compilers = 1..l /\ l \in Nat
        /\ t[l + 1] = a /\ \A i \in 1..l : t[i] = compilers[i]
    BY <1>6, <1>7, <2>1, <2>2
  <2>4. \A i \in 1..(l + 1) : i = l + 1 \/ i \in 1..l
    BY <2>3
  <2>5. \A i \in 1..l : compilers[i] \in DOMAIN heap
    BY <2>1, <2>3, ToSetIs
  <2>6. \A i \in 1..(l + 1) : t[i] \in DOMAIN heap
    BY <1>6, <2>3, <2>4, <2>5
  <2> QED
    BY <2>3, <2>6, ToSetIs
<1>12. RootsOK'
  BY <1>1, <1>8, <1>11 DEF RootsOK, Live, Is
<1>13. LocalsOK'
  BY <1>1, <1>8, <1>9, PassesLocals DEF Live
<1>14. Level("compiling", n)'
  BY <1>8, <1>11 DEF Level, Bare
<1> QED
  BY <1>9, <1>10, <1>12, <1>13, <1>14 DEF Consistent, Passes

end_ == Step("end", <<>>, "function")

LEMMA EndStep ==
  ASSUME Consistent, Next, NEW K, IsCode(K), todo = Then(end_, K), NEW n \in Nat, Level("compiling", n)
  PROVE  /\ Consistent' /\ todo' = K
         /\ Len(compilers) = 1 => Level("alone", n)'
         /\ Len(compilers) > 1 => Level("compiling", n)'
         /\ "function" \in Wanted(K) => locals'["function"] # 0
<1>1. HeapOK /\ RootsOK /\ LocalsOK
  BY DEF Consistent
<1>2. PICK s : s = end_
  OBVIOUS
<1>3. s.do = "end" /\ s.gets = "function"
  BY <1>2 DEF end_, Step
<1>4. first = s /\ endCurrent
  BY <1>2, <1>3, Ways
<1>5. PICK a : a = Last(compilers)
  OBVIOUS
<1>6. PICK t : t = Front(compilers)
  OBVIOUS
<1>7. /\ compilers' = t /\ GoesWith(a)
      /\ UNCHANGED <<heap, strings, stack, frames, openUpvalues, initString, globals>>
  BY <1>4, <1>5, <1>6 DEF endCurrent
<1>8. Passes(K, "function", a)
  BY <1>1, <1>2, <1>3, <1>7, GoesWithIs
<1>9. PICK l : l = Len(compilers)
  OBVIOUS
<1>10. compilers \in Seq(Nat) /\ l \in Nat /\ l # 0 /\ DOMAIN compilers = 1..l /\ ToSet(compilers) \subseteq DOMAIN heap
  BY <1>1, <1>9 DEF RootsOK, Level
<1>11. /\ t \in Seq(Nat) /\ Len(t) = l - 1 /\ DOMAIN t = 1..(l - 1) /\ \A i \in 1..(l - 1) : t[i] = compilers[i]
       /\ a = compilers[l]
  BY <1>5, <1>6, <1>9, <1>10 DEF Front, Last
<1>12. ToSet(t) \subseteq DOMAIN heap /\ a \in DOMAIN heap
  <2>1. \A i \in 1..l : compilers[i] \in DOMAIN heap
    BY <1>10, ToSetIs
  <2>2. l \in 1..l /\ \A i \in 1..(l - 1) : i \in 1..l
    BY <1>10
  <2> QED
    BY <1>11, <2>1, <2>2, ToSetIs
<1>13. HeapOK'
  BY <1>1, <1>7, HeapStays
<1>14. RootsOK'
  BY <1>1, <1>7, <1>11, <1>12 DEF RootsOK, Live, Is
<1>15. LocalsOK'
  BY <1>1, <1>7, <1>8, <1>12, PassesLocals DEF Live
<1>16. Bare(n)'
  BY <1>7 DEF Level, Bare
<1>17. (l = 1 => t = <<>>) /\ (l > 1 => t # <<>>)
  BY <1>10, <1>11
<1>18. a # 0
  BY <1>1, <1>12 DEF HeapOK
<1> QED
  BY <1>7, <1>8, <1>9, <1>13, <1>14, <1>15, <1>16, <1>17, <1>18 DEF Consistent, Passes, Level

LEMMA LastCompiler ==
  ASSUME RootsOK, compilers # <<>>
  PROVE  Last(compilers) \in DOMAIN heap /\ Last(compilers) \in ToSet(compilers)
<1>1. PICK l : l = Len(compilers)
  OBVIOUS
<1>2. l \in Nat /\ l # 0 /\ DOMAIN compilers = 1..l /\ ToSet(compilers) \subseteq DOMAIN heap
  BY <1>1 DEF RootsOK
<1>3. l \in 1..l
  BY <1>2
<1>4. compilers[l] \in ToSet(compilers)
  BY <1>2, <1>3, ToSetIs
<1> QED
  BY <1>1, <1>2, <1>4 DEF Last

(* A reference of an object is set.                                        *)
LEMMA RefsSet ==
  ASSUME NEW h, IsObject(h), NEW r
  PROVE  /\ IsObject([h EXCEPT !.refs = r])
         /\ [h EXCEPT !.refs = r].type = h.type /\ [h EXCEPT !.refs = r].refs = r
<1>1. PICK t, q : h = [type |-> t, refs |-> q]
  BY DEF IsObject
<1>2. DOMAIN h = {"type", "refs"}
  BY <1>1
<1>3. PICK g : g = [h EXCEPT !.refs = r]
  OBVIOUS
<1>4. g = [x \in {"type", "refs"} |-> IF x = "refs" THEN r ELSE h[x]]
  BY <1>2, <1>3
<1>5. g.type = h.type /\ g.refs = r
  BY <1>4
<1>6. g = [type |-> g.type, refs |-> g.refs]
  BY <1>4
<1> QED
  BY <1>3, <1>5, <1>6 DEF IsObject

LEMMA Links ==
  ASSUME Consistent, NEW s, NEW K, IsCode(K), todo = Then(s, K), s.gets = "", Goes,
         NEW a \in DOMAIN heap, NEW name, NEW key, NEW b, LinkOK(name, key, b),
         heap' = Linked(a, name, key, b),
         UNCHANGED <<strings, stack, frames, openUpvalues, globals, compilers, initString>>
  PROVE  /\ Consistent' /\ todo' = K /\ \A w \in Wanted(K) : locals'[w] = locals[w]
         /\ DOMAIN heap' = DOMAIN heap
         /\ \A x \in Live : \A type : Is(x, type)' <=> Is(x, type)
         /\ Has(a, name, key)' /\ Ref(a, name, key)' = b
         /\ \A x, m, k : Has(x, m, k) /\ x \in DOMAIN heap => Has(x, m, k)'
         /\ \A k : Top(k)' = Top(k)
         /\ \A mode, n : Level(mode, n) <=> Level(mode, n)'
<1>1. HeapOK /\ RootsOK /\ LocalsOK
  BY DEF Consistent
<1>2. PICK f : f = <<name, key>>
  OBVIOUS
<1>3. PICK r : r = With(heap[a].refs, f, b)
  OBVIOUS
<1>4. /\ DOMAIN r = DOMAIN heap[a].refs \cup {f} /\ r[f] = b
      /\ \A g \in DOMAIN heap[a].refs : g \in DOMAIN r
  BY <1>3 DEF With
<1>5. heap' = [heap EXCEPT ![a].refs = r]
  BY <1>2, <1>3 DEF Linked
<1>6. IsObject(heap[a])
  BY <1>1 DEF HeapOK, ObjectOK
<1>7. /\ DOMAIN heap' = DOMAIN heap /\ \A x \in DOMAIN heap \ {a} : heap'[x] = heap[x]
      /\ heap'[a] = [heap[a] EXCEPT !.refs = r]
  BY <1>5
<1>8. heap'[a].type = heap[a].type /\ heap'[a].refs = r /\ IsObject(heap'[a])
  <2>1. PICK h, g : h = heap[a] /\ g = [h EXCEPT !.refs = r]
    OBVIOUS
  <2>2. IsObject(g) /\ g.type = h.type /\ g.refs = r
    <3>1. IsObject(h)
      BY <1>6, <2>1
    <3>2. /\ IsObject([h EXCEPT !.refs = r])
          /\ [h EXCEPT !.refs = r].type = h.type /\ [h EXCEPT !.refs = r].refs = r
      BY <3>1, RefsSet
    <3> QED
      BY <2>1, <3>2
  <2>3. heap'[a] = g
    BY <1>7, <2>1
  <2> QED
    BY <2>1, <2>2, <2>3
<1>9. HeapOK' /\ \A x \in Live : \A type : Is(x, type)' <=> Is(x, type)
  <2>1. \A x \in DOMAIN heap :
           /\ x \in DOMAIN heap' /\ heap'[x].type = heap[x].type /\ IsObject(heap'[x])
           /\ \/ heap'[x].refs = heap[x].refs
              \/ \E n, k, c : /\ heap'[x].refs = With(heap[x].refs, <<n, k>>, c)
                              /\ LinkOK(n, k, c)
    <3>1. ASSUME NEW x \in DOMAIN heap, x # a
          PROVE  x \in DOMAIN heap' /\ heap'[x] = heap[x] /\ IsObject(heap'[x])
      BY <1>1, <1>7, <3>1 DEF HeapOK, ObjectOK
    <3>2. heap'[a].refs = With(heap[a].refs, <<name, key>>, b)
      BY <1>2, <1>3, <1>8
    <3> QED
      BY <1>7, <1>8, <3>1, <3>2
  <2>2. DOMAIN heap' \subseteq Nat \ {0} /\ IsFiniteSet(DOMAIN heap') /\ DOMAIN heap' \ DOMAIN heap = {}
    BY <1>1, <1>7 DEF HeapOK
  <2> QED
    BY <1>1, <2>1, <2>2, Relinks
<1>10. \A x, m, k : Has(x, m, k) /\ x \in DOMAIN heap => Has(x, m, k)'
  <2>1. ASSUME NEW x \in DOMAIN heap, NEW m, NEW k, Has(x, m, k) PROVE Has(x, m, k)'
    <3>1. <<m, k>> \in DOMAIN heap'[x].refs
      BY <1>4, <1>7, <1>8, <2>1 DEF Has
    <3> QED
      BY <2>1, <3>1 DEF Has
  <2> QED
    BY <2>1
<1>11. Has(a, name, key)' /\ Ref(a, name, key)' = b
  <2>1. a # 0
    BY <1>1 DEF HeapOK
  <2> QED
    BY <1>2, <1>4, <1>8, <2>1 DEF Has, Ref
<1>12. RootsOK'
  BY <1>1, <1>7, <1>9, RootsStay
<1>13. Passes(K, "", 0)
  BY <1>1, GoesIs
<1>14. LocalsOK'
  BY <1>1, <1>7, <1>13, PassesLocals DEF Live
<1>15. "" \notin Wanted(K)
  BY DEF IsCode
<1>16. todo' = K /\ \A w \in Wanted(K) : locals'[w] = locals[w]
  BY <1>13, <1>15 DEF Passes
<1>17. \A k : Top(k)' = Top(k)
  BY DEF Top
<1>18. \A mode, n : Level(mode, n) <=> Level(mode, n)'
  BY LevelStays
<1> QED
  BY <1>7, <1>9, <1>10, <1>11, <1>12, <1>14, <1>16, <1>17, <1>18 DEF Consistent

name_ == Step("name", <<"string">>, "")

LEMMA NameStep ==
  ASSUME Consistent, Next, NEW K, IsCode(K), todo = Then(name_, K), NEW n \in Nat, Level("compiling", n)
  PROVE  Consistent' /\ Level("compiling", n)' /\ todo' = K
<1>1. HeapOK /\ RootsOK /\ LocalsOK
  BY DEF Consistent
<1>2. PICK s : s = name_
  OBVIOUS
<1>3. s.do = "name" /\ s.of = <<"string">> /\ s.gets = ""
  BY <1>2 DEF name_, Step
<1>4. first = s /\ setReference
  BY <1>2, <1>3, Ways
<1>5. PICK a, b : a = Last(compilers) /\ b = locals["string"]
  OBVIOUS
<1>6. At(1) = b /\ b \in Live
  BY <1>1, <1>2, <1>3, <1>5, Operand
<1>7. /\ heap' = Linked(a, "name", 0, b) /\ Goes
      /\ UNCHANGED <<strings, stack, frames, openUpvalues, globals, compilers, initString>>
  BY <1>3, <1>4, <1>5, <1>6 DEF setReference, Doing, machine, function
<1>8. a \in DOMAIN heap
  BY <1>1, <1>5, LastCompiler DEF Level
<1>9. LinkOK("name", 0, b)
  BY <1>6 DEF LinkOK, Tables
<1> QED
  BY <1>2, <1>3, <1>7, <1>8, <1>9, Links

constant_(v) == Step("constant", <<v>>, "")

LEMMA ConstantStep ==
  ASSUME Consistent, Next, NEW v, NEW K, IsCode(K), todo = Then(constant_(v), K), NEW n \in Nat, Level("compiling", n)
  PROVE  /\ Consistent' /\ Level("compiling", n)' /\ todo' = K /\ \A w \in Wanted(K) : locals'[w] = locals[w]
         /\ compilers' = compilers /\ \E k : Has(Last(compilers), "constants", k)' /\ Ref(Last(compilers), "constants", k)' = locals[v]
<1>1. HeapOK /\ RootsOK /\ LocalsOK
  BY DEF Consistent
<1>2. PICK s : s = constant_(v)
  OBVIOUS
<1>3. s.do = "constant" /\ s.of = <<v>> /\ s.gets = ""
  BY <1>2 DEF constant_, Step
<1>4. first = s /\ setReference
  BY <1>2, <1>3, Ways
<1>5. PICK a, b : a = Last(compilers) /\ b = locals[v]
  OBVIOUS
<1>6. At(1) = b /\ b \in Live
  BY <1>1, <1>2, <1>3, <1>5, Operand
<1>7. PICK k : k = Cardinality(KeysOf(a, "constants"))
  OBVIOUS
<1>8. /\ heap' = Linked(a, "constants", k, b) /\ Goes
      /\ UNCHANGED <<strings, stack, frames, openUpvalues, globals, compilers, initString>>
  BY <1>3, <1>4, <1>5, <1>6, <1>7 DEF setReference, Doing, machine, function
<1>9. a \in DOMAIN heap
  BY <1>1, <1>5, LastCompiler DEF Level
<1>10. LinkOK("constants", k, b)
  BY <1>6 DEF LinkOK, Tables
<1>11. /\ Consistent' /\ todo' = K /\ \A w \in Wanted(K) : locals'[w] = locals[w]
       /\ Has(a, "constants", k)' /\ Ref(a, "constants", k)' = b
       /\ Level("compiling", n)'
  BY <1>2, <1>3, <1>8, <1>9, <1>10, Links
<1>12. compilers' = compilers
  BY <1>8
<1> QED
  BY <1>5, <1>11, <1>12

LEMMA EntryStep ==
  ASSUME Consistent, Next, NEW o, NEW table \in Tables, NEW k, NEW v, NEW K, IsCode(K),
         todo = Then(SetEntry(o, table, k, v), K), locals[o] # 0, locals[k] # 0,
         table = "methods" => Is(locals[v], "closure"), NEW mode, NEW n, Level(mode, n)
  PROVE  /\ Consistent' /\ Level(mode, n)' /\ todo' = K
         /\ \A w \in Wanted(K) : locals'[w] = locals[w]
<1>1. HeapOK /\ RootsOK /\ LocalsOK
  BY DEF Consistent
<1>2. PICK s : s = SetEntry(o, table, k, v)
  OBVIOUS
<1>3. s.do = "entry" /\ s.of = <<o, k, v>> /\ s.gets = "" /\ s.name = table
  BY <1>2 DEF SetEntry, Step
<1>4. first = s /\ setReference
  BY <1>2, <1>3, Ways
<1>5. PICK a, b, c : a = locals[o] /\ b = locals[k] /\ c = locals[v]
  OBVIOUS
<1>6. At(1) = a /\ At(2) = b /\ At(3) = c /\ a \in Live /\ b \in Live /\ c \in Live
  <2>1. IsCode(K) /\ todo = Then(s, K) /\ LocalsOK /\ s.of = <<o, k, v>>
    BY <1>1, <1>2, <1>3
  <2>2. /\ At(1) = locals[o] /\ At(2) = locals[k] /\ At(3) = locals[v]
        /\ locals[o] \in Live /\ locals[k] \in Live /\ locals[v] \in Live
    BY <2>1, ThreeOperands
  <2> QED
    BY <1>5, <2>2
<1>7. /\ heap' = Linked(a, table, b, c) /\ Goes
      /\ UNCHANGED <<strings, stack, frames, openUpvalues, globals, compilers, initString>>
  BY <1>3, <1>4, <1>6 DEF setReference, Doing, machine
<1>8. a \in DOMAIN heap /\ b \in DOMAIN heap
  BY <1>5, <1>6 DEF Live
<1>9. LinkOK(table, b, c)
  BY <1>5, <1>6, <1>8 DEF LinkOK, Tables
<1> QED
  BY <1>2, <1>3, <1>7, <1>8, <1>9, Links

copy_(k) == [Step("copy", <<"superclass", "subclass">>, "") EXCEPT !.n = k]

LEMMA CopyStep ==
  ASSUME Consistent, Next, NEW k, NEW K, IsCode(K), todo = Then(copy_(k), K),
         locals["subclass"] # 0, Has(locals["superclass"], "methods", k),
         NEW mode, NEW n, Level(mode, n)
  PROVE  /\ Consistent' /\ Level(mode, n)' /\ todo' = K
         /\ \A w \in Wanted(K) : locals'[w] = locals[w]
         /\ UNCHANGED <<stack, frames, openUpvalues, globals, compilers, initString>>
         /\ \A x, m, j : Has(x, m, j) /\ x \in DOMAIN heap => Has(x, m, j)'
         /\ \A j : Top(j)' = Top(j)
<1>1. HeapOK /\ RootsOK /\ LocalsOK
  BY DEF Consistent
<1>2. PICK s : s = copy_(k)
  OBVIOUS
<1>3. s.do = "copy" /\ s.of = <<"superclass", "subclass">> /\ s.gets = "" /\ s.n = k
  BY <1>2 DEF copy_, Step
<1>4. first = s /\ setReference
  BY <1>2, <1>3, Ways
<1>5. PICK a, b : a = locals["superclass"] /\ b = locals["subclass"]
  OBVIOUS
<1>6. At(1) = a /\ At(2) = b /\ a \in Live /\ b \in Live
  BY <1>1, <1>2, <1>3, <1>5, TwoOperands
<1>7. PICK c : c = Ref(a, "methods", k)
  OBVIOUS
<1>8. /\ heap' = Linked(b, "methods", k, c) /\ Goes
      /\ UNCHANGED <<strings, stack, frames, openUpvalues, globals, compilers, initString>>
  BY <1>3, <1>4, <1>6, <1>7 DEF setReference, Doing, machine
<1>9. b \in DOMAIN heap /\ Has(a, "methods", k) /\ a \in DOMAIN heap
  BY <1>5, <1>6 DEF Live, Has
<1>10. LinkOK("methods", k, c)
  <2>1. ObjectOK(a)
    BY <1>1, <1>9 DEF HeapOK
  <2>2. Is(c, "closure")
    BY <1>7, <1>9, <2>1 DEF ObjectOK
  <2>3. PICK f : f = <<"methods", k>>
    OBVIOUS
  <2>4. f \in DOMAIN heap[a].refs /\ f[1] = "methods" /\ f[2] = k /\ c = heap[a].refs[f]
    BY <1>7, <1>9, <2>3 DEF Has, Ref
  <2>5. c \in Live /\ k \in DOMAIN heap
    BY <2>1, <2>4 DEF ObjectOK, Tables
  <2> QED
    BY <2>2, <2>5 DEF LinkOK
<1> QED
  BY <1>2, <1>3, <1>8, <1>9, <1>10, Links

(* A closure gets an upvalue.                                              *)
upvalue_(i) == [Step("upvalue", <<"closure", "upvalue">>, "") EXCEPT !.n = i]

LEMMA UpvalueStep ==
  ASSUME Consistent, Next, NEW i, NEW K, IsCode(K), todo = Then(upvalue_(i), K),
         locals["closure"] # 0, locals["upvalue"] # 0,
         NEW mode, NEW n, Level(mode, n)
  PROVE  /\ Consistent' /\ Level(mode, n)' /\ todo' = K
         /\ \A w \in Wanted(K) : locals'[w] = locals[w]
         /\ UNCHANGED <<stack, frames, openUpvalues, globals, compilers, initString>>
         /\ \A x, m, j : Has(x, m, j) /\ x \in DOMAIN heap => Has(x, m, j)'
         /\ \A j : Top(j)' = Top(j)
<1>1. HeapOK /\ RootsOK /\ LocalsOK
  BY DEF Consistent
<1>2. PICK s : s = upvalue_(i)
  OBVIOUS
<1>3. s.do = "upvalue" /\ s.of = <<"closure", "upvalue">> /\ s.gets = "" /\ s.n = i
  BY <1>2 DEF upvalue_, Step
<1>4. first = s /\ setReference
  BY <1>2, <1>3, Ways
<1>5. PICK a, b : a = locals["closure"] /\ b = locals["upvalue"]
  OBVIOUS
<1>6. At(1) = a /\ At(2) = b /\ a \in Live /\ b \in Live
  BY <1>1, <1>2, <1>3, <1>5, TwoOperands
<1>7. /\ heap' = Linked(a, "upvalues", i, b) /\ Goes
      /\ UNCHANGED <<strings, stack, frames, openUpvalues, globals, compilers, initString>>
  BY <1>3, <1>4, <1>6 DEF setReference, Doing, machine
<1>8. a \in DOMAIN heap
  BY <1>5, <1>6 DEF Live
<1>9. LinkOK("upvalues", i, b)
  BY <1>5, <1>6 DEF LinkOK, Tables
<1> QED
  BY <1>2, <1>3, <1>7, <1>8, <1>9, Links

(* captureUpvalue finds an open upvalue, or goes on to make one.           *)
open_(slot) == [Step("open", <<"upvalue">>, "") EXCEPT !.n = slot]
opens(slot) == <<Allocate("upvalue", <<>>), open_(slot)>>

LEMMA CaptureStep ==
  ASSUME Consistent, Next, NEW slot, NEW K, IsCode(K), todo = Then(captureUpvalue(slot), K),
         Wanted(opens(slot) \o K) = Wanted(K) \ {"upvalue"}, NEW mode, NEW n, Level(mode, n)
  PROVE  /\ Consistent' /\ Level(mode, n)'
         /\ \/ todo' = K /\ ("upvalue" \in Wanted(K) => locals'["upvalue"] # 0)
            \/ todo' = opens(slot) \o K
         /\ \A w \in Wanted(K) : w # "upvalue" => locals'[w] = locals[w]
         /\ UNCHANGED <<heap, stack, frames, openUpvalues, globals, compilers, initString>>
         /\ \A j : Top(j)' = Top(j)
<1>1. HeapOK /\ RootsOK /\ LocalsOK
  BY DEF Consistent
<1>2. PICK s : s = captureUpvalue(slot)
  OBVIOUS
<1>3. s.do = "capture" /\ s.of = <<>> /\ s.gets = "upvalue" /\ s.n = slot /\ s.otherwise = opens(slot)
  BY <1>2 DEF captureUpvalue, opens, open_, Step
<1>4. first = s /\ upvalueStep
  BY <1>2, <1>3, Ways
<1>5. Tail(todo) = K /\ DOMAIN locals = Wanted(K) \ {"upvalue"}
  BY <1>1, <1>2, <1>3, At1, ToSets
<1>6. /\ \/ \E u \in openUpvalues : u.location = slot /\ GoesWith(u.at)
         \/ Continue(locals, opens(slot) \o K)
      /\ UNCHANGED <<heap, strings, stack, frames, openUpvalues, globals, compilers, initString>>
  BY <1>3, <1>4, <1>5 DEF upvalueStep, Doing
<1>7. HeapOK'
  BY <1>1, <1>6, HeapStays
<1>8. RootsOK'
  BY <1>1, <1>6, RootsStay DEF Is
<1>9. Level(mode, n)'
  BY <1>6, LevelStays
<1>10. "" \notin Wanted(K)
  BY DEF IsCode
<1>11. \A j : Top(j)' = Top(j)
  BY <1>6 DEF Top
<1>12. CASE \E u \in openUpvalues : u.location = slot /\ GoesWith(u.at)
  <2>1. PICK u \in openUpvalues : GoesWith(u.at)
    BY <1>12
  <2>2. PICK a : a = u.at
    OBVIOUS
  <2>3. a \in DOMAIN heap /\ a # 0
    BY <1>1, <2>2 DEF RootsOK, HeapOK
  <2>4. Passes(K, "upvalue", a)
    BY <1>1, <1>2, <1>3, <2>1, <2>2, GoesWithIs
  <2>5. LocalsOK'
    BY <1>1, <1>6, <2>3, <2>4, PassesLocals DEF Live
  <2>6. "upvalue" \in Wanted(K) => locals'["upvalue"] = a
    BY <2>4 DEF Passes
  <2>8. todo' = K /\ \A w \in Wanted(K) : w # "upvalue" => locals'[w] = locals[w]
    BY <2>4 DEF Passes
  <2> QED
    BY <1>6, <1>7, <1>8, <1>9, <1>11, <2>3, <2>5, <2>6, <2>8 DEF Consistent
<1>13. CASE Continue(locals, opens(slot) \o K)
  <2>1. Passes(opens(slot) \o K, "", 0)
    BY <1>5, <1>10, <1>13 DEF Continue, Passes
  <2>2. LocalsOK'
    BY <1>1, <1>6, <2>1, PassesLocals DEF Live
  <2>3. /\ todo' = opens(slot) \o K
        /\ \A w \in Wanted(K) : w # "upvalue" => locals'[w] = locals[w]
    BY <1>10, <2>1 DEF Passes
  <2> QED
    BY <1>6, <1>7, <1>8, <1>9, <1>11, <2>2, <2>3 DEF Consistent
<1> QED
  BY <1>6, <1>12, <1>13

LEMMA OpenStep ==
  ASSUME Consistent, Next, NEW slot \in 1..Len(stack), NEW K, IsCode(K), todo = Then(open_(slot), K),
         locals["upvalue"] # 0, Level("running", 0)
  PROVE  /\ Consistent' /\ Level("running", 0)' /\ todo' = K
         /\ \A w \in Wanted(K) : locals'[w] = locals[w]
         /\ UNCHANGED <<heap, stack, frames, globals, compilers, initString>>
         /\ \A j : Top(j)' = Top(j)
<1>1. HeapOK /\ RootsOK /\ LocalsOK
  BY DEF Consistent
<1>2. PICK s : s = open_(slot)
  OBVIOUS
<1>3. s.do = "open" /\ s.of = <<"upvalue">> /\ s.gets = "" /\ s.n = slot
  BY <1>2 DEF open_, Step
<1>4. first = s /\ upvalueStep
  BY <1>2, <1>3, Ways
<1>5. PICK a : a = locals["upvalue"]
  OBVIOUS
<1>6. At(1) = a /\ a \in Live /\ a \in DOMAIN heap
  BY <1>1, <1>2, <1>3, <1>5, Operand DEF Live
<1>7. PICK r : r = [location |-> slot, at |-> a]
  OBVIOUS
<1>8. r.location = slot /\ r.at = a
  BY <1>7
<1>9. /\ openUpvalues' = openUpvalues \cup {r} /\ Goes
      /\ UNCHANGED <<heap, strings, stack, frames, globals, compilers, initString>>
  BY <1>3, <1>4, <1>6, <1>7 DEF upvalueStep, Doing
<1>10. HeapOK'
  BY <1>1, <1>9, HeapStays
<1>11. RootsOK'
  BY <1>1, <1>6, <1>8, <1>9 DEF RootsOK, Live, Is
<1>12. Passes(K, "", 0)
  BY <1>1, <1>2, <1>3, <1>9, GoesIs
<1>13. LocalsOK'
  BY <1>1, <1>9, <1>12, PassesLocals DEF Live
<1>14. Level("running", 0)'
  <2>1. PICK l : l = Len(stack)
    OBVIOUS
  <2>2. l \in Nat /\ slot <= l - 0 /\ 0 <= l
    BY <1>1, <2>1 DEF RootsOK
  <2>3. \A u \in openUpvalues' : u.location <= l - 0
    BY <1>8, <1>9, <2>1, <2>2 DEF Level, Room
  <2> QED
    BY <1>9, <2>1, <2>2, <2>3 DEF Level, Room
<1>15. "" \notin Wanted(K)
  BY DEF IsCode
<1>16. todo' = K /\ \A w \in Wanted(K) : locals'[w] = locals[w]
  BY <1>12, <1>15 DEF Passes
<1>17. \A j : Top(j)' = Top(j)
  BY <1>9 DEF Top
<1> QED
  BY <1>5, <1>8, <1>9, <1>10, <1>11, <1>13, <1>14, <1>16, <1>17 DEF Consistent

(* An upvalue of the function that runs is the new closure's as well.      *)
LEMMA LastFrame ==
  ASSUME RootsOK, frames # <<>>
  PROVE  /\ Last(frames) \in ToSet(frames) /\ Last(frames).closure \in DOMAIN heap
         /\ Is(Last(frames).closure, "closure") /\ Last(frames).slots \in Nat \ {0}
<1>1. PICK l : l = Len(frames)
  OBVIOUS
<1>2. /\ l \in Nat /\ l # 0 /\ DOMAIN frames = 1..l
      /\ \A i \in 1..l : frames[i].slots \in Nat \ {0}
  <2>1. PICK F : F = [closure : Nat, slots : Nat \ {0}]
    OBVIOUS
  <2>2. frames \in Seq(F)
    BY <2>1 DEF RootsOK
  <2>3. l \in Nat /\ l # 0 /\ DOMAIN frames = 1..l /\ \A i \in 1..l : frames[i] \in F
    BY <1>1, <2>2
  <2>4. \A f \in F : f.slots \in Nat \ {0}
    BY <2>1
  <2> QED
    BY <2>3, <2>4
<1>3. l \in 1..l
  BY <1>2
<1>4. frames[l] \in ToSet(frames)
  BY <1>2, <1>3, ToSetIs
<1> QED
  BY <1>1, <1>2, <1>3, <1>4 DEF Last, RootsOK

LEMMA InheritStep ==
  ASSUME Consistent, Next, NEW k, NEW K, IsCode(K), todo = Then(inheritUpvalue(k), K),
         frames # <<>>, Has(Last(frames).closure, "upvalues", k), NEW mode, NEW n, Level(mode, n)
  PROVE  /\ Consistent' /\ Level(mode, n)' /\ todo' = K
         /\ "upvalue" \in Wanted(K) => locals'["upvalue"] # 0
         /\ \A w \in Wanted(K) : w # "upvalue" => locals'[w] = locals[w]
         /\ UNCHANGED <<heap, stack, frames, openUpvalues, globals, compilers, initString>>
         /\ \A j : Top(j)' = Top(j)
<1>1. HeapOK /\ RootsOK /\ LocalsOK
  BY DEF Consistent
<1>2. PICK s : s = inheritUpvalue(k)
  OBVIOUS
<1>3. s.do = "inherit" /\ s.of = <<>> /\ s.gets = "upvalue" /\ s.n = k
  BY <1>2 DEF inheritUpvalue, Step
<1>4. first = s /\ upvalueStep
  BY <1>2, <1>3, Ways
<1>5. PICK c : c = Last(frames).closure
  OBVIOUS
<1>6. PICK a : a = Ref(c, "upvalues", k)
  OBVIOUS
<1>7. /\ GoesWith(a)
      /\ UNCHANGED <<heap, strings, stack, frames, openUpvalues, globals, compilers, initString>>
  BY <1>3, <1>4, <1>5, <1>6 DEF upvalueStep, Doing
<1>8. c \in DOMAIN heap /\ Has(c, "upvalues", k)
  BY <1>1, <1>5, LastFrame
<1>9. a # 0 /\ a \in Live
  <2>1. ObjectOK(c)
    BY <1>1, <1>8 DEF HeapOK
  <2>2. a # 0
    BY <1>6, <1>8, <2>1 DEF ObjectOK
  <2>4. a \in Live
    BY <1>6, <1>8, <2>1 DEF ObjectOK, Has, Ref
  <2> QED
    BY <2>2, <2>4
<1>10. Passes(K, "upvalue", a)
  BY <1>1, <1>2, <1>3, <1>7, GoesWithIs
<1>11. HeapOK'
  BY <1>1, <1>7, HeapStays
<1>12. RootsOK'
  BY <1>1, <1>7, RootsStay DEF Is
<1>13. LocalsOK'
  BY <1>1, <1>7, <1>9, <1>10, PassesLocals DEF Live
<1>14. Level(mode, n)'
  BY <1>7, LevelStays
<1>16. "upvalue" \in Wanted(K) => locals'["upvalue"] = a
  BY <1>10 DEF Passes
<1>18. todo' = K /\ \A w \in Wanted(K) : w # "upvalue" => locals'[w] = locals[w]
  BY <1>10 DEF Passes
<1>19. \A j : Top(j)' = Top(j)
  BY <1>7 DEF Top
<1> QED
  BY <1>7, <1>9, <1>11, <1>12, <1>13, <1>14, <1>16, <1>18, <1>19 DEF Consistent

(* The machine is between two instructions, the compiler between two of    *)
(* its functions, or main() between two lines.                             *)
Idle(mode) == Consistent /\ todo = <<>> /\ Level(mode, 0)

(* An error, after which nothing is on the stack and no function runs.     *)
LEMMA ErrorEnds ==
  ASSUME HeapOK, RootsOK, runtimeError, compilers = <<>>
  PROVE  Idle("alone")'
<1>1. PICK N : N = <<>>
  OBVIOUS
<1>2. Wanted(N) = {} /\ ToSet(N) = {} /\ Len(N) = 0
  BY <1>1, NoCode, ToSets
<1>3. /\ stack' = N /\ frames' = N /\ openUpvalues' = {}
      /\ todo' = N /\ locals' = [v \in Wanted(N) |-> Empty[v]]
      /\ UNCHANGED <<heap, strings, globals, compilers, initString>>
  BY <1>1 DEF runtimeError, Continue
<1>4. HeapOK'
  BY <1>3, HeapStays
<1>5. RootsOK'
  <2>1. stack' \in Seq(Nat) /\ frames' \in Seq([closure : Nat, slots : Nat \ {0}])
    BY <1>1, <1>3
  <2> QED
    BY <1>1, <1>2, <1>3, <2>1 DEF RootsOK, Live
<1>6. LocalsOK'
  BY <1>2, <1>3 DEF LocalsOK
<1>7. Level("alone", 0)'
  BY <1>1, <1>2, <1>3 DEF Level, Bare
<1> QED
  BY <1>1, <1>3, <1>4, <1>5, <1>6, <1>7 DEF Idle, Consistent

(* A call of a closure: below its frame are those of its callers.          *)
Enterable(k) == compilers = <<>> /\ (frames = <<>> => Len(stack) - k = 1)

GetsNothing(s) == s.gets = ""

LEMMA Enters ==
  ASSUME Consistent, NEW s, NEW K, IsCode(K), todo = Then(s, K), GetsNothing(s),
         NEW c \in DOMAIN heap, Is(c, "closure"),
         NEW k \in Nat, k + 1 <= Len(stack), Enterable(k), Enter(c, k)
  PROVE  Consistent' /\ Level("running", 0)' /\ todo' = K
<1>1. HeapOK /\ RootsOK /\ LocalsOK
  BY DEF Consistent
<1>2. PICK l : l = Len(stack)
  OBVIOUS
<1>3. l \in Nat /\ l - k \in Nat \ {0}
  <2>1. l \in Nat
    BY <1>1, <1>2 DEF RootsOK
  <2> QED
    BY <1>2, <2>1
<1>4. PICK f : f = [closure |-> c, slots |-> l - k]
  OBVIOUS
<1>5. PICK F : F = [closure : Nat, slots : Nat \ {0}]
  OBVIOUS
<1>6. f \in F /\ f.closure = c /\ f.slots = l - k /\ frames \in Seq(F)
  BY <1>1, <1>3, <1>4, <1>5 DEF HeapOK, RootsOK
<1>7. PICK t : t = Append(frames, f)
  OBVIOUS
<1>8. /\ frames' = t /\ Goes
      /\ UNCHANGED <<heap, strings, stack, openUpvalues, globals, compilers, initString>>
  BY <1>2, <1>4, <1>7 DEF Enter
<1>9. PICK m : m = Len(frames)
  OBVIOUS
<1>10. /\ m \in Nat /\ t \in Seq(F) /\ DOMAIN t = 1..(m + 1) /\ DOMAIN frames = 1..m /\ t # <<>>
       /\ t[m + 1] = f /\ \A i \in 1..m : t[i] = frames[i]
  BY <1>6, <1>7, <1>9
<1>11. \A g \in ToSet(t) : g = f \/ g \in ToSet(frames)
  <2>1. \A i \in 1..(m + 1) : i = m + 1 \/ i \in 1..m
    BY <1>10
  <2> QED
    BY <1>10, <2>1, ToSetIs
<1>12. t[1].slots = 1
  <2>1. CASE frames = <<>>
    BY <1>2, <1>6, <1>9, <1>10, <2>1 DEF Enterable
  <2>2. CASE frames # <<>>
    <3>1. m # 0
      BY <1>6, <1>9, <2>2
    <3>2. 1 \in 1..m
      BY <1>10, <3>1
    <3> QED
      BY <1>1, <1>10, <2>2, <3>2 DEF RootsOK
  <2> QED
    BY <2>1, <2>2
<1>13. HeapOK'
  BY <1>1, <1>8, HeapStays
<1>14. RootsOK'
  <2>1. \A g \in ToSet(t) : g.closure \in DOMAIN heap /\ Is(g.closure, "closure")
    BY <1>1, <1>6, <1>11 DEF RootsOK
  <2> QED
    BY <1>1, <1>5, <1>8, <1>10, <1>12, <2>1 DEF RootsOK, Live, Is
<1>17. Passes(K, "", 0)
  BY <1>1, <1>8, GoesIs DEF GetsNothing
<1>18. LocalsOK'
  BY <1>1, <1>8, <1>17, PassesLocals DEF Live
<1>19. Level("running", 0)'
  <2>1. \A u \in openUpvalues : u.location <= l - 0
    BY <1>1, <1>2, <1>3 DEF RootsOK
  <2>2. 0 <= l
    BY <1>3
  <2> QED
    BY <1>2, <1>8, <1>10, <2>1, <2>2 DEF Level, Room, Enterable
<1> QED
  BY <1>13, <1>14, <1>17, <1>18, <1>19 DEF Consistent, Passes

LEMMA CallStep ==
  ASSUME Consistent, Next, NEW v, NEW k \in Nat, todo = Then(Call(v, k), <<>>), locals[v] # 0,
         Is(locals[v], "closure"), k + 1 <= Len(stack), Enterable(k)
  PROVE  Idle("running")' \/ Idle("alone")'
<1>1. HeapOK /\ RootsOK /\ LocalsOK
  BY DEF Consistent
<1>2. PICK s, K : s = Call(v, k) /\ K = <<>>
  OBVIOUS
<1>3. s.do = "call" /\ s.of = <<v>> /\ s.gets = "" /\ s.n = k
  BY <1>2 DEF Call, Step
<1>4. IsCode(K) /\ todo = Then(s, K)
  BY <1>2, NoCode
<1>5. first = s /\ call
  BY <1>3, <1>4, Ways
<1>6. PICK a : a = locals[v]
  OBVIOUS
<1>7. At(1) = a /\ a \in DOMAIN heap
  <2>1. At(1) = locals[v] /\ locals[v] \in Live
    BY <1>1, <1>3, <1>4, Operand
  <2> QED
    BY <1>6, <2>1 DEF Live
<1>8. Enter(a, k) \/ runtimeError
  BY <1>3, <1>5, <1>7 DEF call, Doing
<1>9. Is(a, "closure")
  BY <1>6
<1> QED
  BY <1>1, <1>2, <1>3, <1>4, <1>7, <1>8, <1>9, Enters, ErrorEnds DEF Idle, Enterable, GetsNothing

error_(of) == Step("error", of, "")

LEMMA ErrorStep ==
  ASSUME Consistent, Next, NEW of, todo = Then(error_(of), <<>>), compilers = <<>>
  PROVE  Idle("alone")'
<1>1. HeapOK /\ RootsOK /\ LocalsOK
  BY DEF Consistent
<1>2. PICK s, K : s = error_(of) /\ K = <<>>
  OBVIOUS
<1>3. s.do = "error"
  BY <1>2 DEF error_, Step
<1>4. IsCode(K) /\ todo = Then(s, K)
  BY <1>2, NoCode
<1>5. first = s /\ call
  BY <1>3, <1>4, Ways
<1>6. runtimeError
  BY <1>3, <1>5 DEF call, Doing
<1> QED
  BY <1>1, <1>6, ErrorEnds

initialize_(k) == [Step("initialize", <<"class">>, "") EXCEPT !.n = k]

LEMMA InitializeStep ==
  ASSUME Consistent, Next, NEW k \in Nat, todo = Then(initialize_(k), <<>>), Level("running", 0), k + 1 <= Len(stack)
  PROVE  Idle("running")' \/ Idle("alone")'
<1>1. HeapOK /\ RootsOK /\ LocalsOK
  BY DEF Consistent
<1>2. PICK s, K : s = initialize_(k) /\ K = <<>>
  OBVIOUS
<1>3. s.do = "initialize" /\ s.of = <<"class">> /\ s.gets = "" /\ s.n = k
  BY <1>2 DEF initialize_, Step
<1>4. IsCode(K) /\ todo = Then(s, K) /\ todo = Then(s, <<>>)
  BY <1>2, NoCode
<1>5. first = s /\ call
  BY <1>3, <1>4, Ways
<1>6. PICK a : a = locals["class"]
  OBVIOUS
<1>7. At(1) = a /\ a \in Live
  BY <1>1, <1>3, <1>4, <1>6, Operand
<1>8. PICK c : c = Ref(a, "methods", initString)
  OBVIOUS
<1>9. \/ Has(a, "methods", initString) /\ Enter(c, k)
      \/ runtimeError
      \/ Goes /\ UNCHANGED <<heap, strings, stack, frames, openUpvalues, globals, compilers, initString>>
  <2>1. \/ Has(At(1), "methods", initString)
           /\ (Enter(Ref(At(1), "methods", initString), first.n) \/ runtimeError)
        \/ runtimeError
        \/ Goes /\ UNCHANGED <<heap, strings, stack, frames, openUpvalues, globals, compilers, initString>>
    BY <1>3, <1>5 DEF call, Doing, machine
  <2> QED
    BY <1>3, <1>5, <1>7, <1>8, <2>1
<1>10. CASE Has(a, "methods", initString) /\ Enter(c, k)
  <2>1. a \in DOMAIN heap
    BY <1>7, <1>10 DEF Has, Live
  <2>2. ObjectOK(a)
    BY <1>1, <2>1 DEF HeapOK
  <2>3. Is(c, "closure")
    BY <1>8, <1>10, <2>2 DEF ObjectOK
  <2>4. PICK f : f = <<"methods", initString>>
    OBVIOUS
  <2>5. f \in DOMAIN heap[a].refs /\ c = heap[a].refs[f]
    BY <1>8, <1>10, <2>4 DEF Has, Ref
  <2>6. c \in DOMAIN heap
    BY <2>2, <2>3, <2>5 DEF ObjectOK, Live, Is
  <2>7. Enterable(k)
    BY DEF Level, Enterable
  <2> QED
    BY <1>2, <1>3, <1>4, <1>10, <2>3, <2>6, <2>7, Enters DEF Idle, GetsNothing
<1>11. CASE runtimeError
  BY <1>1, <1>11, ErrorEnds DEF Level
<1>12. CASE Goes /\ UNCHANGED <<heap, strings, stack, frames, openUpvalues, globals, compilers, initString>>
  <2>1. HeapOK'
    BY <1>1, <1>12, HeapStays
  <2>2. RootsOK'
    BY <1>1, <1>12, RootsStay DEF Is
  <2>3. Passes(K, "", 0)
    BY <1>1, <1>3, <1>4, <1>12, GoesIs
  <2>4. LocalsOK'
    BY <1>1, <1>12, <2>3, PassesLocals DEF Live
  <2>5. Level("running", 0)'
    BY <1>12, LevelStays
  <2> QED
    BY <1>2, <2>1, <2>2, <2>3, <2>4, <2>5 DEF Consistent, Passes, Idle
<1> QED
  BY <1>9, <1>10, <1>11, <1>12

(* A function begins.                                                      *)
LEMMA BeginStep ==
  ASSUME Consistent, NEW values, NEW K, IsCode(K), Begin(values, K),
         \A v \in Wanted(K) : values[v] \in Live
  PROVE  /\ Consistent' /\ todo' = K /\ \A w \in Wanted(K) : locals'[w] = values[w]
         /\ UNCHANGED <<heap, strings, stack, frames, openUpvalues, globals, compilers, initString>>
         /\ \A mode, n : Level(mode, n) => Level(mode, n)'
         /\ \A j : Top(j)' = Top(j)
         /\ Stays
<1>1. HeapOK /\ RootsOK
  BY DEF Consistent
<1>2. /\ todo' = K /\ locals' = [v \in Wanted(K) |-> values[v]]
      /\ UNCHANGED <<heap, strings, stack, frames, openUpvalues, globals, compilers, initString>>
  BY DEF Begin, Continue, machine
<1>3. HeapOK'
  BY <1>1, <1>2, HeapStays
<1>4. RootsOK'
  BY <1>1, <1>2, RootsStay DEF Is
<1>5. LocalsOK'
  BY <1>2 DEF LocalsOK, Live
<1>6. Stays
  BY <1>1, <1>2, NothingChanges
<1>7. \A mode, n : Level(mode, n) => Level(mode, n)'
  BY <1>2, LevelStays
<1>8. \A j : Top(j)' = Top(j)
  BY <1>2 DEF Top
<1> QED
  BY <1>2, <1>3, <1>4, <1>5, <1>6, <1>7, <1>8 DEF Consistent

LEMMA PushStep ==
  ASSUME Consistent, Next, NEW v, NEW K, IsCode(K), todo = Then(Push(v), K),
         NEW mode, NEW n \in Nat, NEW m, m = n + 1, Level(mode, n)
  PROVE  /\ Consistent' /\ Level(mode, m)' /\ todo' = K /\ \A w \in Wanted(K) : locals'[w] = locals[w]
         /\ Top(0)' = locals[v] /\ stack' = Append(stack, locals[v]) /\ v \in DOMAIN locals
         /\ UNCHANGED <<heap, strings, frames, openUpvalues, globals, compilers, initString>>
<1>1. /\ Consistent' /\ Passes(K, "", 0) /\ Level(mode, n + 1)'
      /\ Top(0)' = locals[v] /\ stack' = Append(stack, locals[v]) /\ v \in DOMAIN locals
      /\ UNCHANGED <<heap, strings, frames, openUpvalues, globals, compilers, initString>>
  BY Pushes
<1>2. "" \notin Wanted(K)
  BY DEF IsCode
<1>3. todo' = K /\ \A w \in Wanted(K) : locals'[w] = locals[w]
  BY <1>1, <1>2 DEF Passes
<1> QED
  BY <1>1, <1>3

LEMMA PopStep ==
  ASSUME Consistent, Next, NEW K, IsCode(K), todo = Then(Pop, K),
         NEW mode, NEW n \in Nat, NEW m, m = n + 1, Level(mode, m)
  PROVE  /\ Consistent' /\ Level(mode, n)' /\ todo' = K /\ \A w \in Wanted(K) : locals'[w] = locals[w]
         /\ UNCHANGED <<heap, strings, frames, openUpvalues, globals, compilers, initString>>
<1>1. Level(mode, n + 1)
  OBVIOUS
<1>2. /\ Consistent' /\ Passes(K, "", 0) /\ Level(mode, n)'
      /\ UNCHANGED <<heap, strings, frames, openUpvalues, globals, compilers, initString>>
  BY <1>1, Pops
<1>3. "" \notin Wanted(K)
  BY DEF IsCode
<1>4. todo' = K /\ \A w \in Wanted(K) : locals'[w] = locals[w]
  BY <1>2, <1>3 DEF Passes
<1> QED
  BY <1>2, <1>4

LEMMA LevelTop ==
  ASSUME Consistent, NEW mode, NEW n \in Nat, Level(mode, n), NEW k \in Nat, k < n
  PROVE  Top(k) \in ToSet(stack) /\ Top(k) \in Live /\ Kept(Top(k)) /\ k + 1 <= Len(stack)
<1>1. PICK l : l = Len(stack)
  OBVIOUS
<1>2. l \in Nat /\ n <= l
  BY <1>1 DEF Consistent, RootsOK, Level, Bare, Room
<1>3. k + 1 <= l
  BY <1>2
<1> QED
  BY <1>1, <1>3, TopIs

LEMMA OneHeld ==
  ASSUME LocalsOK, NEW v, Wanted(todo) = {v}, Kept(locals[v])
  PROVE  Held
BY DEF LocalsOK, Held

LEMMA TwoHeld ==
  ASSUME LocalsOK, NEW v, NEW w, Wanted(todo) = {v, w}, Kept(locals[v]), Kept(locals[w])
  PROVE  Held
BY DEF LocalsOK, Held

LEMMA JoinedEmpty ==
  ASSUME NEW K, K \in Seq(Range(K))
  PROVE  K \o <<>> = K
OBVIOUS

---------------------------------------------------------------------------
(* What is pushed is popped at the end of a function.                      *)

popped      == Then(Pop, <<>>)
poppedTwice == Then(Pop, popped)

Popping(mode) ==
  \/ todo = poppedTwice /\ Level(mode, 2)
  \/ todo = popped /\ Level(mode, 1)

LEMMA PoppedCode ==
  /\ IsCode(popped) /\ Wanted(popped) = {}
  /\ IsCode(poppedTwice) /\ Wanted(poppedTwice) = {}
<1>1. PICK K : K = <<>>
  OBVIOUS
<1>2. IsCode(K) /\ Wanted(K) = {}
  BY <1>1, NoCode
<1>3. IsCode(popped) /\ Wanted(popped) = {}
  BY <1>1, <1>2, PopCode DEF popped
<1> QED
  BY <1>3, PopCode DEF poppedTwice

LEMMA PoppingNext ==
  ASSUME Consistent, Next, NEW mode, Popping(mode)
  PROVE  Consistent' /\ (Popping(mode)' \/ Idle(mode)')
<1>1. CASE todo = poppedTwice /\ Level(mode, 2)
  <2>1. Consistent' /\ Level(mode, 1)' /\ todo' = popped
    BY <1>1, PoppedCode, PopStep DEF poppedTwice
  <2> QED
    BY <2>1 DEF Popping
<1>2. CASE todo = popped /\ Level(mode, 1)
  <2>1. PICK K : K = <<>>
    OBVIOUS
  <2>2. IsCode(K) /\ todo = Then(Pop, K)
    BY <1>2, <2>1, NoCode DEF popped
  <2>3. Consistent' /\ Level(mode, 0)' /\ todo' = K
    BY <1>2, <2>2, PopStep
  <2> QED
    BY <2>1, <2>3 DEF Idle
<1> QED
  BY <1>1, <1>2 DEF Popping

(* A tuple of steps, as a step and what follows.                           *)
LEMMA TwoChain ==
  ASSUME NEW a, NEW b
  PROVE  <<a, b>> = Then(a, Then(b, <<>>))
<1>1. PICK K : K = <<>>
  OBVIOUS
<1>2. K \in Seq(Range(K))
  BY <1>1, NoCode DEF IsCode
<1>3. PICK s : s = <<a, b>>
  OBVIOUS
<1>4. s \in Seq(Range(s))
  BY <1>3, TwoCode
<1>5. s \o K = s
  BY <1>1, <1>4, JoinedEmpty
<1>6. <<a, b>> \o K = Then(a, Then(b, K))
  BY <1>2, TwoSteps
<1> QED
  BY <1>1, <1>3, <1>5, <1>6

LEMMA ThreeChain ==
  ASSUME NEW a, NEW b, NEW c
  PROVE  <<a, b, c>> = Then(a, Then(b, Then(c, <<>>)))
<1>1. PICK K : K = <<>>
  OBVIOUS
<1>2. K \in Seq(Range(K))
  BY <1>1, NoCode DEF IsCode
<1>3. PICK s : s = <<a, b, c>>
  OBVIOUS
<1>4. s \in Seq(Range(s))
  BY <1>3, ThreeCode
<1>5. s \o K = s
  BY <1>1, <1>4, JoinedEmpty
<1>6. <<a, b, c>> \o K = Then(a, Then(b, Then(c, K)))
  BY <1>2, ThreeSteps
<1> QED
  BY <1>1, <1>3, <1>5, <1>6

LEMMA SixChain ==
  ASSUME NEW a, NEW b, NEW c, NEW d, NEW e, NEW f
  PROVE  <<a, b, c, d, e, f>> = Then(a, Then(b, Then(c, Then(d, Then(e, Then(f, <<>>))))))
<1>1. PICK K : K = <<>>
  OBVIOUS
<1>2. K \in Seq(Range(K))
  BY <1>1, NoCode DEF IsCode
<1>3. PICK s : s = <<a, b, c, d, e, f>>
  OBVIOUS
<1>4. s \in Seq(Range(s))
  BY <1>3, SixCode
<1>5. s \o K = s
  BY <1>1, <1>4, JoinedEmpty
<1>6. <<a, b, c, d, e, f>> \o K = Then(a, Then(b, Then(c, Then(d, Then(e, Then(f, K))))))
  BY <1>2, SixSteps
<1> QED
  BY <1>1, <1>3, <1>5, <1>6

LEMMA NineChain ==
  ASSUME NEW a, NEW b, NEW c, NEW d, NEW e, NEW f, NEW g, NEW h, NEW i
  PROVE  <<a, b, c, d, e, f, g, h, i>> = Then(a, Then(b, Then(c, Then(d, Then(e, Then(f, Then(g, Then(h, Then(i, <<>>)))))))))
<1>1. PICK K : K = <<>>
  OBVIOUS
<1>2. K \in Seq(Range(K))
  BY <1>1, NoCode DEF IsCode
<1>3. PICK s : s = <<a, b, c, d, e, f, g, h, i>>
  OBVIOUS
<1>4. s \in Seq(Range(s))
  BY <1>3, NineCode
<1>5. s \o K = s
  BY <1>1, <1>4, JoinedEmpty
<1>6. <<a, b, c, d, e, f, g, h, i>> \o K = Then(a, Then(b, Then(c, Then(d, Then(e, Then(f, Then(g, Then(h, Then(i, K)))))))))
  BY <1>2, NineSteps
<1> QED
  BY <1>1, <1>3, <1>5, <1>6

---------------------------------------------------------------------------
(* initVM and defineNative.                                                *)

setNative      == Then(SetGlobal("name", "value"), poppedTwice)
growGlobals    == Then(Array, setNative)
peekValue      == Then(Peek(0, "value"), growGlobals)
peekName       == Then(Peek(1, "name"), peekValue)
pushNative     == Then(Push("native"), peekName)
allocateNative == Then(Allocate("native", <<>>), pushNative)
pushName       == Then(Push("string"), allocateNative)
setInitString  == Then(initString_, copies(pushName))

InNative ==
  \/ InString("alone", 0, pushName)
  \/ todo = pushName /\ Level("alone", 0)
  \/ todo = allocateNative /\ Level("alone", 1)
  \/ todo = pushNative /\ Level("alone", 1)
  \/ todo = peekName /\ Level("alone", 2)
  \/ todo = peekValue /\ Level("alone", 2) /\ locals["name"] = Top(1)
  \/ /\ todo = growGlobals /\ Level("alone", 2)
     /\ locals["name"] = Top(1) /\ locals["value"] = Top(0)
  \/ todo = setNative /\ Level("alone", 2)

InInit ==
  \/ InString("alone", 0, setInitString)
  \/ todo = setInitString /\ Level("alone", 0)

LEMMA NativeCode ==
  /\ IsCode(setNative) /\ Wanted(setNative) = {"name", "value"}
  /\ IsCode(growGlobals) /\ Wanted(growGlobals) = {"name", "value"}
  /\ IsCode(peekValue) /\ Wanted(peekValue) = {"name"}
  /\ IsCode(peekName) /\ Wanted(peekName) = {}
  /\ IsCode(pushNative) /\ Wanted(pushNative) = {"native"}
  /\ IsCode(allocateNative) /\ Wanted(allocateNative) = {}
  /\ IsCode(pushName) /\ Wanted(pushName) = {"string"}
  /\ IsCode(copies(pushName)) /\ Wanted(copies(pushName)) = {}
  /\ IsCode(setInitString) /\ Wanted(setInitString) = {"string"}
<1>1. IsCode(setNative) /\ Wanted(setNative) = {"name", "value"}
  <2>1. "name" # "" /\ "value" # ""
    OBVIOUS
  <2>2. PICK K : K = poppedTwice
    OBVIOUS
  <2>3. IsCode(K) /\ Wanted(K) = {}
    BY <2>2, PoppedCode
  <2>4. /\ IsCode(Then(SetGlobal("name", "value"), K))
        /\ Wanted(Then(SetGlobal("name", "value"), K)) = {"name", "value"} \cup Wanted(K)
    BY <2>1, <2>3, SetGlobalCode
  <2> QED
    BY <2>2, <2>3, <2>4 DEF setNative
<1>2. IsCode(growGlobals) /\ Wanted(growGlobals) = {"name", "value"}
  BY <1>1, ArrayCode DEF growGlobals
<1>3. IsCode(peekValue) /\ Wanted(peekValue) = {"name"}
  <2>1. IsCode(peekValue) /\ Wanted(peekValue) = {"name", "value"} \ {"value"}
    BY <1>2, PeekCode DEF peekValue
  <2> QED
    BY <2>1
<1>4. IsCode(peekName) /\ Wanted(peekName) = {}
  <2>1. IsCode(peekName) /\ Wanted(peekName) = {"name"} \ {"name"}
    BY <1>3, PeekCode DEF peekName
  <2> QED
    BY <2>1
<1>5. IsCode(pushNative) /\ Wanted(pushNative) = {"native"}
  BY <1>4, PushCode DEF pushNative
<1>6. IsCode(allocateNative) /\ Wanted(allocateNative) = {}
  <2>1. IsCode(allocateNative) /\ Wanted(allocateNative) = {"native"} \ {"native"}
    BY <1>5, AllocateCode DEF allocateNative
  <2> QED
    BY <2>1
<1>7. IsCode(pushName) /\ Wanted(pushName) = {"string"}
  BY <1>6, PushCode DEF pushName
<1>8. IsCode(copies(pushName)) /\ Wanted(copies(pushName)) = {}
  BY <1>7, StringCode
<1>9. IsCode(setInitString) /\ Wanted(setInitString) = {"string"}
  BY <1>8, OfCode DEF setInitString, initString_
<1> QED
  BY <1>1, <1>2, <1>3, <1>4, <1>5, <1>6, <1>7, <1>8, <1>9

LEMMA InitCode == initVM = copies(setInitString)
<1>1. PICK f : f = FindOr(<<Array>> \o allocateString)
  OBVIOUS
<1>2. PICK x : x = initString_
  OBVIOUS
<1>3. PICK D : D = pushName
  OBVIOUS
<1>4. PICK E : E = Then(f, D)
  OBVIOUS
<1>5. D \in Seq(Range(D)) /\ E \in Seq(Range(E)) /\ E = copies(pushName)
  <2>1. E = copies(pushName)
    BY <1>1, <1>3, <1>4 DEF copies
  <2> QED
    BY <1>3, <2>1, NativeCode DEF IsCode
<1>6. defineNative = E
  <2>1. PICK a, b, c, d, e, g : /\ a = Push("string") /\ b = Allocate("native", <<>>) /\ c = Push("native")
                                /\ d = Peek(1, "name") /\ e = Peek(0, "value") /\ g = Array
    OBVIOUS
  <2>2. PICK h, i : h = SetGlobal("name", "value") /\ i = Pop
    OBVIOUS
  <2>3. <<a, b, c, d, e, g, h, i, i>> =
          Then(a, Then(b, Then(c, Then(d, Then(e, Then(g, Then(h, Then(i, Then(i, <<>>)))))))))
    BY NineChain
  <2>4. D = Then(a, Then(b, Then(c, Then(d, Then(e, Then(g, Then(h, Then(i, Then(i, <<>>)))))))))
    BY <1>3, <2>1, <2>2 DEF pushName, allocateNative, pushNative, peekName, peekValue, growGlobals,
      setNative, poppedTwice, popped
  <2>5. D = <<a, b, c, d, e, g, h, i, i>>
    BY <2>3, <2>4
  <2>6. defineNative = <<f>> \o D
    BY <1>1, <2>1, <2>2, <2>5 DEF defineNative, copyString
  <2>7. <<f>> \o D = E
    BY <1>4, <1>5, OneSteps
  <2> QED
    BY <2>6, <2>7
<1>7. initVM = (<<f>> \o <<x>>) \o E
  BY <1>1, <1>2, <1>6 DEF initVM, copyString, initString_
<1>8. <<f>> \o <<x>> = Then(f, <<x>>) /\ <<x>> \in Seq(Range(<<x>>))
  <2>1. PICK s : s = <<x>>
    OBVIOUS
  <2>2. s \in Seq(Range(s))
    BY <2>1, OneCode
  <2>3. <<f>> \o s = Then(f, s)
    BY <2>2, OneSteps
  <2> QED
    BY <2>1, <2>2, <2>3
<1>9. Then(f, <<x>>) \o E = Then(f, <<x>> \o E)
  <2>1. PICK s : s = <<x>>
    OBVIOUS
  <2>2. s \in Seq(Range(s)) /\ E \in Seq(Range(E))
    BY <1>5, <1>8, <2>1
  <2>3. Then(f, s) \o E = Then(f, s \o E)
    BY <2>2, ThenJoined
  <2> QED
    BY <2>1, <2>3
<1>10. <<x>> \o E = Then(x, E)
  BY <1>5, OneSteps
<1>11. initVM = Then(f, Then(x, E))
  BY <1>7, <1>8, <1>9, <1>10
<1> QED
  BY <1>1, <1>2, <1>5, <1>11 DEF copies, setInitString

LEMMA NativeNext ==
  ASSUME Consistent, Next, InNative
  PROVE  Consistent' /\ (InNative' \/ Popping("alone")')
<1>1. LocalsOK
  BY DEF Consistent
<1>2. CASE InString("alone", 0, pushName)
  BY <1>2, NativeCode, StringNext DEF InNative, HasString
<1>3. CASE todo = pushName /\ Level("alone", 0)
  <2>1. Consistent' /\ Level("alone", 1)' /\ todo' = allocateNative
    BY <1>3, NativeCode, PushStep DEF pushName
  <2> QED
    BY <2>1 DEF InNative
<1>4. CASE todo = allocateNative /\ Level("alone", 1)
  <2>1. Held
    BY <1>1, <1>4, NativeCode, NothingHeld
  <2>2. FieldsOK(Allocate("native", <<>>))
    BY ToSets DEF FieldsOK, Allocate, Step
  <2>3. todo = Then(Allocate("native", <<>>), pushNative) /\ IsCode(pushNative) /\ Named("native")
    BY <1>4, NativeCode DEF allocateNative, Named
  <2>4. Consistent' /\ Level("alone", 1)' /\ (todo' = todo \/ todo' = pushNative)
    BY <1>4, <2>1, <2>2, <2>3, AllocateStep
  <2> QED
    BY <1>4, <2>4 DEF InNative
<1>5. CASE todo = pushNative /\ Level("alone", 1)
  <2>1. Consistent' /\ Level("alone", 2)' /\ todo' = peekName
    BY <1>5, NativeCode, PushStep DEF pushNative
  <2> QED
    BY <2>1 DEF InNative
<1>6. CASE todo = peekName /\ Level("alone", 2)
  <2>1. 1 + 1 <= Len(stack)
    BY <1>6, LevelTop
  <2>2. /\ Consistent' /\ Level("alone", 2)' /\ todo' = peekValue
        /\ locals'["name"] = Top(1) /\ Top(1)' = Top(1)
    BY <1>6, <2>1, NativeCode, PeekStep DEF peekName
  <2> QED
    BY <2>2 DEF InNative
<1>7. CASE todo = peekValue /\ Level("alone", 2) /\ locals["name"] = Top(1)
  <2>1. 0 + 1 <= Len(stack)
    BY <1>7, LevelTop
  <2>2. /\ Consistent' /\ Level("alone", 2)' /\ todo' = growGlobals
        /\ locals'["value"] = Top(0) /\ locals'["name"] = locals["name"]
        /\ Top(1)' = Top(1) /\ Top(0)' = Top(0)
    BY <1>7, <2>1, NativeCode, PeekStep DEF peekValue
  <2> QED
    BY <1>7, <2>2 DEF InNative
<1>8. CASE /\ todo = growGlobals /\ Level("alone", 2)
           /\ locals["name"] = Top(1) /\ locals["value"] = Top(0)
  <2>1. Kept(Top(0)) /\ Kept(Top(1))
    BY <1>8, LevelTop
  <2>2. Held
    BY <1>1, <1>8, <2>1, NativeCode, TwoHeld
  <2>3. todo = Then(Array, setNative) /\ IsCode(setNative) /\ Wanted(setNative) = {"name", "value"}
    BY <1>8, NativeCode DEF growGlobals
  <2>4. /\ Consistent' /\ Level("alone", 2)' /\ (todo' = todo \/ todo' = setNative)
        /\ locals'["name"] = locals["name"] /\ locals'["value"] = locals["value"]
        /\ Top(1)' = Top(1) /\ Top(0)' = Top(0)
    BY <1>8, <2>2, <2>3, ArrayStep
  <2> QED
    BY <1>8, <2>4 DEF InNative
<1>9. CASE todo = setNative /\ Level("alone", 2)
  <2>1. Consistent' /\ Level("alone", 2)' /\ todo' = poppedTwice
    BY <1>9, PoppedCode, GlobalStep DEF setNative
  <2> QED
    BY <2>1 DEF Popping
<1> QED
  BY <1>2, <1>3, <1>4, <1>5, <1>6, <1>7, <1>8, <1>9 DEF InNative

LEMMA InitNext ==
  ASSUME Consistent, Next, InInit
  PROVE  Consistent' /\ (InInit' \/ InNative')
<1>1. CASE InString("alone", 0, setInitString)
  BY <1>1, NativeCode, StringNext DEF InInit, HasString
<1>2. CASE todo = setInitString /\ Level("alone", 0)
  <2>1. Consistent' /\ Level("alone", 0)' /\ todo' = copies(pushName)
    BY <1>2, NativeCode, InitStringStep DEF setInitString
  <2> QED
    BY <2>1 DEF InNative, InString
<1> QED
  BY <1>1, <1>2 DEF InInit

---------------------------------------------------------------------------
(* The compiler: the beginning of a function.                              *)

named           == Then(name_, <<>>)
makeCurrent(K)  == Then(current_, K)
makeFunction(K) == Then(Allocate("function", <<>>), makeCurrent(K))

InCompiler(mode, K) ==
  \/ todo = makeFunction(K) /\ Level(mode, 0)
  \/ todo = makeCurrent(K) /\ Level(mode, 0) /\ locals["function"] # 0

InName ==
  \/ InString("compiling", 0, named)
  \/ todo = named /\ Level("compiling", 0)

LEMMA CompilerCode ==
  ASSUME NEW K, IsCode(K), Wanted(K) = {}
  PROVE  /\ IsCode(makeCurrent(K)) /\ Wanted(makeCurrent(K)) = {"function"}
         /\ IsCode(makeFunction(K)) /\ Wanted(makeFunction(K)) = {}
<1>1. IsCode(makeCurrent(K)) /\ Wanted(makeCurrent(K)) = {"function"}
  BY OfCode DEF makeCurrent, current_
<1>2. IsCode(makeFunction(K)) /\ Wanted(makeFunction(K)) = {"function"} \ {"function"}
  BY <1>1, AllocateCode DEF makeFunction
<1> QED
  BY <1>1, <1>2

LEMMA NameCode ==
  /\ IsCode(named) /\ Wanted(named) = {"string"}
  /\ IsCode(copies(named)) /\ Wanted(copies(named)) = {}
<1>1. PICK K : K = <<>>
  OBVIOUS
<1>2. IsCode(K) /\ Wanted(K) = {}
  BY <1>1, NoCode
<1>3. IsCode(named) /\ Wanted(named) = {"string"}
  BY <1>1, <1>2, OfCode DEF named, name_
<1> QED
  BY <1>3, StringCode

LEMMA InitCompilerCode ==
  /\ initCompiler("script") = makeFunction(<<>>)
  /\ initCompiler("function") = makeFunction(copies(named))
<1>1. PICK a, b : a = Allocate("function", <<>>) /\ b = current_
  OBVIOUS
<1>2. \A K : K \in Seq(Range(K)) => <<a, b>> \o K = makeFunction(K)
  <2>1. ASSUME NEW K, K \in Seq(Range(K)) PROVE <<a, b>> \o K = Then(a, Then(b, K))
    BY <2>1, TwoSteps
  <2> QED
    BY <1>1, <2>1 DEF makeFunction, makeCurrent
<1>3. PICK N : N = <<>>
  OBVIOUS
<1>4. N \in Seq(Range(N)) /\ copies(named) \in Seq(Range(copies(named)))
  BY <1>3, NoCode, NameCode DEF IsCode
<1>5. initCompiler("script") = <<a, b>> \o N
  BY <1>1, <1>3 DEF initCompiler, current_
<1>6. copyString \o <<name_>> = copies(named)
  <2>1. PICK f, s : f = FindOr(<<Array>> \o allocateString) /\ s = <<name_>>
    OBVIOUS
  <2>2. s \in Seq(Range(s))
    BY <2>1, OneCode
  <2>3. <<f>> \o s = Then(f, s)
    BY <2>2, OneSteps
  <2>4. s = named
    BY <2>1, OneTuple DEF named
  <2> QED
    BY <2>1, <2>3, <2>4 DEF copies, copyString
<1>7. initCompiler("function") = <<a, b>> \o copies(named)
  BY <1>1, <1>6 DEF initCompiler, current_, name_
<1>8. <<a, b>> \o N = makeFunction(N) /\ <<a, b>> \o copies(named) = makeFunction(copies(named))
  BY <1>2, <1>4
<1> QED
  BY <1>3, <1>5, <1>7, <1>8

LEMMA CompilerNext ==
  ASSUME Consistent, Next, NEW mode \in {"alone", "compiling"}, NEW K, IsCode(K), Wanted(K) = {},
         InCompiler(mode, K)
  PROVE  Consistent' /\ (InCompiler(mode, K)' \/ (todo' = K /\ Level("compiling", 0)'))
<1>1. LocalsOK
  BY DEF Consistent
<1>2. CASE todo = makeFunction(K) /\ Level(mode, 0)
  <2>1. PICK L : L = makeCurrent(K)
    OBVIOUS
  <2>2. IsCode(L) /\ Wanted(L) = {"function"} /\ todo = Then(Allocate("function", <<>>), L) /\ Wanted(todo) = {}
    BY <1>2, <2>1, CompilerCode DEF makeFunction
  <2>3. Held
    BY <1>1, <2>2, NothingHeld
  <2>4. FieldsOK(Allocate("function", <<>>)) /\ Named("function")
    BY ToSets DEF FieldsOK, Allocate, Step, Named
  <2>5. /\ Consistent' /\ Level(mode, 0)'
        /\ \/ todo' = todo
           \/ /\ todo' = L
              /\ "function" \in Wanted(L) => locals'["function"] # 0
    BY <1>2, <2>2, <2>3, <2>4, AllocateStep
  <2> QED
    BY <1>2, <2>1, <2>2, <2>5 DEF InCompiler
<1>3. CASE todo = makeCurrent(K) /\ Level(mode, 0) /\ locals["function"] # 0
  <2>1. Bare(0)
    BY <1>3 DEF Level
  <2>2. Consistent' /\ Level("compiling", 0)' /\ todo' = K
    BY <1>3, <2>1, CurrentStep DEF makeCurrent
  <2> QED
    BY <2>2
<1> QED
  BY <1>2, <1>3 DEF InCompiler

LEMMA NameNext ==
  ASSUME Consistent, Next, InName
  PROVE  Consistent' /\ (InName' \/ Idle("compiling")')
<1>1. CASE InString("compiling", 0, named)
  BY <1>1, NameCode, StringNext DEF InName, HasString
<1>2. CASE todo = named /\ Level("compiling", 0)
  <2>1. PICK K : K = <<>>
    OBVIOUS
  <2>2. IsCode(K) /\ todo = Then(name_, K)
    BY <1>2, <2>1, NoCode DEF named
  <2>3. Consistent' /\ Level("compiling", 0)' /\ todo' = K
    BY <1>2, <2>2, NameStep
  <2> QED
    BY <2>1, <2>3 DEF Idle
<1> QED
  BY <1>1, <1>2 DEF InName

(* addConstant, and the code that names the constant.                      *)
addCode(T)     == Then(Array, T)
addPop(T)      == Then(Pop, addCode(T))
addStore(v, T) == Then(constant_(v), addPop(T))
addGrow(v, T)  == Then(Array, addStore(v, T))
addPush(v, T)  == Then(Push(v), addGrow(v, T))

IsConstant(x) == \E k : Has(Last(compilers), "constants", k) /\ Ref(Last(compilers), "constants", k) = x

InConstant(v, T) ==
  \/ todo = addPush(v, T) /\ Level("compiling", 0)
  \/ todo = addGrow(v, T) /\ Level("compiling", 1) /\ locals[v] = Top(0)
  \/ todo = addStore(v, T) /\ Level("compiling", 1)
  \/ todo = addPop(T) /\ Level("compiling", 1) /\ (v \in Wanted(T) => IsConstant(locals[v]))
  \/ todo = addCode(T) /\ Level("compiling", 0) /\ (v \in Wanted(T) => IsConstant(locals[v]))

LEMMA ConstantCode ==
  ASSUME NEW v, Named(v), NEW T, IsCode(T), Wanted(T) \subseteq {v}
  PROVE  /\ IsCode(addCode(T)) /\ Wanted(addCode(T)) = Wanted(T)
         /\ IsCode(addPop(T)) /\ Wanted(addPop(T)) = Wanted(T)
         /\ IsCode(addStore(v, T)) /\ Wanted(addStore(v, T)) = {v}
         /\ IsCode(addGrow(v, T)) /\ Wanted(addGrow(v, T)) = {v}
         /\ IsCode(addPush(v, T)) /\ Wanted(addPush(v, T)) = {v}
<1>1. IsCode(addCode(T)) /\ Wanted(addCode(T)) = Wanted(T)
  BY ArrayCode DEF addCode
<1>2. IsCode(addPop(T)) /\ Wanted(addPop(T)) = Wanted(T)
  BY <1>1, PopCode DEF addPop
<1>3. IsCode(addStore(v, T)) /\ Wanted(addStore(v, T)) = {v}
  <2>1. IsCode(addStore(v, T)) /\ Wanted(addStore(v, T)) = {v} \cup Wanted(T)
    BY <1>2, OfCode DEF addStore, constant_, Named
  <2> QED
    BY <2>1
<1>4. IsCode(addGrow(v, T)) /\ Wanted(addGrow(v, T)) = {v}
  BY <1>3, ArrayCode DEF addGrow
<1>5. IsCode(addPush(v, T)) /\ Wanted(addPush(v, T)) = {v}
  BY <1>4, PushCode DEF addPush, Named
<1> QED
  BY <1>1, <1>2, <1>3, <1>4, <1>5

LEMMA ConstantIsKept ==
  ASSUME HeapOK, RootsOK, compilers # <<>>, NEW x, IsConstant(x)
  PROVE  Kept(x)
<1>1. PICK c : c = Last(compilers)
  OBVIOUS
<1>2. c \in DOMAIN heap /\ Reaches(c)
  BY <1>1, LastCompiler, RootReaches
<1>3. PICK k : Has(c, "constants", k) /\ Ref(c, "constants", k) = x
  BY <1>1 DEF IsConstant
<1> QED
  BY <1>2, <1>3, ReferenceReaches

LEMMA ConstantNext ==
  ASSUME Consistent, Next, NEW v, Named(v), NEW T, IsCode(T), Wanted(T) \subseteq {v}, InConstant(v, T)
  PROVE  Consistent' /\ (InConstant(v, T)' \/ (todo' = T /\ Level("compiling", 0)'))
<1>1. LocalsOK /\ HeapOK /\ RootsOK
  BY DEF Consistent
<1>2. CASE todo = addPush(v, T) /\ Level("compiling", 0)
  <2>1. PICK L : L = addGrow(v, T)
    OBVIOUS
  <2>2. IsCode(L) /\ Wanted(L) = {v} /\ todo = Then(Push(v), L)
    BY <1>2, <2>1, ConstantCode DEF addPush
  <2>3. Consistent' /\ Level("compiling", 1)' /\ todo' = L /\ Top(0)' = locals[v] /\ locals'[v] = locals[v]
    BY <1>2, <2>2, PushStep
  <2> QED
    BY <2>1, <2>3 DEF InConstant
<1>3. CASE todo = addGrow(v, T) /\ Level("compiling", 1) /\ locals[v] = Top(0)
  <2>1. PICK L : L = addStore(v, T)
    OBVIOUS
  <2>2. IsCode(L) /\ Wanted(L) = {v} /\ todo = Then(Array, L) /\ Wanted(todo) = {v}
    BY <1>3, <2>1, ConstantCode DEF addGrow
  <2>3. Kept(Top(0))
    BY <1>3, LevelTop
  <2>4. Held
    BY <1>1, <1>3, <2>2, <2>3, OneHeld
  <2>5. /\ Consistent' /\ Level("compiling", 1)' /\ (todo' = todo \/ todo' = L)
        /\ locals'[v] = locals[v] /\ Top(0)' = Top(0)
    BY <1>3, <2>2, <2>4, ArrayStep
  <2> QED
    BY <1>3, <2>1, <2>5 DEF InConstant
<1>4. CASE todo = addStore(v, T) /\ Level("compiling", 1)
  <2>1. PICK L : L = addPop(T)
    OBVIOUS
  <2>2. IsCode(L) /\ Wanted(L) = Wanted(T) /\ todo = Then(constant_(v), L)
    BY <1>4, <2>1, ConstantCode DEF addStore
  <2>3. PICK a : a = locals[v]
    OBVIOUS
  <2>4. /\ Consistent' /\ Level("compiling", 1)' /\ todo' = L
        /\ \A w \in Wanted(L) : locals'[w] = locals[w]
        /\ \E k : Has(Last(compilers), "constants", k)' /\ Ref(Last(compilers), "constants", k)' = a
    BY <1>4, <2>2, <2>3, ConstantStep
  <2>5. IsConstant(a)'
    BY <2>4 DEF IsConstant
  <2>6. v \in Wanted(T) => locals'[v] = a
    BY <2>2, <2>3, <2>4
  <2>7. v \in Wanted(T) => IsConstant(locals[v])'
    BY <2>5, <2>6
  <2> QED
    BY <2>1, <2>4, <2>7 DEF InConstant
<1>5. CASE todo = addPop(T) /\ Level("compiling", 1) /\ (v \in Wanted(T) => IsConstant(locals[v]))
  <2>1. PICK L : L = addCode(T)
    OBVIOUS
  <2>2. IsCode(L) /\ Wanted(L) = Wanted(T) /\ todo = Then(Pop, L)
    BY <1>5, <2>1, ConstantCode DEF addPop
  <2>3. /\ Consistent' /\ Level("compiling", 0)' /\ todo' = L
        /\ \A w \in Wanted(L) : locals'[w] = locals[w]
        /\ heap' = heap /\ compilers' = compilers
    BY <1>5, <2>2, PopStep
  <2>4. \A x : IsConstant(x) => IsConstant(x)'
    BY <2>3 DEF IsConstant, Has, Ref
  <2>5. v \in Wanted(T) => IsConstant(locals[v])'
    <3>1. PICK a : a = locals[v]
      OBVIOUS
    <3>2. v \in Wanted(T) => IsConstant(a)' /\ locals'[v] = a
      BY <1>5, <2>2, <2>3, <2>4, <3>1
    <3> QED
      BY <3>2
  <2> QED
    BY <2>1, <2>3, <2>5 DEF InConstant
<1>6. CASE todo = addCode(T) /\ Level("compiling", 0) /\ (v \in Wanted(T) => IsConstant(locals[v]))
  <2>1. IsCode(T) /\ todo = Then(Array, T) /\ Wanted(todo) = Wanted(T)
    BY <1>6, ConstantCode DEF addCode
  <2>2. compilers # <<>>
    BY <1>6 DEF Level
  <2>3. Held
    <3>1. \A w \in DOMAIN locals : w = v /\ v \in Wanted(T)
      BY <1>1, <2>1 DEF LocalsOK
    <3>2. v \in Wanted(T) => Kept(locals[v])
      BY <1>1, <1>6, <2>2, ConstantIsKept
    <3> QED
      BY <3>1, <3>2 DEF Held
  <2>4. /\ Consistent' /\ Level("compiling", 0)' /\ Stays /\ (todo' = todo \/ todo' = T)
        /\ \A w \in Wanted(T) : locals'[w] = locals[w]
        /\ compilers' = compilers
    BY <1>6, <2>1, <2>3, ArrayStep
  <2>5. PICK c : c = Last(compilers)
    OBVIOUS
  <2>6. Kept(c) /\ c = Last(compilers')
    BY <1>1, <2>2, <2>4, <2>5, LastCompiler, RootReaches DEF Kept
  <2>7. \A x : IsConstant(x) => IsConstant(x)'
    <3>1. ASSUME NEW k, NEW x, Has(c, "constants", k), Ref(c, "constants", k) = x
          PROVE  Has(c, "constants", k)' /\ Ref(c, "constants", k)' = x
      BY <2>4, <2>6, <3>1 DEF Stays
    <3>2. ASSUME NEW x, IsConstant(x) PROVE IsConstant(x)'
      <4>1. PICK k : Has(c, "constants", k) /\ Ref(c, "constants", k) = x
        BY <2>5, <3>2 DEF IsConstant
      <4>2. Has(c, "constants", k)' /\ Ref(c, "constants", k)' = x
        BY <3>1, <4>1
      <4>3. Has(Last(compilers), "constants", k)' /\ Ref(Last(compilers), "constants", k)' = x
        BY <2>6, <4>2 DEF Has, Ref
      <4> QED
        BY <4>3 DEF IsConstant
    <3> QED
      BY <3>2
  <2>8. v \in Wanted(T) => IsConstant(locals[v])'
    <3>1. PICK a : a = locals[v]
      OBVIOUS
    <3>2. v \in Wanted(T) => IsConstant(a)' /\ locals'[v] = a
      BY <1>6, <2>4, <2>7, <3>1
    <3> QED
      BY <3>2
  <2> QED
    BY <1>6, <2>4, <2>8 DEF InConstant
<1> QED
  BY <1>2, <1>3, <1>4, <1>5, <1>6 DEF InConstant

(* The string of a constant.                                               *)
pushConstant == addPush("string", <<>>)

InStringConstant ==
  \/ InString("compiling", 0, pushConstant)
  \/ InConstant("string", <<>>)

LEMMA StringConstantCode ==
  /\ IsCode(pushConstant) /\ Wanted(pushConstant) = {"string"}
  /\ IsCode(copies(pushConstant)) /\ Wanted(copies(pushConstant)) = {}
  /\ copyString \o addConstant("string") \o emitByte = copies(pushConstant)
<1>1. PICK T : T = <<>>
  OBVIOUS
<1>2. IsCode(T) /\ Wanted(T) \subseteq {"string"} /\ Named("string")
  BY <1>1, NoCode DEF Named
<1>3. IsCode(pushConstant) /\ Wanted(pushConstant) = {"string"}
  BY <1>1, <1>2, ConstantCode DEF pushConstant
<1>4. IsCode(copies(pushConstant)) /\ Wanted(copies(pushConstant)) = {}
  BY <1>3, StringCode
<1>5. PICK f, a, b, c, d : /\ f = FindOr(<<Array>> \o allocateString) /\ a = Push("string")
                           /\ b = Array /\ c = constant_("string") /\ d = Pop
  OBVIOUS
<1>6. PICK A : A = <<a, b, c, d>>
  OBVIOUS
<1>7. A \in Seq(Range(A))
  BY <1>6, FourCode
<1>8. <<f>> \o A = Then(f, A)
  BY <1>7, OneSteps
<1>9. PICK B : B = <<b>>
  OBVIOUS
<1>10. B \in Seq(Range(B)) /\ B = Then(b, T)
  BY <1>1, <1>9, OneCode, OneTuple
<1>11. Then(f, A) \o B = Then(f, A \o B)
  <2>1. B \in Seq(Range(B))
    BY <1>10
  <2> QED
    BY <1>7, <2>1, ThenJoined
<1>12. <<a, b, c, d>> \o B = Then(a, Then(b, Then(c, Then(d, B))))
  BY <1>10, FourSteps
<1>13. (<<f>> \o A) \o B = Then(f, Then(a, Then(b, Then(c, Then(d, Then(b, T))))))
  BY <1>6, <1>8, <1>10, <1>11, <1>12
<1>14. copies(pushConstant) = Then(f, Then(a, Then(b, Then(c, Then(d, Then(b, T))))))
  BY <1>1, <1>5 DEF copies, pushConstant, addPush, addGrow, addStore, addPop, addCode
<1>15. copyString \o addConstant("string") \o emitByte = (<<f>> \o A) \o B
  BY <1>5, <1>6, <1>9 DEF copyString, addConstant, emitByte, constant_
<1> QED
  BY <1>3, <1>4, <1>13, <1>14, <1>15

LEMMA StringConstantNext ==
  ASSUME Consistent, Next, InStringConstant
  PROVE  Consistent' /\ (InStringConstant' \/ Idle("compiling")')
<1>1. CASE InString("compiling", 0, pushConstant)
  <2>1. Consistent' /\ (InString("compiling", 0, pushConstant)' \/ HasString("compiling", 0, pushConstant)')
    BY <1>1, StringConstantCode, StringNext
  <2> QED
    BY <2>1 DEF HasString, InStringConstant, InConstant, pushConstant
<1>2. CASE InConstant("string", <<>>)
  <2>1. PICK T : T = <<>>
    OBVIOUS
  <2>2. IsCode(T) /\ Wanted(T) \subseteq {"string"} /\ Named("string") /\ InConstant("string", T)
    BY <1>2, <2>1, NoCode DEF Named
  <2>3. Consistent' /\ (InConstant("string", T)' \/ (todo' = T /\ Level("compiling", 0)'))
    BY <2>2, ConstantNext
  <2> QED
    BY <2>1, <2>3 DEF Idle, InStringConstant
<1> QED
  BY <1>1, <1>2 DEF InStringConstant

---------------------------------------------------------------------------
(* The end of a function, and of the script, which then runs.              *)

endNow(K)     == Then(end_, K)
endings(K)    == Then(Array, endNow(K))
readFunction  == Then(Read(<<"function">>), <<>>)
pushFunction  == addPush("function", readFunction)

runCall       == Then(Call("closure", 0), <<>>)
runClosure    == Then(Push("closure"), runCall)
runPop        == Then(Pop, runClosure)
runAllocate   == Then(Allocate("closure", <<"function">>), runPop)
runGrow       == Then(Array, runAllocate)
runPush       == Then(Push("function"), runGrow)

InEnding(K) == todo \in {endings(K), endNow(K)} /\ Level("compiling", 0)

InFunction ==
  \/ InEnding(pushFunction) /\ Len(compilers) > 1
  \/ InConstant("function", readFunction)
  \/ todo = readFunction /\ Level("compiling", 0)

HasClosure == locals["closure"] # 0 /\ Is(locals["closure"], "closure")

InExecute ==
  \/ InEnding(runPush) /\ Len(compilers) = 1
  \/ todo = runPush /\ Level("alone", 0) /\ locals["function"] # 0
  \/ /\ todo \in {runGrow, runAllocate} /\ Level("alone", 1)
     /\ locals["function"] = Top(0) /\ Top(0) # 0
  \/ todo = runPop /\ Level("alone", 1) /\ HasClosure
  \/ todo = runClosure /\ Level("alone", 0) /\ HasClosure
  \/ todo = runCall /\ Level("alone", 1) /\ HasClosure

InError == InEnding(<<>>) /\ Len(compilers) = 1

LEMMA EndingCode ==
  ASSUME NEW K, IsCode(K), Wanted(K) \subseteq {"function"}
  PROVE  /\ IsCode(endNow(K)) /\ Wanted(endNow(K)) = {}
         /\ IsCode(endings(K)) /\ Wanted(endings(K)) = {}
         /\ endCompiler \o K = endings(K)
<1>1. "function" # ""
  OBVIOUS
<1>2. IsCode(endNow(K)) /\ Wanted(endNow(K)) = Wanted(K) \ {"function"}
  BY GetsCode DEF endNow, end_
<1>3. Wanted(endNow(K)) = {}
  BY <1>2
<1>4. IsCode(endings(K)) /\ Wanted(endings(K)) = {}
  BY <1>2, <1>3, ArrayCode DEF endings
<1>5. endCompiler \o K = endings(K)
  <2>1. PICK a, b : a = Array /\ b = end_
    OBVIOUS
  <2>2. K \in Seq(Range(K))
    BY DEF IsCode
  <2>3. PICK B : B = <<b>>
    OBVIOUS
  <2>4. B \in Seq(Range(B))
    BY <2>3, OneCode
  <2>5. <<a>> \o B = Then(a, B)
    BY <2>4, OneSteps
  <2>6. Then(a, B) \o K = Then(a, B \o K)
    BY <2>2, <2>4, ThenJoined
  <2>7. <<b>> \o K = Then(b, K)
    BY <2>2, OneSteps
  <2>8. endCompiler \o K = (<<a>> \o B) \o K
    BY <2>1, <2>3 DEF endCompiler, emitByte, end_
  <2> QED
    BY <2>1, <2>3, <2>5, <2>6, <2>7, <2>8 DEF endings, endNow
<1> QED
  BY <1>2, <1>3, <1>4, <1>5

LEMMA EndingNext ==
  ASSUME Consistent, Next, NEW K, IsCode(K), Wanted(K) \subseteq {"function"}, InEnding(K)
  PROVE  /\ Consistent'
         /\ \/ InEnding(K)' /\ compilers' = compilers
            \/ /\ todo' = K
               /\ "function" \in Wanted(K) => locals'["function"] # 0
               /\ Len(compilers) = 1 => Level("alone", 0)'
               /\ Len(compilers) > 1 => Level("compiling", 0)'
<1>1. LocalsOK
  BY DEF Consistent
<1>2. CASE todo = endings(K) /\ Level("compiling", 0)
  <2>1. PICK L : L = endNow(K)
    OBVIOUS
  <2>2. IsCode(L) /\ Wanted(L) = {} /\ Wanted(todo) = {} /\ todo = Then(Array, L)
    BY <1>2, <2>1, EndingCode DEF endings
  <2>3. Held
    BY <1>1, <2>2, NothingHeld
  <2>4. /\ Consistent' /\ Level("compiling", 0)' /\ (todo' = todo \/ todo' = L)
        /\ compilers' = compilers
    BY <1>2, <2>2, <2>3, ArrayStep
  <2> QED
    BY <1>2, <2>1, <2>4 DEF InEnding
<1>3. CASE todo = endNow(K) /\ Level("compiling", 0)
  BY <1>3, EndStep DEF endNow
<1> QED
  BY <1>2, <1>3 DEF InEnding

LEMMA FunctionCode ==
  /\ IsCode(readFunction) /\ Wanted(readFunction) = {"function"}
  /\ IsCode(pushFunction) /\ Wanted(pushFunction) = {"function"}
  /\ IsCode(endings(pushFunction)) /\ Wanted(endings(pushFunction)) = {}
  /\ endCompiler \o addConstant("function") \o emitByte \o <<Read(<<"function">>)>>
       = endings(pushFunction)
<1>1. PICK N : N = <<>>
  OBVIOUS
<1>2. IsCode(N) /\ Wanted(N) = {} /\ Named("function") /\ "function" # ""
  BY <1>1, NoCode DEF Named
<1>3. IsCode(readFunction) /\ Wanted(readFunction) = {"function"}
  BY <1>1, <1>2, ReadCode DEF readFunction
<1>4. IsCode(pushFunction) /\ Wanted(pushFunction) = {"function"}
  BY <1>2, <1>3, ConstantCode DEF pushFunction
<1>5. IsCode(endings(pushFunction)) /\ Wanted(endings(pushFunction)) = {}
  BY <1>4, EndingCode
<1>6. PICK a, b, c, d, e : /\ a = Push("function") /\ b = Array /\ c = constant_("function") /\ d = Pop
                           /\ e = Read(<<"function">>)
  OBVIOUS
<1>7. PICK A, B, C, E : A = <<a, b, c, d>> /\ B = <<b>> /\ C = <<e>> /\ E = endCompiler
  OBVIOUS
<1>8. A \in Seq(Range(A)) /\ B \in Seq(Range(B)) /\ C \in Seq(Range(C)) /\ E \in Seq(Range(E))
  <2>1. E \in Seq(Range(E))
    <3>1. PICK x, y : x = Array /\ y = end_
      OBVIOUS
    <3>2. PICK Y : Y = <<y>>
      OBVIOUS
    <3>3. Y \in Seq(Range(Y))
      BY <3>2, OneCode
    <3>4. <<x>> \o Y = Then(x, Y)
      BY <3>3, OneSteps
    <3>5. E = <<x>> \o Y
      BY <1>7, <3>1, <3>2 DEF endCompiler, emitByte, end_
    <3>6. Then(x, Y) \in Seq(Range(Then(x, Y)))
      BY <3>3, ThenSeq
    <3> QED
      BY <3>4, <3>5, <3>6
  <2>2. A \in Seq(Range(A)) /\ B \in Seq(Range(B)) /\ C \in Seq(Range(C))
    BY <1>7, FourCode, OneCode
  <2> QED
    BY <2>1, <2>2
<1>9. ((E \o A) \o B) \o C = E \o (A \o (B \o C))
  <2>1. PICK S : S = Range(A) \cup Range(B) \cup Range(C) \cup Range(E)
    OBVIOUS
  <2>2. A \in Seq(S) /\ B \in Seq(S) /\ C \in Seq(S) /\ E \in Seq(S)
    <3>1. \A X, Y : X \subseteq Y => Seq(X) \subseteq Seq(Y)
      OBVIOUS
    <3> QED
      BY <1>8, <2>1, <3>1
  <2>3. \A x, y, z \in Seq(S) : (x \o y) \o z = x \o (y \o z)
    BY ConcatAssociative
  <2>4. E \o A \in Seq(S) /\ B \o C \in Seq(S)
    BY <2>2
  <2> QED
    BY <2>2, <2>3, <2>4
<1>10. B \o C = Then(b, readFunction)
  <2>1. C = readFunction
    BY <1>6, <1>7, OneTuple DEF readFunction
  <2>2. <<b>> \o C = Then(b, C)
    BY <1>8, OneSteps
  <2> QED
    BY <1>7, <2>1, <2>2
<1>11. A \o (B \o C) = pushFunction
  <2>1. PICK D : D = Then(b, readFunction)
    OBVIOUS
  <2>2. D \in Seq(Range(D))
    BY <1>3, <2>1, ThenSeq DEF IsCode
  <2>3. <<a, b, c, d>> \o D = Then(a, Then(b, Then(c, Then(d, D))))
    BY <2>2, FourSteps
  <2> QED
    BY <1>6, <1>7, <1>10, <2>1, <2>3 DEF pushFunction, addPush, addGrow, addStore, addPop, addCode
<1>12. E \o pushFunction = endings(pushFunction)
  BY <1>4, <1>7, EndingCode
<1>13. endCompiler \o addConstant("function") \o emitByte \o <<Read(<<"function">>)>>
        = ((E \o A) \o B) \o C
  BY <1>6, <1>7 DEF addConstant, emitByte, constant_
<1> QED
  BY <1>3, <1>4, <1>5, <1>9, <1>11, <1>12, <1>13

LEMMA FunctionNext ==
  ASSUME Consistent, Next, InFunction
  PROVE  Consistent' /\ (InFunction' \/ Idle("compiling")')
<1>1. CASE InEnding(pushFunction) /\ Len(compilers) > 1
  <2>1. PICK K : K = pushFunction
    OBVIOUS
  <2>2. IsCode(K) /\ Wanted(K) \subseteq {"function"} /\ InEnding(K)
    BY <1>1, <2>1, FunctionCode
  <2>3. /\ Consistent'
        /\ \/ InEnding(K)' /\ compilers' = compilers
           \/ /\ todo' = K
              /\ Len(compilers) > 1 => Level("compiling", 0)'
    BY <2>2, EndingNext
  <2>4. CASE InEnding(K)' /\ compilers' = compilers
    BY <1>1, <2>1, <2>3, <2>4 DEF InFunction
  <2>5. CASE todo' = K /\ Level("compiling", 0)'
    BY <2>1, <2>3, <2>5 DEF InFunction, InConstant, pushFunction
  <2> QED
    BY <1>1, <2>3, <2>4, <2>5
<1>2. CASE InConstant("function", readFunction)
  <2>1. IsCode(readFunction) /\ Wanted(readFunction) \subseteq {"function"} /\ Named("function")
    BY FunctionCode DEF Named
  <2>2. Consistent' /\ (InConstant("function", readFunction)' \/ (todo' = readFunction /\ Level("compiling", 0)'))
    BY <1>2, <2>1, ConstantNext
  <2> QED
    BY <2>2 DEF InFunction
<1>3. CASE todo = readFunction /\ Level("compiling", 0)
  <2>1. PICK K : K = <<>>
    OBVIOUS
  <2>2. IsCode(K) /\ todo = Then(Read(<<"function">>), K)
    BY <1>3, <2>1, NoCode DEF readFunction
  <2>3. /\ Consistent' /\ Passes(K, "", 0)
        /\ UNCHANGED <<heap, strings, stack, frames, openUpvalues, globals, compilers, initString>>
    BY <2>2, ReadSteps
  <2>4. Level("compiling", 0)'
    BY <1>3, <2>3, LevelStays
  <2> QED
    BY <2>1, <2>3, <2>4 DEF Idle, Passes
<1> QED
  BY <1>1, <1>2, <1>3 DEF InFunction

LEMMA ExecuteCode ==
  /\ IsCode(runCall) /\ Wanted(runCall) = {"closure"}
  /\ IsCode(runClosure) /\ Wanted(runClosure) = {"closure"}
  /\ IsCode(runPop) /\ Wanted(runPop) = {"closure"}
  /\ IsCode(runAllocate) /\ Wanted(runAllocate) = {"function"}
  /\ IsCode(runGrow) /\ Wanted(runGrow) = {"function"}
  /\ IsCode(runPush) /\ Wanted(runPush) = {"function"}
  /\ IsCode(endings(runPush)) /\ Wanted(endings(runPush)) = {}
  /\ execute = endings(runPush)
<1>1. PICK N : N = <<>>
  OBVIOUS
<1>2. IsCode(N) /\ Wanted(N) = {} /\ "function" # "" /\ "closure" # ""
  BY <1>1, NoCode
<1>3. IsCode(runCall) /\ Wanted(runCall) = {"closure"}
  BY <1>1, <1>2, CallCode DEF runCall
<1>4. IsCode(runClosure) /\ Wanted(runClosure) = {"closure"}
  BY <1>2, <1>3, PushCode DEF runClosure
<1>5. IsCode(runPop) /\ Wanted(runPop) = {"closure"}
  BY <1>4, PopCode DEF runPop
<1>6. IsCode(runAllocate) /\ Wanted(runAllocate) = {"function"}
  <2>1. PICK K : K = runPop
    OBVIOUS
  <2>2. IsCode(K) /\ Wanted(K) = {"closure"} /\ "function" # ""
    BY <1>5, <2>1
  <2>3. /\ IsCode(Then(Allocate("closure", <<"function">>), K))
        /\ Wanted(Then(Allocate("closure", <<"function">>), K)) = {"function"} \cup (Wanted(K) \ {"closure"})
    BY <2>2, AllocateOfCode
  <2> QED
    BY <2>1, <2>2, <2>3 DEF runAllocate
<1>7. IsCode(runGrow) /\ Wanted(runGrow) = {"function"}
  BY <1>6, ArrayCode DEF runGrow
<1>8. IsCode(runPush) /\ Wanted(runPush) = {"function"}
  BY <1>2, <1>7, PushCode DEF runPush
<1>9. IsCode(endings(runPush)) /\ Wanted(endings(runPush)) = {}
  BY <1>8, EndingCode
<1>10. execute = endings(runPush)
  <2>1. PICK a, b, c, d, e, f : /\ a = Push("function") /\ b = Array /\ c = Allocate("closure", <<"function">>)
                                /\ d = Pop /\ e = Push("closure") /\ f = Call("closure", 0)
    OBVIOUS
  <2>2. PICK A, B, C, E : A = <<a>> /\ B = <<b, c>> /\ C = <<d, e, f>> /\ E = endCompiler
    OBVIOUS
  <2>3. A \in Seq(Range(A)) /\ B \in Seq(Range(B)) /\ C \in Seq(Range(C))
    BY <2>2, OneCode, TwoCode, ThreeCode
  <2>4. E \in Seq(Range(E))
    <3>1. PICK x, y : x = Array /\ y = end_
      OBVIOUS
    <3>2. PICK Y : Y = <<y>>
      OBVIOUS
    <3>3. Y \in Seq(Range(Y))
      BY <3>2, OneCode
    <3>4. <<x>> \o Y = Then(x, Y)
      BY <3>3, OneSteps
    <3>5. E = <<x>> \o Y
      BY <2>2, <3>1, <3>2 DEF endCompiler, emitByte, end_
    <3>6. Then(x, Y) \in Seq(Range(Then(x, Y)))
      BY <3>3, ThenSeq
    <3> QED
      BY <3>4, <3>5, <3>6
  <2>5. ((E \o A) \o B) \o C = E \o (A \o (B \o C))
    <3>1. PICK S : S = Range(A) \cup Range(B) \cup Range(C) \cup Range(E)
      OBVIOUS
    <3>2. A \in Seq(S) /\ B \in Seq(S) /\ C \in Seq(S) /\ E \in Seq(S)
      <4>1. \A X, Y : X \subseteq Y => Seq(X) \subseteq Seq(Y)
        OBVIOUS
      <4> QED
        BY <2>3, <2>4, <3>1, <4>1
    <3>3. \A x, y, z \in Seq(S) : (x \o y) \o z = x \o (y \o z)
      BY ConcatAssociative
    <3>4. E \o A \in Seq(S) /\ B \o C \in Seq(S)
      BY <3>2
    <3> QED
      BY <3>2, <3>3, <3>4
  <2>6. C = runPop
    <3>1. <<d, e, f>> = Then(d, Then(e, Then(f, <<>>)))
      BY ThreeChain
    <3> QED
      BY <2>1, <2>2, <3>1 DEF runPop, runClosure, runCall
  <2>7. B \o C = runGrow
    <3>1. <<b, c>> \o C = Then(b, Then(c, C))
      BY <2>3, TwoSteps
    <3> QED
      BY <2>1, <2>2, <2>6, <3>1 DEF runGrow, runAllocate
  <2>8. A \o (B \o C) = runPush
    <3>1. PICK D : D = runGrow
      OBVIOUS
    <3>2. D \in Seq(Range(D))
      BY <1>7, <3>1 DEF IsCode
    <3>3. <<a>> \o D = Then(a, D)
      BY <3>2, OneSteps
    <3> QED
      BY <2>1, <2>2, <2>7, <3>1, <3>3 DEF runPush
  <2>9. E \o runPush = endings(runPush)
    BY <1>8, <2>2, EndingCode
  <2>10. execute = ((E \o A) \o B) \o C
    BY <2>1, <2>2 DEF execute, newClosure
  <2> QED
    BY <2>5, <2>8, <2>9, <2>10
<1> QED
  BY <1>3, <1>4, <1>5, <1>6, <1>7, <1>8, <1>9, <1>10

LEMMA ExecuteNext ==
  ASSUME Consistent, Next, InExecute
  PROVE  \/ Consistent' /\ InExecute'
         \/ Idle("running")' \/ Idle("alone")'
<1>1. LocalsOK /\ HeapOK
  BY DEF Consistent
<1>2. CASE InEnding(runPush) /\ Len(compilers) = 1
  <2>1. PICK K : K = runPush
    OBVIOUS
  <2>2. IsCode(K) /\ Wanted(K) = {"function"} /\ Wanted(K) \subseteq {"function"} /\ InEnding(K)
    BY <1>2, <2>1, ExecuteCode
  <2>3. /\ Consistent'
        /\ \/ InEnding(K)' /\ compilers' = compilers
           \/ /\ todo' = K
              /\ "function" \in Wanted(K) => locals'["function"] # 0
              /\ Len(compilers) = 1 => Level("alone", 0)'
    BY <2>2, EndingNext
  <2>4. CASE InEnding(K)' /\ compilers' = compilers
    BY <1>2, <2>1, <2>3, <2>4 DEF InExecute
  <2>5. CASE todo' = K /\ Level("alone", 0)' /\ locals'["function"] # 0
    BY <2>1, <2>3, <2>5 DEF InExecute
  <2> QED
    BY <1>2, <2>2, <2>3, <2>4, <2>5
<1>3. CASE todo = runPush /\ Level("alone", 0) /\ locals["function"] # 0
  <2>1. /\ Consistent' /\ Level("alone", 1)' /\ todo' = runGrow
        /\ Top(0)' = locals["function"] /\ locals'["function"] = locals["function"]
    BY <1>3, ExecuteCode, PushStep DEF runPush
  <2> QED
    BY <1>3, <2>1 DEF InExecute
<1>4. CASE /\ todo = runGrow /\ Level("alone", 1)
           /\ locals["function"] = Top(0) /\ Top(0) # 0
  <2>1. Kept(Top(0))
    BY <1>4, LevelTop
  <2>2. Held
    BY <1>1, <1>4, <2>1, ExecuteCode, OneHeld
  <2>3. todo = Then(Array, runAllocate) /\ IsCode(runAllocate) /\ Wanted(runAllocate) = {"function"}
    BY <1>4, ExecuteCode DEF runGrow
  <2>4. /\ Consistent' /\ Level("alone", 1)' /\ (todo' = todo \/ todo' = runAllocate)
        /\ locals'["function"] = locals["function"] /\ Top(0)' = Top(0)
    BY <1>4, <2>2, <2>3, ArrayStep
  <2> QED
    BY <1>4, <2>4 DEF InExecute
<1>5. CASE /\ todo = runAllocate /\ Level("alone", 1)
           /\ locals["function"] = Top(0) /\ Top(0) # 0
  <2>1. Kept(Top(0))
    BY <1>5, LevelTop
  <2>2. Held
    BY <1>1, <1>5, <2>1, ExecuteCode, OneHeld
  <2>3. FieldsOK(Allocate("closure", <<"function">>))
    BY <1>5, ToSets DEF FieldsOK, Allocate, Step
  <2>4. todo = Then(Allocate("closure", <<"function">>), runPop) /\ IsCode(runPop) /\ Wanted(runPop) = {"closure"}
    BY <1>5, ExecuteCode DEF runAllocate
  <2>5. Named("closure")
    BY DEF Named
  <2>6. /\ Consistent' /\ Level("alone", 1)' /\ Top(0)' = Top(0)
        /\ \/ todo' = todo /\ locals' = locals
           \/ /\ todo' = runPop
              /\ locals'["closure"] # 0 /\ heap'[locals'["closure"]].type = "closure"
    BY <1>5, <2>2, <2>3, <2>4, <2>5, AllocateStep
  <2> QED
    BY <1>5, <2>6 DEF InExecute, HasClosure, Is
<1>6. CASE todo = runPop /\ Level("alone", 1) /\ HasClosure
  <2>1. /\ Consistent' /\ Level("alone", 0)' /\ todo' = runClosure
        /\ locals'["closure"] = locals["closure"] /\ heap' = heap
    BY <1>6, ExecuteCode, PopStep DEF runPop
  <2> QED
    BY <1>6, <2>1 DEF InExecute, HasClosure, Is
<1>7. CASE todo = runClosure /\ Level("alone", 0) /\ HasClosure
  <2>1. /\ Consistent' /\ Level("alone", 1)' /\ todo' = runCall
        /\ locals'["closure"] = locals["closure"] /\ heap' = heap
    BY <1>7, ExecuteCode, PushStep DEF runClosure
  <2> QED
    BY <1>7, <2>1 DEF InExecute, HasClosure, Is
<1>8. CASE todo = runCall /\ Level("alone", 1) /\ HasClosure
  <2>1. compilers = <<>> /\ Len(stack) = 1
    BY <1>8 DEF Level, Bare
  <2>2. Enterable(0) /\ 0 + 1 <= Len(stack)
    BY <2>1 DEF Enterable
  <2>3. locals["closure"] # 0 /\ Is(locals["closure"], "closure") /\ todo = Then(Call("closure", 0), <<>>)
    BY <1>8 DEF HasClosure, runCall
  <2> QED
    BY <2>2, <2>3, CallStep
<1> QED
  BY <1>2, <1>3, <1>4, <1>5, <1>6, <1>7, <1>8 DEF InExecute

LEMMA ErrorCode ==
  /\ IsCode(endings(<<>>)) /\ Wanted(endings(<<>>)) = {}
  /\ endCompiler = endings(<<>>)
<1>1. PICK N : N = <<>>
  OBVIOUS
<1>2. IsCode(N) /\ Wanted(N) \subseteq {"function"}
  BY <1>1, NoCode
<1>3. IsCode(endings(N)) /\ Wanted(endings(N)) = {}
  BY <1>2, EndingCode
<1>4. PICK a, b : a = Array /\ b = end_
  OBVIOUS
<1>5. PICK B : B = <<b>>
  OBVIOUS
<1>6. B \in Seq(Range(B)) /\ B = Then(b, N)
  BY <1>1, <1>5, OneCode, OneTuple
<1>7. <<a>> \o B = Then(a, B)
  <2>1. B \in Seq(Range(B))
    BY <1>6
  <2> QED
    BY <2>1, OneSteps
<1>8. endCompiler = <<a>> \o B
  BY <1>4, <1>5 DEF endCompiler, emitByte, end_
<1>9. endings(N) = Then(a, Then(b, N))
  BY <1>4 DEF endings, endNow
<1> QED
  BY <1>1, <1>3, <1>6, <1>7, <1>8, <1>9

LEMMA ErrorNext ==
  ASSUME Consistent, Next, InError
  PROVE  Consistent' /\ (InError' \/ Idle("alone")')
<1>1. PICK K : K = <<>>
  OBVIOUS
<1>2. IsCode(K) /\ Wanted(K) \subseteq {"function"} /\ InEnding(K) /\ Len(compilers) = 1
  BY <1>1, NoCode DEF InError
<1>3. /\ Consistent'
      /\ \/ InEnding(K)' /\ compilers' = compilers
         \/ /\ todo' = K
            /\ Len(compilers) = 1 => Level("alone", 0)'
  BY <1>2, EndingNext
<1>4. CASE InEnding(K)' /\ compilers' = compilers
  BY <1>1, <1>2, <1>3, <1>4 DEF InError
<1>5. CASE todo' = K /\ Level("alone", 0)'
  BY <1>1, <1>3, <1>5 DEF Idle
<1> QED
  BY <1>2, <1>3, <1>4, <1>5

---------------------------------------------------------------------------
(* run(): the addition of strings.                                         *)

LEMMA LowerLevel ==
  ASSUME Consistent, NEW n \in Nat, Level("running", n)
  PROVE  Level("running", 0)
<1>1. PICK l : l = Len(stack)
  OBVIOUS
<1>2. l \in Nat /\ \A u \in openUpvalues : u.location <= l - 0
  BY <1>1 DEF Consistent, RootsOK
<1>3. Room(0)
  BY <1>1, <1>2 DEF Room
<1> QED
  BY <1>3 DEF Level

(* The last step of an instruction pushes its result.                      *)
pushed(v) == Then(Push(v), <<>>)

LEMMA PushedCode ==
  ASSUME NEW v, Named(v)
  PROVE  IsCode(pushed(v)) /\ Wanted(pushed(v)) = {v}
<1>1. PICK N : N = <<>>
  OBVIOUS
<1>2. IsCode(N) /\ Wanted(N) = {} /\ v # ""
  BY <1>1, NoCode DEF Named
<1>3. IsCode(Then(Push(v), N)) /\ Wanted(Then(Push(v), N)) = {v} \cup Wanted(N)
  BY <1>2, PushCode
<1> QED
  BY <1>1, <1>2, <1>3 DEF pushed

LEMMA PushedNext ==
  ASSUME Consistent, Next, NEW v, Named(v), todo = pushed(v), NEW n \in Nat, Level("running", n)
  PROVE  Idle("running")'
<1>1. PICK N : N = <<>>
  OBVIOUS
<1>2. IsCode(N) /\ todo = Then(Push(v), N)
  BY <1>1, NoCode DEF pushed
<1>3. PICK m : m = n + 1
  OBVIOUS
<1>4. Consistent' /\ Level("running", m)' /\ todo' = N
  BY <1>2, <1>3, PushStep
<1>5. Level("running", 0)'
  <2>1. PICK l : l = Len(stack')
    OBVIOUS
  <2>2. l \in Nat /\ \A u \in openUpvalues' : u.location <= l - 0
    BY <1>4, <2>1 DEF Consistent, RootsOK
  <2>3. Room(0)'
    BY <2>1, <2>2 DEF Room
  <2> QED
    BY <1>4, <2>3 DEF Level
<1> QED
  BY <1>1, <1>4, <1>5 DEF Idle

concatPop  == Then(Pop, pushed("string"))
concatPops == Then(Pop, concatPop)
concatRead == Then(Read(<<"a", "b">>), takes(concatPops))
concatGrow == Then(Array, concatRead)

InConcatenate ==
  \/ todo = concatGrow /\ Level("running", 2) /\ locals["a"] = Top(1) /\ locals["b"] = Top(0)
  \/ todo = concatRead /\ Level("running", 2)
  \/ InString("running", 2, concatPops)
  \/ todo = concatPops /\ Level("running", 2)
  \/ todo = concatPop /\ Level("running", 1)
  \/ todo = pushed("string") /\ Level("running", 0)

LEMMA ConcatenateCode ==
  /\ IsCode(pushed("string")) /\ Wanted(pushed("string")) = {"string"}
  /\ IsCode(concatPop) /\ Wanted(concatPop) = {"string"}
  /\ IsCode(concatPops) /\ Wanted(concatPops) = {"string"}
  /\ IsCode(takes(concatPops)) /\ Wanted(takes(concatPops)) = {}
  /\ IsCode(concatRead) /\ Wanted(concatRead) = {"a", "b"}
  /\ IsCode(concatGrow) /\ Wanted(concatGrow) = {"a", "b"}
  /\ concatenate = concatGrow
<1>1. IsCode(pushed("string")) /\ Wanted(pushed("string")) = {"string"}
  BY PushedCode DEF Named
<1>2. IsCode(concatPop) /\ Wanted(concatPop) = {"string"}
  BY <1>1, PopCode DEF concatPop
<1>3. IsCode(concatPops) /\ Wanted(concatPops) = {"string"}
  BY <1>2, PopCode DEF concatPops
<1>4. IsCode(takes(concatPops)) /\ Wanted(takes(concatPops)) = {}
  BY <1>3, StringCode
<1>5. IsCode(concatRead) /\ Wanted(concatRead) = {"a", "b"}
  <2>1. PICK K : K = takes(concatPops)
    OBVIOUS
  <2>2. IsCode(K) /\ Wanted(K) = {} /\ "a" # "" /\ "b" # ""
    BY <1>4, <2>1
  <2>3. IsCode(Then(Read(<<"a", "b">>), K)) /\ Wanted(Then(Read(<<"a", "b">>), K)) = {"a", "b"} \cup Wanted(K)
    BY <2>2, ReadTwoCode
  <2> QED
    BY <2>1, <2>2, <2>3 DEF concatRead
<1>6. IsCode(concatGrow) /\ Wanted(concatGrow) = {"a", "b"}
  BY <1>5, ArrayCode DEF concatGrow
<1>7. concatenate = concatGrow
  <2>1. PICK a, b, c, d, f : /\ a = Array /\ b = Read(<<"a", "b">>) /\ c = Pop /\ d = Push("string")
                             /\ f = FindOr(allocateString)
    OBVIOUS
  <2>2. PICK A, B, C : A = <<a, b>> /\ B = <<f>> /\ C = <<c, c, d>>
    OBVIOUS
  <2>3. A \in Seq(Range(A)) /\ B \in Seq(Range(B)) /\ C \in Seq(Range(C))
    BY <2>2, OneCode, TwoCode, ThreeCode
  <2>4. (A \o B) \o C = A \o (B \o C)
    <3>1. PICK S : S = Range(A) \cup Range(B) \cup Range(C)
      OBVIOUS
    <3>2. A \in Seq(S) /\ B \in Seq(S) /\ C \in Seq(S)
      <4>1. \A X, Y : X \subseteq Y => Seq(X) \subseteq Seq(Y)
        OBVIOUS
      <4> QED
        BY <2>3, <3>1, <4>1
    <3>3. \A x, y, z \in Seq(S) : (x \o y) \o z = x \o (y \o z)
      BY ConcatAssociative
    <3> QED
      BY <3>2, <3>3
  <2>5. C = concatPops
    <3>1. <<c, c, d>> = Then(c, Then(c, Then(d, <<>>)))
      BY ThreeChain
    <3> QED
      BY <2>1, <2>2, <3>1 DEF concatPops, concatPop, pushed
  <2>6. B \o C = takes(concatPops)
    <3>1. <<f>> \o C = Then(f, C)
      BY <2>3, OneSteps
    <3> QED
      BY <2>1, <2>2, <2>5, <3>1 DEF takes
  <2>7. A \o (B \o C) = concatGrow
    <3>1. PICK D : D = takes(concatPops)
      OBVIOUS
    <3>2. D \in Seq(Range(D))
      BY <1>4, <3>1 DEF IsCode
    <3>3. <<a, b>> \o D = Then(a, Then(b, D))
      BY <3>2, TwoSteps
    <3> QED
      BY <2>1, <2>2, <2>6, <3>1, <3>3 DEF concatGrow, concatRead
  <2>8. concatenate = (A \o B) \o C
    BY <2>1, <2>2 DEF concatenate, takeString
  <2> QED
    BY <2>4, <2>7, <2>8
<1> QED
  BY <1>1, <1>2, <1>3, <1>4, <1>5, <1>6, <1>7

LEMMA ConcatenateNext ==
  ASSUME Consistent, Next, InConcatenate
  PROVE  Consistent' /\ (InConcatenate' \/ Idle("running")')
<1>1. LocalsOK
  BY DEF Consistent
<1>2. CASE todo = concatGrow /\ Level("running", 2) /\ locals["a"] = Top(1) /\ locals["b"] = Top(0)
  <2>1. Kept(Top(0)) /\ Kept(Top(1))
    BY <1>2, LevelTop
  <2>2. Held
    BY <1>1, <1>2, <2>1, ConcatenateCode, TwoHeld
  <2>3. todo = Then(Array, concatRead) /\ IsCode(concatRead) /\ Wanted(concatRead) = {"a", "b"}
    BY <1>2, ConcatenateCode DEF concatGrow
  <2>4. /\ Consistent' /\ Level("running", 2)' /\ (todo' = todo \/ todo' = concatRead)
        /\ locals'["a"] = locals["a"] /\ locals'["b"] = locals["b"]
        /\ Top(1)' = Top(1) /\ Top(0)' = Top(0)
    BY <1>2, <2>2, <2>3, ArrayStep
  <2> QED
    BY <1>2, <2>4 DEF InConcatenate
<1>3. CASE todo = concatRead /\ Level("running", 2)
  <2>1. PICK K : K = takes(concatPops)
    OBVIOUS
  <2>2. IsCode(K) /\ todo = Then(Read(<<"a", "b">>), K)
    BY <1>3, <2>1, ConcatenateCode DEF concatRead
  <2>3. /\ Consistent' /\ Passes(K, "", 0)
        /\ UNCHANGED <<heap, strings, stack, frames, openUpvalues, globals, compilers, initString>>
    BY <2>2, ReadSteps
  <2>4. Level("running", 2)' /\ todo' = K
    BY <1>3, <2>3, LevelStays DEF Passes
  <2> QED
    BY <2>1, <2>3, <2>4 DEF InConcatenate, InString
<1>4. CASE InString("running", 2, concatPops)
  BY <1>4, ConcatenateCode, StringNext DEF InConcatenate, HasString
<1>5. CASE todo = concatPops /\ Level("running", 2)
  <2>1. Consistent' /\ Level("running", 1)' /\ todo' = concatPop
    BY <1>5, ConcatenateCode, PopStep DEF concatPops
  <2> QED
    BY <2>1 DEF InConcatenate
<1>6. CASE todo = concatPop /\ Level("running", 1)
  <2>1. Consistent' /\ Level("running", 0)' /\ todo' = pushed("string")
    BY <1>6, ConcatenateCode, PopStep DEF concatPop
  <2> QED
    BY <2>1 DEF InConcatenate
<1>7. CASE todo = pushed("string") /\ Level("running", 0)
  <2>1. Named("string")
    BY DEF Named
  <2> QED
    BY <1>7, <2>1, PushedNext DEF Idle
<1> QED
  BY <1>2, <1>3, <1>4, <1>5, <1>6, <1>7 DEF InConcatenate

---------------------------------------------------------------------------
(* OP_GET_PROPERTY and OP_GET_SUPER of a method.                           *)

bindPop      == Then(Pop, pushed("bound"))
bindAllocate == Then(Allocate("bound", <<"receiver", "method">>), bindPop)

InBind ==
  \/ /\ todo = bindAllocate /\ Level("running", 1)
     /\ Kept(locals["receiver"]) /\ Kept(locals["method"])
     /\ Is(locals["method"], "closure")
  \/ todo = bindPop /\ Level("running", 1)
  \/ todo = pushed("bound") /\ Level("running", 0)

LEMMA BindCode ==
  /\ IsCode(pushed("bound")) /\ Wanted(pushed("bound")) = {"bound"}
  /\ IsCode(bindPop) /\ Wanted(bindPop) = {"bound"}
  /\ IsCode(bindAllocate) /\ Wanted(bindAllocate) = {"receiver", "method"}
  /\ bindMethod = bindAllocate
<1>1. IsCode(pushed("bound")) /\ Wanted(pushed("bound")) = {"bound"}
  BY PushedCode DEF Named
<1>2. IsCode(bindPop) /\ Wanted(bindPop) = {"bound"}
  BY <1>1, PopCode DEF bindPop
<1>3. IsCode(bindAllocate) /\ Wanted(bindAllocate) = {"receiver", "method"}
  <2>1. PICK K : K = bindPop
    OBVIOUS
  <2>2. IsCode(K) /\ Wanted(K) = {"bound"}
    BY <1>2, <2>1
  <2>3. PICK v, w : v = "receiver" /\ w = "method"
    OBVIOUS
  <2>4. Named(v) /\ Named(w)
    BY <2>3 DEF Named
  <2>5. /\ IsCode(Then(Allocate("bound", <<v, w>>), K))
        /\ Wanted(Then(Allocate("bound", <<v, w>>), K)) = {v, w} \cup (Wanted(K) \ {"bound"})
    BY <2>2, <2>4, AllocateOfTwoCode
  <2>6. v # "bound" /\ w # "bound"
    BY <2>3
  <2> QED
    BY <2>1, <2>2, <2>3, <2>5 DEF bindAllocate
<1>4. bindMethod = bindAllocate
  <2>1. PICK a, b, c : a = Allocate("bound", <<"receiver", "method">>) /\ b = Pop /\ c = Push("bound")
    OBVIOUS
  <2>2. <<a, b, c>> = Then(a, Then(b, Then(c, <<>>)))
    BY ThreeChain
  <2> QED
    BY <2>1, <2>2 DEF bindMethod, bindAllocate, bindPop, pushed
<1> QED
  BY <1>1, <1>2, <1>3, <1>4

LEMMA BindNext ==
  ASSUME Consistent, Next, InBind
  PROVE  Consistent' /\ (InBind' \/ Idle("running")')
<1>1. LocalsOK
  BY DEF Consistent
<1>2. CASE /\ todo = bindAllocate /\ Level("running", 1)
           /\ Kept(locals["receiver"]) /\ Kept(locals["method"])
           /\ Is(locals["method"], "closure")
  <2>1. Held
    BY <1>1, <1>2, BindCode, TwoHeld
  <2>2. FieldsOK(Allocate("bound", <<"receiver", "method">>))
    BY <1>2, ToSets DEF FieldsOK, Allocate, Step
  <2>3. todo = Then(Allocate("bound", <<"receiver", "method">>), bindPop) /\ IsCode(bindPop) /\ Named("bound")
    BY <1>2, BindCode DEF bindAllocate, Named
  <2>4. /\ Consistent' /\ Level("running", 1)'
        /\ \/ Stays /\ todo' = todo /\ locals' = locals
           \/ todo' = bindPop
    BY <1>2, <2>1, <2>2, <2>3, AllocateStep
  <2>5. CASE Stays /\ todo' = todo /\ locals' = locals
    <3>1. PICK a, b : a = locals["receiver"] /\ b = locals["method"]
      OBVIOUS
    <3>2. Kept(a)' /\ Kept(b)' /\ Is(b, "closure")'
      BY <1>2, <2>5, <3>1 DEF Stays
    <3>3. a = locals'["receiver"] /\ b = locals'["method"]
      BY <2>5, <3>1
    <3> QED
      BY <1>2, <2>4, <2>5, <3>2, <3>3 DEF InBind
  <2> QED
    BY <2>4, <2>5 DEF InBind
<1>3. CASE todo = bindPop /\ Level("running", 1)
  <2>1. Consistent' /\ Level("running", 0)' /\ todo' = pushed("bound")
    BY <1>3, BindCode, PopStep DEF bindPop
  <2> QED
    BY <2>1 DEF InBind
<1>4. CASE todo = pushed("bound") /\ Level("running", 0)
  <2>1. Named("bound")
    BY DEF Named
  <2> QED
    BY <1>4, <2>1, PushedNext DEF Idle
<1> QED
  BY <1>2, <1>3, <1>4 DEF InBind

---------------------------------------------------------------------------
(* OP_DEFINE_GLOBAL and OP_SET_GLOBAL.                                     *)

setDefine     == Then(SetGlobal("name", "value"), popped)
setAgain      == Then(SetGlobal("name", "value"), <<>>)
undefined     == Then(error_(<<"name", "value">>), <<>>)
growDefine    == Then(Array, setDefine)
growAgain     == Then(Array, setAgain)
growUndefined == Then(Array, undefined)

InGlobal ==
  \/ /\ todo \in {growDefine, growAgain, growUndefined} /\ Level("running", 1)
     /\ Kept(locals["name"]) /\ Kept(locals["value"])
  \/ todo \in {setDefine, setAgain, undefined} /\ Level("running", 1)

LEMMA GlobalCode ==
  /\ \A K \in {setDefine, setAgain, undefined, growDefine, growAgain, growUndefined} :
       IsCode(K) /\ Wanted(K) = {"name", "value"}
  /\ <<Array, SetGlobal("name", "value"), Pop>> = growDefine
  /\ <<Array>> \o <<SetGlobal("name", "value")>> = growAgain
  /\ <<Array>> \o <<Step("error", <<"name", "value">>, "")>> = growUndefined
<1>1. PICK N, s, t, a, p : /\ N = <<>> /\ s = SetGlobal("name", "value") /\ t = error_(<<"name", "value">>)
                           /\ a = Array /\ p = Pop
  OBVIOUS
<1>2. IsCode(N) /\ Wanted(N) = {}
  BY <1>1, NoCode
<1>3. "name" # "" /\ "value" # ""
  OBVIOUS
<1>4. \A K : IsCode(K) => IsCode(Then(s, K)) /\ Wanted(Then(s, K)) = {"name", "value"} \cup Wanted(K)
  <2>1. ASSUME NEW K, IsCode(K)
        PROVE  /\ IsCode(Then(SetGlobal("name", "value"), K))
               /\ Wanted(Then(SetGlobal("name", "value"), K)) = {"name", "value"} \cup Wanted(K)
    BY <1>3, <2>1, SetGlobalCode
  <2> QED
    BY <1>1, <2>1
<1>5. IsCode(setDefine) /\ Wanted(setDefine) = {"name", "value"}
  <2>1. setDefine = Then(s, popped)
    BY <1>1 DEF setDefine
  <2>2. IsCode(Then(s, popped)) /\ Wanted(Then(s, popped)) = {"name", "value"} \cup {}
    BY <1>4, PoppedCode
  <2> QED
    BY <2>1, <2>2
<1>6. IsCode(setAgain) /\ Wanted(setAgain) = {"name", "value"}
  <2>1. setAgain = Then(s, N)
    BY <1>1 DEF setAgain
  <2>2. IsCode(Then(s, N)) /\ Wanted(Then(s, N)) = {"name", "value"} \cup {}
    BY <1>2, <1>4
  <2> QED
    BY <2>1, <2>2
<1>7. IsCode(undefined) /\ Wanted(undefined) = {"name", "value"}
  <2>1. undefined = Then(t, N)
    BY <1>1 DEF undefined
  <2>2. PICK v, w : v = "name" /\ w = "value"
    OBVIOUS
  <2>3. t.of = <<v, w>>
    BY <1>1, <2>2 DEF error_, Step
  <2>4. ToSet(t.of) = {v, w}
    BY <2>3, ToSets
  <2>5. "" \notin ToSet(t.of)
    BY <2>2, <2>4
  <2>6. IsCode(Then(t, N)) /\ Wanted(Then(t, N)) = ToSet(t.of) \cup (Wanted(N) \ {t.gets})
    BY <1>2, <2>5, ThenIs
  <2> QED
    BY <1>2, <2>1, <2>2, <2>4, <2>6
<1>8. /\ IsCode(growDefine) /\ Wanted(growDefine) = {"name", "value"}
      /\ IsCode(growAgain) /\ Wanted(growAgain) = {"name", "value"}
      /\ IsCode(growUndefined) /\ Wanted(growUndefined) = {"name", "value"}
  BY <1>5, <1>6, <1>7, ArrayCode DEF growDefine, growAgain, growUndefined
<1>9. <<Array, SetGlobal("name", "value"), Pop>> = growDefine
  <2>1. <<a, s, p>> = Then(a, Then(s, Then(p, <<>>)))
    BY ThreeChain
  <2> QED
    BY <1>1, <2>1 DEF growDefine, setDefine, popped
<1>10. <<Array>> \o <<SetGlobal("name", "value")>> = growAgain
  <2>1. PICK S : S = <<s>>
    OBVIOUS
  <2>2. S = Then(s, <<>>)
    BY <2>1, OneTuple
  <2>3. S = setAgain
    BY <1>1, <2>2 DEF setAgain
  <2>4. S \in Seq(Range(S))
    BY <1>6, <2>3 DEF IsCode
  <2>5. <<a>> \o S = Then(a, S)
    BY <2>4, OneSteps
  <2> QED
    BY <1>1, <2>1, <2>3, <2>5 DEF growAgain
<1>11. <<Array>> \o <<Step("error", <<"name", "value">>, "")>> = growUndefined
  <2>1. PICK S : S = <<t>>
    OBVIOUS
  <2>2. S = Then(t, <<>>)
    BY <2>1, OneTuple
  <2>3. S = undefined
    BY <1>1, <2>2 DEF undefined
  <2>4. S \in Seq(Range(S))
    BY <1>7, <2>3 DEF IsCode
  <2>5. <<a>> \o S = Then(a, S)
    BY <2>4, OneSteps
  <2> QED
    BY <1>1, <2>1, <2>3, <2>5 DEF growUndefined, error_
<1> QED
  BY <1>5, <1>6, <1>7, <1>8, <1>9, <1>10, <1>11

LEMMA GlobalNext ==
  ASSUME Consistent, Next, InGlobal
  PROVE  \/ Consistent' /\ (InGlobal' \/ Popping("running")' \/ Idle("running")')
         \/ Idle("alone")'
<1>1. LocalsOK
  BY DEF Consistent
<1>2. ASSUME NEW G, NEW K, todo = G, G = Then(Array, K), IsCode(K), Wanted(G) = {"name", "value"},
             Wanted(K) = {"name", "value"}, Level("running", 1), Kept(locals["name"]), Kept(locals["value"])
      PROVE  /\ Consistent' /\ Level("running", 1)' /\ (todo' = G \/ todo' = K)
             /\ Kept(locals["name"])' /\ Kept(locals["value"])'
  <2>1. Held
    BY <1>1, <1>2, TwoHeld
  <2>2. todo = Then(Array, K)
    BY <1>2
  <2>3. /\ Consistent' /\ Level("running", 1)' /\ (todo' = todo \/ todo' = K) /\ Stays
        /\ \A v \in Wanted(K) : locals'[v] = locals[v]
    BY <1>2, <2>1, <2>2, ArrayStep
  <2>4. PICK a, b : a = locals["name"] /\ b = locals["value"]
    OBVIOUS
  <2>5. Kept(a)' /\ Kept(b)'
    BY <1>2, <2>3, <2>4 DEF Stays
  <2>6. a = locals'["name"] /\ b = locals'["value"]
    BY <1>2, <2>3, <2>4
  <2> QED
    BY <1>2, <2>3, <2>5, <2>6
<1>3. CASE todo \in {growDefine, growAgain, growUndefined} /\ Level("running", 1)
           /\ Kept(locals["name"]) /\ Kept(locals["value"])
  <2>1. PICK G, K : /\ todo = G /\ G = Then(Array, K)
                    /\ G \in {growDefine, growAgain, growUndefined}
                    /\ K \in {setDefine, setAgain, undefined}
    BY <1>3 DEF growDefine, growAgain, growUndefined
  <2>2. IsCode(K) /\ Wanted(G) = {"name", "value"} /\ Wanted(K) = {"name", "value"}
    BY <2>1, GlobalCode
  <2>3. /\ Consistent' /\ Level("running", 1)' /\ (todo' = G \/ todo' = K)
        /\ Kept(locals["name"])' /\ Kept(locals["value"])'
    BY <1>2, <1>3, <2>1, <2>2
  <2> QED
    BY <2>1, <2>3 DEF InGlobal
<1>4. CASE todo = setDefine /\ Level("running", 1)
  <2>1. Consistent' /\ Level("running", 1)' /\ todo' = popped
    BY <1>4, PoppedCode, GlobalStep DEF setDefine
  <2> QED
    BY <2>1 DEF Popping
<1>5. CASE todo = setAgain /\ Level("running", 1)
  <2>1. PICK N : N = <<>>
    OBVIOUS
  <2>2. IsCode(N) /\ todo = Then(SetGlobal("name", "value"), N)
    BY <1>5, <2>1, NoCode DEF setAgain
  <2>3. Level("running", 0)
    BY <1>5, LowerLevel
  <2>4. Consistent' /\ Level("running", 0)' /\ todo' = N
    BY <2>2, <2>3, GlobalStep
  <2> QED
    BY <2>1, <2>4 DEF Idle
<1>6. CASE todo = undefined /\ Level("running", 1)
  BY <1>6, ErrorStep DEF undefined, Level
<1> QED
  BY <1>3, <1>4, <1>5, <1>6 DEF InGlobal

LEMMA GrowStep ==
  ASSUME Consistent, Next, NEW K, IsCode(K), todo = Then(Array, K),
         \A v \in Wanted(K) : Kept(locals[v]), NEW mode, NEW n, Level(mode, n)
  PROVE  /\ Consistent' /\ Level(mode, n)' /\ (todo' = todo \/ todo' = K)
         /\ \A v \in Wanted(K) : /\ locals'[v] = locals[v] /\ Kept(locals[v])'
                                 /\ \A type : Is(locals[v], type) => Is(locals[v], type)'
<1>1. Wanted(todo) = Wanted(K)
  BY ArrayCode
<1>2. Held
  BY <1>1 DEF Held, Consistent, LocalsOK
<1>3. /\ Consistent' /\ Level(mode, n)' /\ (todo' = todo \/ todo' = K) /\ Stays
      /\ \A v \in Wanted(K) : locals'[v] = locals[v]
  BY <1>2, ArrayStep
<1>4. ASSUME NEW v \in Wanted(K)
      PROVE  /\ locals'[v] = locals[v] /\ Kept(locals[v])'
             /\ \A type : Is(locals[v], type) => Is(locals[v], type)'
  <2>1. PICK a : a = locals[v]
    OBVIOUS
  <2>2. Kept(a)' /\ \A type : Is(a, type) => Is(a, type)'
    BY <1>3, <2>1 DEF Stays
  <2>3. a = locals'[v]
    BY <1>3, <2>1
  <2> QED
    BY <2>1, <2>2, <2>3
<1> QED
  BY <1>3, <1>4

---------------------------------------------------------------------------
(* OP_SET_PROPERTY.                                                        *)

fieldPop  == Then(Pop, pushed("value"))
fieldPops == Then(Pop, fieldPop)
fieldPeek == Then(Peek(0, "value"), fieldPops)
fieldSet  == Then(SetEntry("instance", "fields", "name", "value"), fieldPeek)
fieldGrow == Then(Array, fieldSet)

InField ==
  \/ /\ todo = fieldGrow /\ Level("running", 2) /\ locals["instance"] # 0 /\ locals["name"] # 0
     /\ \A v \in {"instance", "name", "value"} : Kept(locals[v])
  \/ todo = fieldSet /\ Level("running", 2) /\ locals["instance"] # 0 /\ locals["name"] # 0
  \/ todo = fieldPeek /\ Level("running", 2)
  \/ todo = fieldPops /\ Level("running", 2)
  \/ todo = fieldPop /\ Level("running", 1)
  \/ todo = pushed("value") /\ Level("running", 0)

LEMMA FieldCode ==
  /\ IsCode(pushed("value")) /\ Wanted(pushed("value")) = {"value"}
  /\ IsCode(fieldPop) /\ Wanted(fieldPop) = {"value"}
  /\ IsCode(fieldPops) /\ Wanted(fieldPops) = {"value"}
  /\ IsCode(fieldPeek) /\ Wanted(fieldPeek) = {}
  /\ IsCode(fieldSet) /\ Wanted(fieldSet) = {"instance", "name", "value"}
  /\ IsCode(fieldGrow) /\ Wanted(fieldGrow) = {"instance", "name", "value"}
  /\ <<Array, SetEntry("instance", "fields", "name", "value"),
       Peek(0, "value"), Pop, Pop, Push("value")>> = fieldGrow
<1>1. IsCode(pushed("value")) /\ Wanted(pushed("value")) = {"value"}
  BY PushedCode DEF Named
<1>2. IsCode(fieldPop) /\ Wanted(fieldPop) = {"value"}
  BY <1>1, PopCode DEF fieldPop
<1>3. IsCode(fieldPops) /\ Wanted(fieldPops) = {"value"}
  BY <1>2, PopCode DEF fieldPops
<1>4. IsCode(fieldPeek) /\ Wanted(fieldPeek) = {}
  BY <1>3, PeekCode DEF fieldPeek
<1>5. IsCode(fieldSet) /\ Wanted(fieldSet) = {"instance", "name", "value"}
  <2>1. PICK K : K = fieldPeek
    OBVIOUS
  <2>2. IsCode(K) /\ Wanted(K) = {}
    BY <1>4, <2>1
  <2>3. PICK u, v, w : u = "instance" /\ v = "name" /\ w = "value"
    OBVIOUS
  <2>4. Named(u) /\ Named(v) /\ Named(w)
    BY <2>3 DEF Named
  <2>5. /\ IsCode(Then(SetEntry(u, "fields", v, w), K))
        /\ Wanted(Then(SetEntry(u, "fields", v, w), K)) = {u, v, w} \cup Wanted(K)
    BY <2>2, <2>4, SetEntryCode
  <2> QED
    BY <2>1, <2>2, <2>3, <2>5 DEF fieldSet
<1>6. IsCode(fieldGrow) /\ Wanted(fieldGrow) = {"instance", "name", "value"}
  BY <1>5, ArrayCode DEF fieldGrow
<1>7. <<Array, SetEntry("instance", "fields", "name", "value"),
        Peek(0, "value"), Pop, Pop, Push("value")>> = fieldGrow
  <2>1. PICK a, b, c, d, e : /\ a = Array /\ b = SetEntry("instance", "fields", "name", "value")
                             /\ c = Peek(0, "value") /\ d = Pop /\ e = Push("value")
    OBVIOUS
  <2>2. <<a, b, c, d, d, e>> = Then(a, Then(b, Then(c, Then(d, Then(d, Then(e, <<>>))))))
    BY SixChain
  <2> QED
    BY <2>1, <2>2 DEF fieldGrow, fieldSet, fieldPeek, fieldPops, fieldPop, pushed
<1> QED
  BY <1>1, <1>2, <1>3, <1>4, <1>5, <1>6, <1>7

LEMMA FieldNext ==
  ASSUME Consistent, Next, InField
  PROVE  Consistent' /\ (InField' \/ Idle("running")')
<1>1. CASE /\ todo = fieldGrow /\ Level("running", 2) /\ locals["instance"] # 0 /\ locals["name"] # 0
           /\ \A v \in {"instance", "name", "value"} : Kept(locals[v])
  <2>1. todo = Then(Array, fieldSet) /\ IsCode(fieldSet) /\ Wanted(fieldSet) = {"instance", "name", "value"}
    BY <1>1, FieldCode DEF fieldGrow
  <2>2. /\ Consistent' /\ Level("running", 2)' /\ (todo' = todo \/ todo' = fieldSet)
        /\ \A v \in Wanted(fieldSet) : locals'[v] = locals[v] /\ Kept(locals[v])'
    BY <1>1, <2>1, GrowStep
  <2> QED
    BY <1>1, <2>1, <2>2 DEF InField
<1>2. CASE todo = fieldSet /\ Level("running", 2) /\ locals["instance"] # 0 /\ locals["name"] # 0
  <2>1. todo = Then(SetEntry("instance", "fields", "name", "value"), fieldPeek) /\ IsCode(fieldPeek)
    BY <1>2, FieldCode DEF fieldSet
  <2>2. "fields" \in Tables /\ "fields" # "methods"
    BY DEF Tables
  <2>3. Consistent' /\ Level("running", 2)' /\ todo' = fieldPeek
    BY <1>2, <2>1, <2>2, EntryStep
  <2> QED
    BY <2>3 DEF InField
<1>3. CASE todo = fieldPeek /\ Level("running", 2)
  <2>1. 0 + 1 <= Len(stack)
    BY <1>3, LevelTop
  <2>2. Consistent' /\ Level("running", 2)' /\ todo' = fieldPops
    BY <1>3, <2>1, FieldCode, PeekStep DEF fieldPeek
  <2> QED
    BY <2>2 DEF InField
<1>4. CASE todo = fieldPops /\ Level("running", 2)
  <2>1. Consistent' /\ Level("running", 1)' /\ todo' = fieldPop
    BY <1>4, FieldCode, PopStep DEF fieldPops
  <2> QED
    BY <2>1 DEF InField
<1>5. CASE todo = fieldPop /\ Level("running", 1)
  <2>1. Consistent' /\ Level("running", 0)' /\ todo' = pushed("value")
    BY <1>5, FieldCode, PopStep DEF fieldPop
  <2> QED
    BY <2>1 DEF InField
<1>6. CASE todo = pushed("value") /\ Level("running", 0)
  <2>1. Named("value")
    BY DEF Named
  <2> QED
    BY <1>6, <2>1, PushedNext DEF Idle
<1> QED
  BY <1>1, <1>2, <1>3, <1>4, <1>5, <1>6 DEF InField

---------------------------------------------------------------------------
(* OP_METHOD and OP_CLASS.                                                 *)

methodSet     == Then(SetEntry("class", "methods", "name", "method"), popped)
methodGrow    == Then(Array, methodSet)
allocateClass == Then(Allocate("class", <<"name">>), pushed("class"))

InMethod ==
  \/ /\ todo = methodGrow /\ Level("running", 1) /\ locals["class"] # 0 /\ locals["name"] # 0
     /\ Is(locals["method"], "closure")
     /\ \A v \in {"class", "name", "method"} : Kept(locals[v])
  \/ /\ todo = methodSet /\ Level("running", 1) /\ locals["class"] # 0 /\ locals["name"] # 0
     /\ Is(locals["method"], "closure")

InClass ==
  \/ todo = allocateClass /\ Level("running", 0) /\ Kept(locals["name"])
  \/ todo = pushed("class") /\ Level("running", 0)

LEMMA MethodCode ==
  /\ IsCode(methodSet) /\ Wanted(methodSet) = {"class", "name", "method"}
  /\ IsCode(methodGrow) /\ Wanted(methodGrow) = {"class", "name", "method"}
  /\ <<Array, SetEntry("class", "methods", "name", "method"), Pop>> = methodGrow
<1>1. IsCode(methodSet) /\ Wanted(methodSet) = {"class", "name", "method"}
  <2>1. PICK u, v, w : u = "class" /\ v = "name" /\ w = "method"
    OBVIOUS
  <2>2. Named(u) /\ Named(v) /\ Named(w)
    BY <2>1 DEF Named
  <2>3. /\ IsCode(Then(SetEntry(u, "methods", v, w), popped))
        /\ Wanted(Then(SetEntry(u, "methods", v, w), popped)) = {u, v, w} \cup Wanted(popped)
    BY <2>2, PoppedCode, SetEntryCode
  <2> QED
    BY <2>1, <2>3, PoppedCode DEF methodSet
<1>2. IsCode(methodGrow) /\ Wanted(methodGrow) = {"class", "name", "method"}
  BY <1>1, ArrayCode DEF methodGrow
<1>3. <<Array, SetEntry("class", "methods", "name", "method"), Pop>> = methodGrow
  <2>1. PICK a, b, c : a = Array /\ b = SetEntry("class", "methods", "name", "method") /\ c = Pop
    OBVIOUS
  <2>2. <<a, b, c>> = Then(a, Then(b, Then(c, <<>>)))
    BY ThreeChain
  <2> QED
    BY <2>1, <2>2 DEF methodGrow, methodSet, popped
<1> QED
  BY <1>1, <1>2, <1>3

LEMMA MethodNext ==
  ASSUME Consistent, Next, InMethod
  PROVE  Consistent' /\ (InMethod' \/ Popping("running")')
<1>1. CASE /\ todo = methodGrow /\ Level("running", 1) /\ locals["class"] # 0 /\ locals["name"] # 0
           /\ Is(locals["method"], "closure")
           /\ \A v \in {"class", "name", "method"} : Kept(locals[v])
  <2>1. todo = Then(Array, methodSet) /\ IsCode(methodSet) /\ Wanted(methodSet) = {"class", "name", "method"}
    BY <1>1, MethodCode DEF methodGrow
  <2>2. /\ Consistent' /\ Level("running", 1)' /\ (todo' = todo \/ todo' = methodSet)
        /\ \A v \in Wanted(methodSet) : /\ locals'[v] = locals[v] /\ Kept(locals[v])'
                                        /\ \A type : Is(locals[v], type) => Is(locals[v], type)'
    BY <1>1, <2>1, GrowStep
  <2> QED
    BY <1>1, <2>1, <2>2 DEF InMethod
<1>2. CASE /\ todo = methodSet /\ Level("running", 1) /\ locals["class"] # 0 /\ locals["name"] # 0
           /\ Is(locals["method"], "closure")
  <2>1. todo = Then(SetEntry("class", "methods", "name", "method"), popped) /\ IsCode(popped)
    BY <1>2, PoppedCode DEF methodSet
  <2>2. "methods" \in Tables
    BY DEF Tables
  <2>3. Consistent' /\ Level("running", 1)' /\ todo' = popped
    BY <1>2, <2>1, <2>2, EntryStep
  <2> QED
    BY <2>3 DEF Popping
<1> QED
  BY <1>1, <1>2 DEF InMethod

LEMMA ClassCode ==
  /\ IsCode(pushed("class")) /\ Wanted(pushed("class")) = {"class"}
  /\ IsCode(allocateClass) /\ Wanted(allocateClass) = {"name"}
  /\ <<Allocate("class", <<"name">>), Push("class")>> = allocateClass
<1>1. IsCode(pushed("class")) /\ Wanted(pushed("class")) = {"class"}
  BY PushedCode DEF Named
<1>2. IsCode(allocateClass) /\ Wanted(allocateClass) = {"name"}
  <2>1. PICK v : v = "name"
    OBVIOUS
  <2>2. v # ""
    BY <2>1
  <2>3. /\ IsCode(Then(Allocate("class", <<v>>), pushed("class")))
        /\ Wanted(Then(Allocate("class", <<v>>), pushed("class"))) = {v} \cup (Wanted(pushed("class")) \ {"class"})
    BY <1>1, <2>2, AllocateOfCode
  <2> QED
    BY <1>1, <2>1, <2>3 DEF allocateClass
<1>3. <<Allocate("class", <<"name">>), Push("class")>> = allocateClass
  <2>1. PICK a, b : a = Allocate("class", <<"name">>) /\ b = Push("class")
    OBVIOUS
  <2>2. <<a, b>> = Then(a, Then(b, <<>>))
    BY TwoChain
  <2> QED
    BY <2>1, <2>2 DEF allocateClass, pushed
<1> QED
  BY <1>1, <1>2, <1>3

LEMMA ClassNext ==
  ASSUME Consistent, Next, InClass
  PROVE  Consistent' /\ (InClass' \/ Idle("running")')
<1>1. LocalsOK
  BY DEF Consistent
<1>2. CASE todo = allocateClass /\ Level("running", 0) /\ Kept(locals["name"])
  <2>1. Held
    BY <1>1, <1>2, ClassCode, OneHeld
  <2>2. FieldsOK(Allocate("class", <<"name">>))
    BY ToSets DEF FieldsOK, Allocate, Step
  <2>3. todo = Then(Allocate("class", <<"name">>), pushed("class")) /\ IsCode(pushed("class")) /\ Named("class")
    BY <1>2, ClassCode DEF allocateClass, Named
  <2>4. /\ Consistent' /\ Level("running", 0)'
        /\ \/ Stays /\ todo' = todo /\ locals' = locals
           \/ todo' = pushed("class")
    BY <1>2, <2>1, <2>2, <2>3, AllocateStep
  <2>5. CASE Stays /\ todo' = todo /\ locals' = locals
    <3>1. PICK a : a = locals["name"]
      OBVIOUS
    <3>2. Kept(a)'
      BY <1>2, <2>5, <3>1 DEF Stays
    <3>3. a = locals'["name"]
      BY <2>5, <3>1
    <3> QED
      BY <1>2, <2>4, <2>5, <3>2, <3>3 DEF InClass
  <2> QED
    BY <2>4, <2>5 DEF InClass
<1>3. CASE todo = pushed("class") /\ Level("running", 0)
  <2>1. Named("class")
    BY DEF Named
  <2> QED
    BY <1>3, <2>1, PushedNext DEF Idle
<1> QED
  BY <1>2, <1>3 DEF InClass

---------------------------------------------------------------------------
(* A loop: what is left of its steps after i of n, and what follows it.    *)

Suffix(f, n, i)  == [k \in 1..(n - i) |-> f[i + k]]
Rest(f, n, i, K) == Suffix(f, n, i) \o K

LEMMA SuffixIs ==
  ASSUME NEW n \in Nat, NEW i \in 0..n, NEW f, DOMAIN f = 1..n
  PROVE  /\ Suffix(f, n, i) \in Seq(Range(f)) /\ Len(Suffix(f, n, i)) = n - i
         /\ \A k \in 1..(n - i) : Suffix(f, n, i)[k] = f[i + k]
<1>1. n - i \in Nat /\ \A k \in 1..(n - i) : i + k \in 1..n
  OBVIOUS
<1>2. \A k \in 1..n : f[k] \in Range(f)
  BY DEF Range
<1>3. Suffix(f, n, i) \in [1..(n - i) -> Range(f)]
  BY <1>1, <1>2 DEF Suffix
<1>4. Suffix(f, n, i) \in Seq(Range(f))
  BY <1>1, <1>3
<1>5. Len(Suffix(f, n, i)) = n - i
  BY <1>1, <1>3, <1>4
<1> QED
  BY <1>4, <1>5 DEF Suffix

LEMMA RestEnds ==
  ASSUME NEW n \in Nat, NEW f, DOMAIN f = 1..n, NEW K, K \in Seq(Range(K))
  PROVE  Rest(f, n, n, K) = K
<1>1. PICK S : S = Suffix(f, n, n)
  OBVIOUS
<1>2. n \in 0..n /\ n - n = 0
  OBVIOUS
<1>3. S \in Seq(Range(f)) /\ Len(S) = 0
  BY <1>1, <1>2, SuffixIs
<1>4. S = <<>>
  BY <1>3
<1> QED
  BY <1>1, <1>4, EmptyJoined DEF Rest

LEMMA RestBegins ==
  ASSUME NEW n \in Nat, NEW f, f \in Seq(Range(f)), Len(f) = n, NEW K, K \in Seq(Range(K))
  PROVE  Rest(f, n, 0, K) = f \o K
<1>1. PICK S : S = Suffix(f, n, 0)
  OBVIOUS
<1>2. 0 \in 0..n /\ n - 0 = n /\ DOMAIN f = 1..n
  OBVIOUS
<1>3. PICK z : z = 0
  OBVIOUS
<1>4. z \in 0..n /\ n - z = n
  BY <1>3
<1>5. /\ S \in Seq(Range(f)) /\ Len(S) = n - z
      /\ \A k \in 1..(n - z) : S[k] = f[z + k]
  <2>1. DOMAIN f = 1..n
    BY <1>2
  <2>2. S = Suffix(f, n, z)
    BY <1>1, <1>3
  <2> QED
    BY <1>4, <2>1, <2>2, SuffixIs
<1>6. Len(S) = n
  BY <1>4, <1>5
<1>7. \A k \in 1..n : S[k] = f[k]
  BY <1>3, <1>4, <1>5
<1>8. S = f
  BY <1>5, <1>6, <1>7, SeqEqual
<1> QED
  BY <1>1, <1>8 DEF Rest

LEMMA RestThen ==
  ASSUME NEW n \in Nat, NEW f, DOMAIN f = 1..n, NEW K, K \in Seq(Range(K)), NEW i \in Nat, i < n
  PROVE  Rest(f, n, i, K) = Then(f[i + 1], Rest(f, n, i + 1, K))
<1>1. PICK j : j = i + 1
  OBVIOUS
<1>2. PICK S, T, R : S = Suffix(f, n, i) /\ T = Suffix(f, n, j) /\ R = Range(f)
  OBVIOUS
<1>3. i \in 0..n /\ j \in 0..n /\ j \in 1..n /\ n - i = (n - j) + 1 /\ n - j \in Nat
  BY <1>1
<1>4. /\ S \in Seq(R) /\ Len(S) = n - i /\ \A k \in 1..(n - i) : S[k] = f[i + k]
      /\ T \in Seq(R) /\ Len(T) = n - j /\ \A k \in 1..(n - j) : T[k] = f[j + k]
  BY <1>2, <1>3, SuffixIs
<1>5. PICK a, A : a = f[j] /\ A = <<a>>
  OBVIOUS
<1>6. a \in R
  BY <1>2, <1>3, <1>5 DEF Range
<1>7. A \in Seq(R) /\ Len(A) = 1 /\ A[1] = a
  BY <1>5, <1>6
<1>8. S = A \o T
  <2>1. PICK U : U = A \o T
    OBVIOUS
  <2>2. /\ U \in Seq(R) /\ Len(U) = 1 + (n - j)
        /\ \A k \in 1..(1 + (n - j)) : U[k] = IF k <= 1 THEN A[k] ELSE T[k - 1]
    <3>1. A \in Seq(R) /\ T \in Seq(R)
      BY <1>4, <1>7
    <3>2. /\ A \o T \in Seq(R) /\ Len(A \o T) = Len(A) + Len(T)
          /\ \A k \in 1..(Len(A) + Len(T)) : (A \o T)[k] = IF k <= Len(A) THEN A[k] ELSE T[k - Len(A)]
      BY <3>1, ConcatProperties
    <3>3. Len(A) = 1 /\ Len(T) = n - j
      BY <1>4, <1>7
    <3> QED
      BY <2>1, <3>2, <3>3
  <2>3. \A k \in 1..Len(S) : S[k] = U[k]
    <3>1. ASSUME NEW k \in 1..(n - i) PROVE S[k] = U[k]
      <4>1. CASE k = 1
        BY <1>1, <1>3, <1>4, <1>5, <1>7, <2>2, <4>1
      <4>2. CASE k # 1
        <5>1. k - 1 \in 1..(n - j) /\ j + (k - 1) = i + k /\ k \in 1..(1 + (n - j)) /\ ~(k <= 1)
          BY <1>1, <1>3, <4>2
        <5> QED
          BY <1>4, <2>2, <5>1
      <4> QED
        BY <4>1, <4>2
    <3> QED
      BY <1>4, <3>1
  <2>4. Len(S) = Len(U)
    BY <1>3, <1>4, <2>2
  <2> QED
    BY <1>4, <2>1, <2>2, <2>3, <2>4, SeqEqual
<1>9. (A \o T) \o K = A \o (T \o K)
  <2>1. PICK Q : Q = R \cup Range(K)
    OBVIOUS
  <2>2. \A X, Y : X \subseteq Y => Seq(X) \subseteq Seq(Y)
    OBVIOUS
  <2>3. A \in Seq(Q) /\ T \in Seq(Q) /\ K \in Seq(Q)
    BY <1>4, <1>7, <2>1, <2>2
  <2>4. \A x, y, z \in Seq(Q) : (x \o y) \o z = x \o (y \o z)
    BY ConcatAssociative
  <2> QED
    BY <2>3, <2>4
<1> QED
  BY <1>1, <1>2, <1>5, <1>8, <1>9 DEF Rest, Then

LEMMA RestCode ==
  ASSUME NEW n \in Nat, NEW f, DOMAIN f = 1..n, NEW K, IsCode(K), NEW i \in 0..n,
         NEW W, \A v \in W : Named(v), Wanted(K) \subseteq W, \A k \in 1..n : ToSet(f[k].of) \subseteq W
  PROVE  IsCode(Rest(f, n, i, K)) /\ Wanted(Rest(f, n, i, K)) \subseteq W
<1>1. PICK S, T, m, l : S = Suffix(f, n, i) /\ T = S \o K /\ m = n - i /\ l = Len(K)
  OBVIOUS
<1>2. K \in Seq(Range(K))
  BY DEF IsCode
<1>3. S \in Seq(Range(f)) /\ Len(S) = m /\ m \in Nat /\ \A k \in 1..m : S[k] = f[i + k]
  <2>1. /\ Suffix(f, n, i) \in Seq(Range(f)) /\ Len(Suffix(f, n, i)) = n - i
        /\ \A k \in 1..(n - i) : Suffix(f, n, i)[k] = f[i + k]
    BY SuffixIs
  <2>2. n - i \in Nat
    OBVIOUS
  <2> QED
    BY <1>1, <2>1, <2>2
<1>4. l \in Nat /\ DOMAIN K = 1..l
  BY <1>1, <1>2
<1>5. /\ T \in Seq(Range(f) \cup Range(K)) /\ Len(T) = m + l
      /\ \A k \in 1..m : T[k] = S[k]
      /\ \A k \in 1..l : T[m + k] = K[k]
  <2>1. PICK Q : Q = Range(f) \cup Range(K)
    OBVIOUS
  <2>2. \A X, Y : X \subseteq Y => Seq(X) \subseteq Seq(Y)
    OBVIOUS
  <2>3. S \in Seq(Q) /\ K \in Seq(Q)
    BY <1>2, <1>3, <2>1, <2>2
  <2>4. /\ T \in Seq(Q) /\ Len(T) = m + l
        /\ \A k \in 1..(m + l) : T[k] = IF k <= m THEN S[k] ELSE K[k - m]
    <3>1. /\ S \o K \in Seq(Q) /\ Len(S \o K) = Len(S) + Len(K)
          /\ \A k \in 1..(Len(S) + Len(K)) : (S \o K)[k] = IF k <= Len(S) THEN S[k] ELSE K[k - Len(S)]
      BY <2>3, ConcatProperties
    <3> QED
      BY <1>1, <1>3, <3>1
  <2>5. \A k \in 1..m : T[k] = S[k]
    BY <1>3, <1>4, <2>4
  <2>6. ASSUME NEW k \in 1..l PROVE T[m + k] = K[k]
    <3>1. m + k \in 1..(m + l) /\ ~(m + k <= m) /\ (m + k) - m = k
      BY <1>3, <1>4
    <3> QED
      BY <2>4, <3>1
  <2> QED
    BY <2>1, <2>4, <2>5, <2>6
<1>6. DOMAIN T = 1..(m + l) /\ T \in Seq(Range(T))
  BY <1>5, ToSetIs, IsASeq, LenProperties
<1>7. ASSUME NEW v \in Wanted(T) PROVE v \in W
  <2>1. PICK k \in DOMAIN T : /\ v \in ToSet(T[k].of)
                              /\ \A j \in 1..(k - 1) : T[j].gets # v
    BY <1>7 DEF Wanted
  <2>2. k \in 1..m \/ (k - m \in 1..l /\ m + (k - m) = k)
    BY <1>3, <1>4, <1>6, <2>1
  <2>3. CASE k \in 1..m
    <3>1. T[k] = f[i + k] /\ i + k \in 1..n
      BY <1>1, <1>3, <1>5, <2>3
    <3> QED
      BY <2>1, <3>1
  <2>4. CASE k - m \in 1..l /\ m + (k - m) = k
    <3>1. PICK p : p = k - m
      OBVIOUS
    <3>2. p \in 1..l /\ T[k] = K[p]
      BY <1>5, <2>4, <3>1
    <3>3. ASSUME NEW j \in 1..(p - 1) PROVE K[j].gets # v
      <4>1. j \in 1..l /\ m + j \in 1..(k - 1)
        BY <1>3, <1>4, <2>1, <1>6, <3>1, <3>2
      <4> QED
        BY <1>5, <2>1, <4>1
    <3>4. v \in ToSet(K[p].of) /\ p \in DOMAIN K
      BY <1>4, <2>1, <3>2
    <3>5. v \in UNION {ToSet(step.of) : step \in ToSet(K)}
      BY <3>4, ToSetIs
    <3>6. v \in Wanted(K)
      BY <3>3, <3>4, <3>5 DEF Wanted
    <3> QED
      BY <3>6
  <2> QED
    BY <2>2, <2>3, <2>4
<1> QED
  BY <1>1, <1>6, <1>7 DEF IsCode, Rest, Named

LEMMA SetToSeqIs ==
  ASSUME NEW S, IsFiniteSet(S)
  PROVE  Cardinality(S) \in Nat /\ \A j \in 1..Cardinality(S) : SetToSeq(S)[j] \in S
<1>1. PICK n : n = Cardinality(S)
  OBVIOUS
<1>2. n \in Nat /\ ExistsBijection(1..n, S)
  BY <1>1, FS_CardinalityType
<1>3. PICK f : f \in Bijection(1..n, S)
  BY <1>2 DEF ExistsBijection
<1>4. f \in [1..n -> S] /\ \A a, b \in 1..n : f[a] = f[b] => a = b
  BY <1>3 DEF Bijection, Injection, IsInjective
<1>5. IsInjective(f)
  BY <1>3, <1>4 DEF IsInjective
<1>6. SetToSeq(S) = CHOOSE g \in [1..n -> S] : IsInjective(g)
  BY <1>1 DEF SetToSeq
<1>7. SetToSeq(S) \in [1..n -> S]
  BY <1>4, <1>5, <1>6
<1> QED
  BY <1>1, <1>2, <1>7

---------------------------------------------------------------------------
(* OP_INHERIT.                                                             *)

copiesLeft(keys, i) == Rest(tableAddAll(keys), 2 * Cardinality(keys), i, popped)

CopiesAt(keys, i) ==
  /\ todo = copiesLeft(keys, i) /\ Level("running", 1) /\ 2 <= Len(stack) /\ Top(0) # 0
  /\ \A k \in keys : Has(Top(1), "methods", k)
  /\ \A v \in Wanted(todo) : \/ v = "superclass" /\ locals[v] = Top(1)
                             \/ v = "subclass" /\ locals[v] = Top(0)

InInherit ==
  \E keys : /\ IsFiniteSet(keys)
            /\ \E i \in 0..(2 * Cardinality(keys)) : CopiesAt(keys, i)

LEMMA CopiesCode ==
  ASSUME NEW keys, IsFiniteSet(keys), NEW n, n = 2 * Cardinality(keys)
  PROVE  /\ n \in Nat
         /\ \A i \in 0..n : /\ IsCode(copiesLeft(keys, i))
                            /\ Wanted(copiesLeft(keys, i)) \subseteq {"superclass", "subclass"}
         /\ \A i \in 0..(n - 1) :
              \/ copiesLeft(keys, i) = Then(Array, copiesLeft(keys, i + 1))
              \/ \E k \in keys : copiesLeft(keys, i) = Then(copy_(k), copiesLeft(keys, i + 1))
         /\ copiesLeft(keys, n) = popped
         /\ tableAddAll(keys) \o <<Pop>> = copiesLeft(keys, 0)
<1>1. PICK f, c, W : f = tableAddAll(keys) /\ c = Cardinality(keys) /\ W = {"superclass", "subclass"}
  OBVIOUS
<1>2. c \in Nat /\ \A j \in 1..c : SetToSeq(keys)[j] \in keys
  BY <1>1, SetToSeqIs
<1>3. n \in Nat
  BY <1>1, <1>2
<1>4. DOMAIN f = 1..n
  BY <1>1 DEF tableAddAll
<1>5. ASSUME NEW k \in 1..n PROVE f[k] = Array \/ \E x \in keys : f[k] = copy_(x)
  <2>1. k % 2 = 1 \/ (k \div 2 \in 1..c)
    BY <1>1, <1>2
  <2>2. CASE k % 2 = 1
    BY <1>1, <1>5, <2>2 DEF tableAddAll
  <2>3. CASE k % 2 # 1
    <3>1. PICK x : x = SetToSeq(keys)[k \div 2]
      OBVIOUS
    <3>2. x \in keys
      BY <1>2, <2>1, <2>3, <3>1
    <3>3. f[k] = copy_(x)
      BY <1>1, <1>5, <2>3, <3>1 DEF tableAddAll, copy_
    <3> QED
      BY <3>2, <3>3
  <2> QED
    BY <2>2, <2>3
<1>6. ToSet(Array.of) \subseteq W /\ \A x : ToSet(copy_(x).of) \subseteq W
  <2>1. Array.of = <<>>
    BY DEF Array, Step
  <2>2. \A x : copy_(x).of = <<"superclass", "subclass">>
    BY DEF copy_, Step
  <2>3. ToSet(<<>>) = {} /\ ToSet(<<"superclass", "subclass">>) = W
    BY <1>1, ToSets
  <2> QED
    BY <2>1, <2>2, <2>3
<1>7. \A k \in 1..n : ToSet(f[k].of) \subseteq W
  BY <1>5, <1>6
<1>8. \A v \in W : Named(v)
  BY <1>1 DEF Named
<1>9. IsCode(popped) /\ Wanted(popped) \subseteq W /\ popped \in Seq(Range(popped))
  BY PoppedCode DEF IsCode
<1>10. \A i \in 0..n : copiesLeft(keys, i) = Rest(f, n, i, popped)
  BY <1>1 DEF copiesLeft
<1>11. \A i \in 0..n : IsCode(Rest(f, n, i, popped)) /\ Wanted(Rest(f, n, i, popped)) \subseteq W
  BY <1>3, <1>4, <1>7, <1>8, <1>9, RestCode
<1>12. ASSUME NEW i \in 0..(n - 1)
       PROVE  \/ copiesLeft(keys, i) = Then(Array, copiesLeft(keys, i + 1))
              \/ \E k \in keys : copiesLeft(keys, i) = Then(copy_(k), copiesLeft(keys, i + 1))
  <2>1. PICK j : j = i + 1
    OBVIOUS
  <2>2. i \in Nat /\ i < n /\ i \in 0..n /\ j \in 0..n /\ j \in 1..n
    BY <1>3, <2>1
  <2>3. Rest(f, n, i, popped) = Then(f[j], Rest(f, n, j, popped))
    BY <1>3, <1>4, <1>9, <2>1, <2>2, RestThen
  <2>4. copiesLeft(keys, i) = Then(f[j], copiesLeft(keys, j))
    BY <1>10, <2>2, <2>3
  <2> QED
    BY <1>5, <2>1, <2>2, <2>4
<1>13. copiesLeft(keys, n) = popped
  <2>1. Rest(f, n, n, popped) = popped
    BY <1>3, <1>4, <1>9, RestEnds
  <2> QED
    BY <1>3, <1>10, <2>1
<1>14. tableAddAll(keys) \o <<Pop>> = copiesLeft(keys, 0)
  <2>1. f \in Seq(Range(f)) /\ Len(f) = n
    <3>1. f \in [1..n -> Range(f)]
      BY <1>1, <1>4 DEF tableAddAll, Range
    <3>2. f \in Seq(Range(f))
      BY <1>3, <3>1
    <3> QED
      BY <1>3, <1>4, <3>2
  <2>2. Rest(f, n, 0, popped) = f \o popped
    BY <1>3, <1>9, <2>1, RestBegins
  <2>3. <<Pop>> = popped
    BY OneTuple DEF popped
  <2>4. copiesLeft(keys, 0) = Rest(f, n, 0, popped)
    BY <1>3, <1>10
  <2> QED
    BY <1>1, <2>2, <2>3, <2>4
<1> QED
  BY <1>1, <1>3, <1>10, <1>11, <1>12, <1>13, <1>14

LEMMA CopiesNext ==
  ASSUME Consistent, Next, NEW keys, IsFiniteSet(keys), NEW K, IsCode(K),
         NEW i, NEW j, todo = copiesLeft(keys, i), K = copiesLeft(keys, j), CopiesAt(keys, i),
         \/ todo = Then(Array, K)
         \/ \E k \in keys : todo = Then(copy_(k), K)
  PROVE  Consistent' /\ (CopiesAt(keys, i)' \/ CopiesAt(keys, j)')
<1>1. LocalsOK /\ RootsOK /\ Len(stack) \in Nat
  BY DEF Consistent, RootsOK
<1>2. PICK a, b : a = Top(1) /\ b = Top(0)
  OBVIOUS
<1>3. Kept(a) /\ Kept(b) /\ a \in Live
  <2>1. 1 + 1 <= Len(stack) /\ 0 + 1 <= Len(stack)
    BY <1>1 DEF CopiesAt
  <2> QED
    BY <1>2, <2>1, TopIs
<1>4. b # 0 /\ \A k \in keys : Has(a, "methods", k)
  BY <1>2 DEF CopiesAt
<1>5. \A v \in Wanted(todo) : \/ v = "superclass" /\ locals[v] = a
                              \/ v = "subclass" /\ locals[v] = b
  BY <1>2 DEF CopiesAt
<1>6. Level("running", 1) /\ 2 <= Len(stack)
  BY DEF CopiesAt
<1>7. ASSUME Consistent', stack' = stack, Level("running", 1)', NEW p, todo' = copiesLeft(keys, p),
             Wanted(todo') \subseteq Wanted(todo), \A v \in Wanted(todo') : locals'[v] = locals[v],
             \A k \in keys : Has(a, "methods", k)', Top(1)' = Top(1), Top(0)' = Top(0)
      PROVE  CopiesAt(keys, p)'
  <2>1. Top(0)' = b /\ Top(1)' = a /\ 2 <= Len(stack')
    BY <1>2, <1>6, <1>7
  <2>2. \A k \in keys : Has(Top(1), "methods", k)'
    <3>1. ASSUME NEW k \in keys PROVE Has(Top(1), "methods", k)'
      <4>1. Has(a, "methods", k)'
        BY <1>7
      <4> QED
        BY <2>1, <4>1 DEF Has
    <3> QED
      BY <3>1
  <2>3. \A v \in Wanted(todo') : \/ v = "superclass" /\ locals'[v] = Top(1)'
                                 \/ v = "subclass" /\ locals'[v] = Top(0)'
    BY <1>5, <1>7, <2>1
  <2> QED
    BY <1>4, <1>7, <2>1, <2>2, <2>3 DEF CopiesAt
<1>8. CASE todo = Then(Array, K)
  <2>1. Wanted(todo) = Wanted(K)
    BY <1>8, ArrayCode
  <2>2. Held
    BY <1>1, <1>3, <1>5 DEF Held, LocalsOK
  <2>3. /\ Consistent' /\ Level("running", 1)' /\ Stays
        /\ todo' = todo \/ todo' = K
        /\ \A v \in Wanted(K) : locals'[v] = locals[v]
        /\ stack' = stack /\ \A k : Top(k)' = Top(k)
    BY <1>6, <1>8, <2>2, ArrayStep
  <2>4. \A k \in keys : Has(a, "methods", k)'
    BY <1>3, <1>4, <2>3 DEF Stays
  <2> QED
    BY <1>7, <2>1, <2>3, <2>4
<1>9. ASSUME NEW k \in keys, todo = Then(copy_(k), K)
      PROVE  Consistent' /\ CopiesAt(keys, j)'
  <2>1. copy_(k).of = <<"superclass", "subclass">> /\ copy_(k).gets = ""
    BY DEF copy_, Step
  <2>2. /\ "superclass" \in Wanted(todo) /\ "subclass" \in Wanted(todo)
        /\ Wanted(K) \subseteq Wanted(todo)
    <3>1. Wanted(todo) = ToSet(copy_(k).of) \cup (Wanted(K) \ {copy_(k).gets})
      BY <1>9, ThenIs
    <3>2. "superclass" \in ToSet(copy_(k).of) /\ "subclass" \in ToSet(copy_(k).of)
      <4>1. ToSet(<<"superclass", "subclass">>) = {"superclass", "subclass"}
        BY ToSets
      <4> QED
        BY <2>1, <4>1
    <3>3. "" \notin Wanted(K)
      BY DEF IsCode
    <3> QED
      BY <2>1, <3>1, <3>2, <3>3
  <2>3. locals["superclass"] = a /\ locals["subclass"] = b
    BY <1>5, <2>2
  <2>4. locals["subclass"] # 0 /\ Has(locals["superclass"], "methods", k)
    BY <1>4, <2>3
  <2>5. /\ Consistent' /\ Level("running", 1)' /\ todo' = K
        /\ \A w \in Wanted(K) : locals'[w] = locals[w]
        /\ stack' = stack
        /\ \A x, m, l : Has(x, m, l) /\ x \in DOMAIN heap => Has(x, m, l)'
        /\ \A l : Top(l)' = Top(l)
    BY <1>6, <1>9, <2>4, CopyStep
  <2>6. a \in DOMAIN heap
    BY <1>3, <1>4 DEF Has, Live
  <2> QED
    BY <1>4, <1>7, <2>2, <2>5, <2>6
<1> QED
  BY <1>8, <1>9

LEMMA InheritLoopNext ==
  ASSUME Consistent, Next, InInherit
  PROVE  Consistent' /\ (InInherit' \/ Popping("running")' \/ Idle("running")')
<1>1. PICK keys : /\ IsFiniteSet(keys)
                  /\ \E i \in 0..(2 * Cardinality(keys)) : CopiesAt(keys, i)
  BY DEF InInherit
<1>2. PICK n : n = 2 * Cardinality(keys)
  OBVIOUS
<1>3. PICK i \in 0..n : CopiesAt(keys, i)
  BY <1>1, <1>2
<1>4. n \in Nat
  BY <1>1, <1>2, CopiesCode
<1>5. CASE i = n
  <2>1. todo = popped /\ Level("running", 1)
    BY <1>1, <1>2, <1>3, <1>5, CopiesCode DEF CopiesAt
  <2> QED
    BY <2>1, PoppingNext DEF Popping
<1>6. CASE i # n
  <2>1. PICK j : j = i + 1
    OBVIOUS
  <2>2. i \in 0..(n - 1) /\ j \in 0..n
    BY <1>4, <1>6, <2>1
  <2>3. IsCode(copiesLeft(keys, j))
    BY <1>1, <1>2, <2>2, CopiesCode
  <2>4. \/ copiesLeft(keys, i) = Then(Array, copiesLeft(keys, j))
        \/ \E k \in keys : copiesLeft(keys, i) = Then(copy_(k), copiesLeft(keys, j))
    BY <1>1, <1>2, <2>1, <2>2, CopiesCode
  <2>5. todo = copiesLeft(keys, i)
    BY <1>3 DEF CopiesAt
  <2>6. Consistent' /\ (CopiesAt(keys, i)' \/ CopiesAt(keys, j)')
    BY <1>1, <1>3, <2>3, <2>4, <2>5, CopiesNext
  <2> QED
    BY <1>1, <1>2, <1>3, <2>2, <2>6 DEF InInherit
<1> QED
  BY <1>5, <1>6

---------------------------------------------------------------------------
(* OP_CALL and OP_INVOKE, with n arguments.                                *)

callOf(v, n)     == Then(Call(v, n), <<>>)
initializes(n)   == Then(initialize_(n), <<>>)
pokeInstance(n)  == Then(Poke(n, "instance"), initializes(n))
makeInstance(n)  == Then(Allocate("instance", <<"class">>), pokeInstance(n))
callBound(n)     == Then(Poke(n, "receiver"), callOf("method", n))
callNative(n)    == Then(Native(n), <<>>)
notCallable      == Then(error_(<<>>), <<>>)
pokeCallee(n, K) == Then(Poke(n, "callee"), K)

CallSteps(n) == {callOf("callee", n), makeInstance(n), callBound(n), callNative(n), notCallable}

Ready(K, n) ==
  \/ K = callOf("callee", n) /\ Is(locals["callee"], "closure")
  \/ K = makeInstance(n) /\ locals["class"] # 0
  \/ K = callBound(n) /\ Is(locals["method"], "closure")
  \/ K = callNative(n)
  \/ K = notCallable

InCall(n) ==
  /\ Level("running", n + 1)
  /\ \/ \E K \in CallSteps(n) :
          /\ Ready(K, n)
          /\ \/ todo = K /\ (K = makeInstance(n) => locals["class"] = Top(n))
             \/ todo = pokeCallee(n, K) /\ (K = makeInstance(n) => locals["class"] = locals["callee"])
     \/ todo = callOf("method", n) /\ Is(locals["method"], "closure")
     \/ todo \in {pokeInstance(n), initializes(n)}

LEMMA CallSteppedCode ==
  ASSUME NEW n
  PROVE  /\ \A v \in {"callee", "method"} : IsCode(callOf(v, n)) /\ Wanted(callOf(v, n)) = {v}
         /\ IsCode(initializes(n)) /\ Wanted(initializes(n)) = {"class"}
         /\ IsCode(pokeInstance(n)) /\ Wanted(pokeInstance(n)) = {"instance", "class"}
         /\ IsCode(makeInstance(n)) /\ Wanted(makeInstance(n)) = {"class"}
         /\ IsCode(callBound(n)) /\ Wanted(callBound(n)) = {"receiver", "method"}
         /\ IsCode(callNative(n)) /\ Wanted(callNative(n)) = {}
         /\ IsCode(notCallable) /\ Wanted(notCallable) = {}
         /\ \A K \in CallSteps(n) : IsCode(K) /\ IsCode(pokeCallee(n, K))
                                    /\ Wanted(pokeCallee(n, K)) = {"callee"} \cup Wanted(K)
<1>1. PICK N : N = <<>>
  OBVIOUS
<1>2. IsCode(N) /\ Wanted(N) = {}
  BY <1>1, NoCode
<1>3. ASSUME NEW v \in {"callee", "method"} PROVE IsCode(callOf(v, n)) /\ Wanted(callOf(v, n)) = {v}
  <2>1. v # ""
    OBVIOUS
  <2>2. IsCode(Then(Call(v, n), N)) /\ Wanted(Then(Call(v, n), N)) = {v} \cup Wanted(N)
    BY <1>2, <2>1, CallCode
  <2> QED
    BY <1>1, <1>2, <2>2 DEF callOf
<1>4. IsCode(initializes(n)) /\ Wanted(initializes(n)) = {"class"}
  <2>1. PICK s, v : s = initialize_(n) /\ v = "class"
    OBVIOUS
  <2>2. s.of = <<v>>
    BY <2>1 DEF initialize_, Step
  <2>3. ToSet(s.of) = {v} /\ "" # v
    BY <2>1, <2>2, ToSets
  <2>4. IsCode(Then(s, N)) /\ Wanted(Then(s, N)) = ToSet(s.of) \cup (Wanted(N) \ {s.gets})
    BY <1>2, <2>3, ThenIs
  <2> QED
    BY <1>1, <1>2, <2>1, <2>3, <2>4 DEF initializes
<1>5. IsCode(pokeInstance(n)) /\ Wanted(pokeInstance(n)) = {"instance", "class"}
  <2>1. PICK K, v : K = initializes(n) /\ v = "instance"
    OBVIOUS
  <2>2. IsCode(K) /\ Wanted(K) = {"class"}
    BY <1>4, <2>1
  <2>3. v # ""
    BY <2>1
  <2>4. IsCode(Then(Poke(n, v), K)) /\ Wanted(Then(Poke(n, v), K)) = {v} \cup Wanted(K)
    BY <2>2, <2>3, PokeCode
  <2> QED
    BY <2>1, <2>2, <2>4 DEF pokeInstance
<1>6. IsCode(makeInstance(n)) /\ Wanted(makeInstance(n)) = {"class"}
  <2>1. PICK K, v : K = pokeInstance(n) /\ v = "class"
    OBVIOUS
  <2>2. IsCode(K) /\ Wanted(K) = {"instance", "class"}
    BY <1>5, <2>1
  <2>3. v # ""
    BY <2>1
  <2>4. /\ IsCode(Then(Allocate("instance", <<v>>), K))
        /\ Wanted(Then(Allocate("instance", <<v>>), K)) = {v} \cup (Wanted(K) \ {"instance"})
    BY <2>2, <2>3, AllocateOfCode
  <2> QED
    BY <2>1, <2>2, <2>4 DEF makeInstance
<1>7. IsCode(callBound(n)) /\ Wanted(callBound(n)) = {"receiver", "method"}
  <2>1. PICK K, v : K = callOf("method", n) /\ v = "receiver"
    OBVIOUS
  <2>2. IsCode(K) /\ Wanted(K) = {"method"}
    BY <1>3, <2>1
  <2>3. v # ""
    BY <2>1
  <2>4. IsCode(Then(Poke(n, v), K)) /\ Wanted(Then(Poke(n, v), K)) = {v} \cup Wanted(K)
    BY <2>2, <2>3, PokeCode
  <2> QED
    BY <2>1, <2>2, <2>4 DEF callBound
<1>8. ASSUME NEW s, s.of = <<>> PROVE IsCode(Then(s, <<>>)) /\ Wanted(Then(s, <<>>)) = {}
  <2>1. ToSet(s.of) = {}
    BY <1>8, ToSets
  <2>2. IsCode(Then(s, N)) /\ Wanted(Then(s, N)) = ToSet(s.of) \cup (Wanted(N) \ {s.gets})
    BY <1>2, <2>1, ThenIs
  <2> QED
    BY <1>1, <1>2, <2>1, <2>2
<1>9. IsCode(callNative(n)) /\ Wanted(callNative(n)) = {}
  <2>1. Native(n).of = <<>>
    BY DEF Native, Step
  <2> QED
    BY <1>8, <2>1 DEF callNative
<1>10. IsCode(notCallable) /\ Wanted(notCallable) = {}
  <2>1. error_(<<>>).of = <<>>
    BY DEF error_, Step
  <2> QED
    BY <1>8, <2>1 DEF notCallable
<1>11. ASSUME NEW K \in CallSteps(n)
       PROVE  /\ IsCode(K) /\ IsCode(pokeCallee(n, K))
              /\ Wanted(pokeCallee(n, K)) = {"callee"} \cup Wanted(K)
  <2>1. IsCode(K)
    BY <1>3, <1>6, <1>7, <1>9, <1>10 DEF CallSteps
  <2>2. PICK v : v = "callee"
    OBVIOUS
  <2>3. v # ""
    BY <2>2
  <2>4. IsCode(Then(Poke(n, v), K)) /\ Wanted(Then(Poke(n, v), K)) = {v} \cup Wanted(K)
    BY <2>1, <2>3, PokeCode
  <2> QED
    BY <2>1, <2>2, <2>4 DEF pokeCallee
<1> QED
  BY <1>3, <1>4, <1>5, <1>6, <1>7, <1>9, <1>10, <1>11

LEMMA CallNext ==
  ASSUME Consistent, Next, NEW n \in Nat, InCall(n)
  PROVE  (Consistent' /\ InCall(n)') \/ Idle("running")' \/ Idle("alone")'
<1>1. PICK m : m = n + 1
  OBVIOUS
<1>2. m \in Nat /\ n < m /\ Level("running", m)
  BY <1>1 DEF InCall
<1>3. Top(n) \in Live /\ Kept(Top(n)) /\ n + 1 <= Len(stack)
  BY <1>2, LevelTop
<1>4. Level("running", 0) /\ Enterable(n)
  BY <1>2, LowerLevel DEF Level, Enterable
<1>5. LocalsOK
  BY DEF Consistent
<1>6. ASSUME NEW v, todo = callOf(v, n), Is(locals[v], "closure") PROVE Idle("running")' \/ Idle("alone")'
  BY <1>3, <1>4, <1>6, CallStep DEF callOf, Is
<1>7. CASE todo = makeInstance(n) /\ locals["class"] # 0 /\ locals["class"] = Top(n)
  <2>1. Held
    BY <1>3, <1>5, <1>7, CallSteppedCode, OneHeld
  <2>2. FieldsOK(Allocate("instance", <<"class">>))
    BY <1>7, ToSets DEF FieldsOK, Allocate, Step
  <2>3. todo = Then(Allocate("instance", <<"class">>), pokeInstance(n)) /\ IsCode(pokeInstance(n)) /\ Named("instance")
    BY <1>7, CallSteppedCode DEF makeInstance, Named
  <2>4. /\ Consistent' /\ Level("running", m)' /\ Top(n)' = Top(n)
        /\ \/ todo' = todo /\ locals' = locals
           \/ todo' = pokeInstance(n)
    BY <1>2, <2>1, <2>2, <2>3, AllocateStep
  <2>5. CASE todo' = todo /\ locals' = locals
    <3>1. makeInstance(n) \in CallSteps(n)
      BY DEF CallSteps
    <3>2. Ready(makeInstance(n), n)' /\ todo' = makeInstance(n) /\ locals'["class"] = Top(n)'
      BY <1>7, <2>4, <2>5 DEF Ready
    <3> QED
      BY <1>1, <2>4, <3>1, <3>2 DEF InCall
  <2> QED
    BY <1>1, <2>4, <2>5 DEF InCall
<1>8. CASE todo = pokeInstance(n)
  <2>1. Consistent' /\ Level("running", m)' /\ todo' = initializes(n)
    BY <1>2, <1>3, <1>8, CallSteppedCode, PokeStep DEF pokeInstance
  <2> QED
    BY <1>1, <2>1 DEF InCall
<1>9. CASE todo = initializes(n)
  BY <1>3, <1>4, <1>9, InitializeStep DEF initializes
<1>10. CASE todo = callBound(n) /\ Is(locals["method"], "closure")
  <2>1. IsCode(callOf("method", n)) /\ Wanted(callOf("method", n)) = {"method"}
    BY CallSteppedCode
  <2>2. /\ Consistent' /\ Level("running", m)' /\ todo' = callOf("method", n)
        /\ locals'["method"] = locals["method"] /\ heap' = heap
    BY <1>2, <1>3, <1>10, <2>1, PokeStep DEF callBound
  <2>3. Is(locals["method"], "closure")'
    BY <1>10, <2>2 DEF Is
  <2> QED
    BY <1>1, <2>2, <2>3 DEF InCall
<1>11. CASE todo = callNative(n)
  <2>1. PICK N : N = <<>>
    OBVIOUS
  <2>2. IsCode(N) /\ todo = Then(Native(n), N) /\ Level("running", n + 1)
    BY <1>1, <1>2, <1>11, <2>1, NoCode DEF callNative
  <2>3. Consistent' /\ Level("running", 0)' /\ todo' = N
    BY <2>2, NativeStep
  <2> QED
    BY <2>1, <2>3 DEF Idle
<1>12. CASE todo = notCallable
  BY <1>4, <1>12, ErrorStep DEF notCallable, Enterable
<1>13. ASSUME NEW K \in CallSteps(n), Ready(K, n), todo = pokeCallee(n, K),
              K = makeInstance(n) => locals["class"] = locals["callee"]
       PROVE  Consistent' /\ InCall(n)'
  <2>1. IsCode(K)
    BY CallSteppedCode
  <2>2. /\ Consistent' /\ Level("running", m)' /\ todo' = K
        /\ \A w \in Wanted(K) : locals'[w] = locals[w]
        /\ heap' = heap /\ Top(n)' = locals["callee"]
    BY <1>2, <1>3, <1>13, <2>1, PokeStep DEF pokeCallee
  <2>3. Ready(K, n)'
    <3>1. CASE K = callOf("callee", n) /\ Is(locals["callee"], "closure")
      <4>1. locals'["callee"] = locals["callee"]
        BY <2>2, <3>1, CallSteppedCode
      <4>2. Is(locals["callee"], "closure")'
        BY <2>2, <3>1, <4>1 DEF Is
      <4> QED
        BY <3>1, <4>2 DEF Ready
    <3>2. CASE K = makeInstance(n) /\ locals["class"] # 0
      <4>1. locals'["class"] = locals["class"]
        BY <2>2, <3>2, CallSteppedCode
      <4> QED
        BY <3>2, <4>1 DEF Ready
    <3>3. CASE K = callBound(n) /\ Is(locals["method"], "closure")
      <4>1. locals'["method"] = locals["method"]
        BY <2>2, <3>3, CallSteppedCode
      <4>2. Is(locals["method"], "closure")'
        BY <2>2, <3>3, <4>1 DEF Is
      <4> QED
        BY <3>3, <4>2 DEF Ready
    <3> QED
      BY <1>13, <3>1, <3>2, <3>3 DEF Ready
  <2>4. K = makeInstance(n) => locals'["class"] = Top(n)'
    <3>1. ASSUME K = makeInstance(n) PROVE locals'["class"] = Top(n)'
      <4>1. locals'["class"] = locals["class"]
        BY <2>2, <3>1, CallSteppedCode
      <4> QED
        BY <1>13, <2>2, <3>1, <4>1
    <3> QED
      BY <3>1
  <2> QED
    BY <1>1, <2>2, <2>3, <2>4 DEF InCall
<1>14. ASSUME NEW K \in CallSteps(n), Ready(K, n), todo = K, K = makeInstance(n) => locals["class"] = Top(n)
       PROVE  (Consistent' /\ InCall(n)') \/ Idle("running")' \/ Idle("alone")'
  BY <1>6, <1>7, <1>10, <1>11, <1>12, <1>14 DEF Ready
<1> QED
  BY <1>6, <1>8, <1>9, <1>13, <1>14 DEF InCall

---------------------------------------------------------------------------
(* OP_CLOSURE.                                                             *)

openUpvalue(slot, K)     == Then(open_(slot), K)
allocateUpvalue(slot, K) == Then(Allocate("upvalue", <<>>), openUpvalue(slot, K))

capturesLeft(captures, i) == Rest(fill(captures), 2 * Len(captures), i, <<>>)

pushClosure(captures)     == Then(Push("closure"), capturesLeft(captures, 0))
allocateClosure(captures) == Then(Allocate("closure", <<"function">>), pushClosure(captures))
growClosure(captures)     == Then(Array, allocateClosure(captures))

CapturesOK(captures, l) ==
  /\ captures \in Seq(Range(captures))
  /\ \A j \in 1..Len(captures) :
       IF captures[j].isLocal THEN captures[j].index \in 1..l
       ELSE Has(Last(frames).closure, "upvalues", captures[j].index)

(* The closure is on the stack; an upvalue waits for its place in it.      *)
Filling(captures) ==
  /\ Level("running", 0) /\ CapturesOK(captures, Len(stack))
  /\ 1 <= Len(stack) /\ Top(0) # 0
  /\ "closure" \in Wanted(todo) => locals["closure"] = Top(0)

FillsAt(captures, i) ==
  /\ Filling(captures)
  /\ \/ /\ todo = capturesLeft(captures, i)
        /\ i % 2 = 1 => locals["upvalue"] # 0
     \/ /\ i % 2 = 1
        /\ \E slot \in 1..Len(stack) :
             \/ todo = allocateUpvalue(slot, capturesLeft(captures, i))
             \/ todo = openUpvalue(slot, capturesLeft(captures, i)) /\ locals["upvalue"] # 0

(* The slot that the closure is to have may be among what it captures.     *)
MakesAt(captures) ==
  /\ Level("running", 0) /\ CapturesOK(captures, Len(stack) + 1)
  /\ \/ /\ todo \in {growClosure(captures), allocateClosure(captures)}
        /\ locals["function"] # 0 /\ Kept(locals["function"])
     \/ todo = pushClosure(captures) /\ locals["closure"] # 0

InClosure ==
  \E captures : \/ MakesAt(captures)
                \/ \E i \in 0..(2 * Len(captures) - 1) : FillsAt(captures, i)

LEMMA OpensCode ==
  ASSUME NEW slot, NEW K, IsCode(K)
  PROVE  /\ IsCode(openUpvalue(slot, K)) /\ Wanted(openUpvalue(slot, K)) = {"upvalue"} \cup Wanted(K)
         /\ IsCode(allocateUpvalue(slot, K)) /\ Wanted(allocateUpvalue(slot, K)) = Wanted(K) \ {"upvalue"}
         /\ opens(slot) \o K = allocateUpvalue(slot, K)
<1>1. PICK s, v : s = open_(slot) /\ v = "upvalue"
  OBVIOUS
<1>2. s.of = <<v>> /\ s.gets = "" /\ v # ""
  BY <1>1 DEF open_, Step
<1>3. ToSet(s.of) = {v}
  BY <1>2, ToSets
<1>4. IsCode(Then(s, K)) /\ Wanted(Then(s, K)) = ToSet(s.of) \cup (Wanted(K) \ {s.gets})
  BY <1>2, <1>3, ThenIs
<1>5. "" \notin Wanted(K)
  BY DEF IsCode
<1>6. IsCode(openUpvalue(slot, K)) /\ Wanted(openUpvalue(slot, K)) = {"upvalue"} \cup Wanted(K)
  BY <1>1, <1>2, <1>3, <1>4, <1>5 DEF openUpvalue
<1>7. IsCode(allocateUpvalue(slot, K)) /\ Wanted(allocateUpvalue(slot, K)) = Wanted(K) \ {"upvalue"}
  <2>1. PICK L : L = openUpvalue(slot, K)
    OBVIOUS
  <2>2. IsCode(L) /\ Wanted(L) = {"upvalue"} \cup Wanted(K)
    BY <1>6, <2>1
  <2>3. /\ IsCode(Then(Allocate("upvalue", <<>>), L))
        /\ Wanted(Then(Allocate("upvalue", <<>>), L)) = Wanted(L) \ {"upvalue"}
    BY <2>2, AllocateCode
  <2> QED
    BY <2>1, <2>2, <2>3 DEF allocateUpvalue
<1>8. opens(slot) \o K = allocateUpvalue(slot, K)
  <2>1. PICK a : a = Allocate("upvalue", <<>>)
    OBVIOUS
  <2>2. K \in Seq(Range(K))
    BY DEF IsCode
  <2>3. <<a, s>> \o K = Then(a, Then(s, K))
    BY <2>2, TwoSteps
  <2> QED
    BY <1>1, <2>1, <2>3 DEF opens, allocateUpvalue, openUpvalue
<1> QED
  BY <1>6, <1>7, <1>8

LEMMA FillCode ==
  ASSUME NEW captures, captures \in Seq(Range(captures)), NEW n, n = 2 * Len(captures)
  PROVE  /\ n \in Nat
         /\ \A i \in 0..n : IsCode(capturesLeft(captures, i))
         /\ \A i \in 0..(n - 1) :
              /\ i % 2 = 1 =>
                   \E j : capturesLeft(captures, i) = Then(upvalue_(j), capturesLeft(captures, i + 1))
              /\ i % 2 # 1 =>
                   \E j \in 1..Len(captures) :
                     capturesLeft(captures, i) =
                       Then(IF captures[j].isLocal THEN captureUpvalue(captures[j].index)
                            ELSE inheritUpvalue(captures[j].index), capturesLeft(captures, i + 1))
         /\ \A i \in 0..n : Wanted(capturesLeft(captures, i)) \subseteq {"closure", "upvalue"}
         /\ capturesLeft(captures, n) = <<>>
         /\ fill(captures) \in Seq(Range(fill(captures))) /\ fill(captures) = capturesLeft(captures, 0)
<1>1. PICK f, c, W, N : /\ f = fill(captures) /\ c = Len(captures) /\ W = {"closure", "upvalue"}
                        /\ N = <<>>
  OBVIOUS
<1>2. c \in Nat
  BY <1>1
<1>3. n \in Nat
  BY <1>1, <1>2
<1>4. DOMAIN f = 1..n
  BY <1>1 DEF fill
<1>5. ASSUME NEW k \in 1..n
      PROVE  /\ k % 2 # 1 => \E j : f[k] = upvalue_(j)
             /\ k % 2 = 1 => \E j \in 1..c : f[k] = IF captures[j].isLocal THEN captureUpvalue(captures[j].index)
                                                     ELSE inheritUpvalue(captures[j].index)
  <2>1. PICK j : j = (k + 1) \div 2
    OBVIOUS
  <2>2. k % 2 = 0 \/ k % 2 = 1
    BY <1>3
  <2>3. k % 2 = 1 => j \in 1..c
    BY <1>1, <1>2, <2>1
  <2>4. CASE k % 2 = 0
    <3>1. f[k] = upvalue_(j)
      BY <1>1, <1>5, <2>1, <2>4 DEF fill, upvalue_
    <3> QED
      BY <2>4, <3>1
  <2>5. CASE k % 2 = 1
    <3>1. f[k] = IF captures[j].isLocal THEN captureUpvalue(captures[j].index)
                 ELSE inheritUpvalue(captures[j].index)
      <4>1. ~(k % 2 = 0)
        BY <2>5
      <4> QED
        BY <1>1, <1>5, <2>1, <4>1 DEF fill
    <3> QED
      BY <2>3, <2>5, <3>1
  <2> QED
    BY <2>2, <2>4, <2>5
<1>6. \A j : ToSet(upvalue_(j).of) = W /\ ToSet(captureUpvalue(j).of) = {} /\ ToSet(inheritUpvalue(j).of) = {}
  <2>1. \A j : /\ upvalue_(j).of = <<"closure", "upvalue">>
               /\ captureUpvalue(j).of = <<>> /\ inheritUpvalue(j).of = <<>>
    BY DEF upvalue_, captureUpvalue, inheritUpvalue, Step
  <2>2. ToSet(<<>>) = {} /\ ToSet(<<"closure", "upvalue">>) = W
    BY <1>1, ToSets
  <2> QED
    BY <2>1, <2>2
<1>7. \A k \in 1..n : ToSet(f[k].of) \subseteq W
  BY <1>5, <1>6
<1>8. \A v \in W : Named(v)
  BY <1>1 DEF Named
<1>9. IsCode(N) /\ Wanted(N) \subseteq W /\ N \in Seq(Range(N))
  BY <1>1, NoCode DEF IsCode
<1>10. \A i \in 0..n : capturesLeft(captures, i) = Rest(f, n, i, N)
  BY <1>1 DEF capturesLeft
<1>11. \A i \in 0..n : IsCode(Rest(f, n, i, N)) /\ Wanted(Rest(f, n, i, N)) \subseteq W
  BY <1>3, <1>4, <1>7, <1>8, <1>9, RestCode
<1>12. ASSUME NEW i \in 0..(n - 1)
       PROVE  /\ i % 2 = 1 =>
                   \E j : capturesLeft(captures, i) = Then(upvalue_(j), capturesLeft(captures, i + 1))
              /\ i % 2 # 1 =>
                   \E j \in 1..c :
                     capturesLeft(captures, i) =
                       Then(IF captures[j].isLocal THEN captureUpvalue(captures[j].index)
                            ELSE inheritUpvalue(captures[j].index), capturesLeft(captures, i + 1))
  <2>1. PICK k : k = i + 1
    OBVIOUS
  <2>2. i \in Nat /\ i < n /\ i \in 0..n /\ k \in 0..n /\ k \in 1..n
    BY <1>3, <2>1
  <2>3. i % 2 = 1 <=> k % 2 # 1
    BY <2>1, <2>2
  <2>4. Rest(f, n, i, N) = Then(f[k], Rest(f, n, k, N))
    BY <1>3, <1>4, <1>9, <2>1, <2>2, RestThen
  <2>5. capturesLeft(captures, i) = Then(f[k], capturesLeft(captures, k))
    BY <1>10, <2>2, <2>4
  <2>6. /\ i % 2 = 1 => \E j : f[k] = upvalue_(j)
        /\ i % 2 # 1 => \E j \in 1..c : f[k] = IF captures[j].isLocal THEN captureUpvalue(captures[j].index)
                                                ELSE inheritUpvalue(captures[j].index)
    BY <1>5, <2>2, <2>3
  <2> QED
    BY <2>1, <2>5, <2>6
<1>13. capturesLeft(captures, n) = <<>>
  <2>1. Rest(f, n, n, N) = N
    BY <1>3, <1>4, <1>9, RestEnds
  <2> QED
    BY <1>1, <1>3, <1>10, <2>1
<1>14. f \in Seq(Range(f)) /\ f = capturesLeft(captures, 0)
  <2>1. f \in [1..n -> Range(f)]
    BY <1>1, <1>4 DEF fill, Range
  <2>2. f \in Seq(Range(f)) /\ Len(f) = n
    BY <1>3, <1>4, <2>1
  <2>3. Rest(f, n, 0, N) = f \o N
    BY <1>3, <1>9, <2>2, RestBegins
  <2>4. f \o N = f
    BY <1>1, <2>2, JoinedEmpty
  <2>5. capturesLeft(captures, 0) = Rest(f, n, 0, N)
    BY <1>3, <1>10
  <2> QED
    BY <2>2, <2>3, <2>4, <2>5
<1> QED
  BY <1>1, <1>3, <1>10, <1>11, <1>12, <1>13, <1>14

(* An upvalue is wanted where one was found, and only there.               *)
LEMMA FillWants ==
  ASSUME NEW captures, captures \in Seq(Range(captures)), NEW i \in 0..(2 * Len(captures))
  PROVE  /\ i % 2 # 1 => Wanted(capturesLeft(captures, i)) \subseteq {"closure"}
         /\ i % 2 = 1 => "closure" \in Wanted(capturesLeft(captures, i)) /\ "upvalue" \in Wanted(capturesLeft(captures, i))
<1>1. PICK n, j, L, K : /\ n = 2 * Len(captures) /\ j = i + 1
                        /\ L = capturesLeft(captures, i) /\ K = capturesLeft(captures, j)
  OBVIOUS
<1>2. n \in Nat /\ n % 2 # 1 /\ i \in 0..n
  BY <1>1
<1>3. CASE i = n
  <2>1. L = <<>>
    BY <1>1, <1>3, FillCode
  <2> QED
    BY <1>1, <1>2, <1>3, <2>1, NoCode
<1>4. CASE i # n
  <2>1. i \in 0..(n - 1) /\ j \in 0..n
    BY <1>1, <1>2, <1>4
  <2>2. IsCode(K) /\ Wanted(K) \subseteq {"closure", "upvalue"}
    BY <1>1, <2>1, FillCode
  <2>3. CASE i % 2 = 1
    <3>1. PICK k : L = Then(upvalue_(k), K)
      BY <1>1, <2>1, <2>3, FillCode
    <3>2. upvalue_(k).of = <<"closure", "upvalue">>
      BY DEF upvalue_, Step
    <3>3. ToSet(<<"closure", "upvalue">>) = {"closure", "upvalue"}
      BY ToSets
    <3>4. ToSet(upvalue_(k).of) \subseteq Wanted(L)
      <4>1. Wanted(Then(upvalue_(k), K)) = ToSet(upvalue_(k).of) \cup (Wanted(K) \ {upvalue_(k).gets})
        BY <2>2, ThenIs
      <4> QED
        BY <3>1, <4>1
    <3> QED
      BY <1>1, <2>3, <3>2, <3>3, <3>4
  <2>4. CASE i % 2 # 1
    <3>1. PICK s : L = Then(s, K) /\ s.of = <<>> /\ s.gets = "upvalue"
      <4>1. PICK k : L = Then(IF captures[k].isLocal THEN captureUpvalue(captures[k].index)
                              ELSE inheritUpvalue(captures[k].index), K)
        BY <1>1, <2>1, <2>4, FillCode
      <4>2. \A x : /\ captureUpvalue(x).of = <<>> /\ captureUpvalue(x).gets = "upvalue"
                   /\ inheritUpvalue(x).of = <<>> /\ inheritUpvalue(x).gets = "upvalue"
        BY DEF captureUpvalue, inheritUpvalue, Step
      <4> QED
        BY <4>1, <4>2
    <3>2. Wanted(L) = ToSet(s.of) \cup (Wanted(K) \ {s.gets})
      BY <2>2, <3>1, ThenIs
    <3>3. ToSet(s.of) = {}
      BY <3>1, ToSets
    <3> QED
      BY <1>1, <2>2, <2>4, <3>1, <3>2, <3>3
  <2> QED
    BY <2>3, <2>4
<1> QED
  BY <1>3, <1>4

LEMMA MakeCode ==
  ASSUME NEW captures, captures \in Seq(Range(captures))
  PROVE  /\ IsCode(pushClosure(captures)) /\ Wanted(pushClosure(captures)) = {"closure"}
         /\ IsCode(allocateClosure(captures)) /\ Wanted(allocateClosure(captures)) = {"function"}
         /\ IsCode(growClosure(captures)) /\ Wanted(growClosure(captures)) = {"function"}
         /\ newClosure \o <<Push("closure")>> \o fill(captures) = growClosure(captures)
<1>1. PICK F : F = capturesLeft(captures, 0)
  OBVIOUS
<1>2. IsCode(F) /\ Wanted(F) \subseteq {"closure"} /\ F = fill(captures)
  <2>1. PICK n, z : n = 2 * Len(captures) /\ z = 0
    OBVIOUS
  <2>2. n \in Nat /\ z \in 0..n /\ z % 2 # 1
    BY <2>1
  <2> QED
    BY <1>1, <2>1, <2>2, FillCode, FillWants
<1>3. IsCode(pushClosure(captures)) /\ Wanted(pushClosure(captures)) = {"closure"}
  <2>1. "closure" # ""
    OBVIOUS
  <2>2. IsCode(Then(Push("closure"), F)) /\ Wanted(Then(Push("closure"), F)) = {"closure"} \cup Wanted(F)
    BY <1>2, <2>1, PushCode
  <2> QED
    BY <1>1, <1>2, <2>2 DEF pushClosure
<1>4. IsCode(allocateClosure(captures)) /\ Wanted(allocateClosure(captures)) = {"function"}
  <2>1. PICK K, v : K = pushClosure(captures) /\ v = "function"
    OBVIOUS
  <2>2. IsCode(K) /\ Wanted(K) = {"closure"}
    BY <1>3, <2>1
  <2>3. v # ""
    BY <2>1
  <2>4. /\ IsCode(Then(Allocate("closure", <<v>>), K))
        /\ Wanted(Then(Allocate("closure", <<v>>), K)) = {v} \cup (Wanted(K) \ {"closure"})
    BY <2>2, <2>3, AllocateOfCode
  <2> QED
    BY <2>1, <2>2, <2>4 DEF allocateClosure
<1>5. IsCode(growClosure(captures)) /\ Wanted(growClosure(captures)) = {"function"}
  BY <1>4, ArrayCode DEF growClosure
<1>6. newClosure \o <<Push("closure")>> \o fill(captures) = growClosure(captures)
  <2>1. PICK a, b, c : a = Array /\ b = Allocate("closure", <<"function">>) /\ c = Push("closure")
    OBVIOUS
  <2>2. PICK A, B : A = <<a, b>> /\ B = <<c>>
    OBVIOUS
  <2>3. A \in Seq(Range(A)) /\ B \in Seq(Range(B)) /\ F \in Seq(Range(F))
    BY <1>2, <2>2, OneCode, TwoCode DEF IsCode
  <2>4. (A \o B) \o F = A \o (B \o F)
    <3>1. PICK S : S = Range(A) \cup Range(B) \cup Range(F)
      OBVIOUS
    <3>2. A \in Seq(S) /\ B \in Seq(S) /\ F \in Seq(S)
      <4>1. \A X, Y : X \subseteq Y => Seq(X) \subseteq Seq(Y)
        OBVIOUS
      <4> QED
        BY <2>3, <3>1, <4>1
    <3>3. \A x, y, z \in Seq(S) : (x \o y) \o z = x \o (y \o z)
      BY ConcatAssociative
    <3> QED
      BY <3>2, <3>3
  <2>5. B \o F = pushClosure(captures)
    <3>1. <<c>> \o F = Then(c, F)
      BY <2>3, OneSteps
    <3> QED
      BY <1>1, <2>1, <2>2, <3>1 DEF pushClosure
  <2>6. A \o (B \o F) = growClosure(captures)
    <3>1. PICK D : D = pushClosure(captures)
      OBVIOUS
    <3>2. D \in Seq(Range(D))
      BY <1>3, <3>1 DEF IsCode
    <3>3. <<a, b>> \o D = Then(a, Then(b, D))
      BY <3>2, TwoSteps
    <3> QED
      BY <2>1, <2>2, <2>5, <3>1, <3>3 DEF growClosure, allocateClosure
  <2> QED
    BY <1>2, <2>1, <2>2, <2>4, <2>6 DEF newClosure
<1> QED
  BY <1>3, <1>4, <1>5, <1>6

LEMMA CapturesStay ==
  ASSUME NEW captures, NEW l, CapturesOK(captures, l), frames' = frames,
         NEW u, u = Last(frames).closure,
         \A k : Has(u, "upvalues", k) => Has(u, "upvalues", k)'
  PROVE  CapturesOK(captures, l)'
<1>1. ASSUME NEW j \in 1..Len(captures), ~captures[j].isLocal
      PROVE  Has(Last(frames).closure, "upvalues", captures[j].index)'
  <2>1. Has(u, "upvalues", captures[j].index)'
    BY <1>1 DEF CapturesOK
  <2> QED
    BY <2>1 DEF Has
<1> QED
  BY <1>1 DEF CapturesOK

(* The closure of the frame, which has the upvalues to inherit.            *)
LEMMA FrameKept ==
  ASSUME Consistent, frames # <<>>
  PROVE  /\ Last(frames).closure \in DOMAIN heap /\ Kept(Last(frames).closure)
         /\ Last(frames).closure # 0 /\ Is(Last(frames).closure, "closure")
<1>1. HeapOK /\ RootsOK
  BY DEF Consistent
<1>2. Last(frames) \in ToSet(frames) /\ Is(Last(frames).closure, "closure") /\ Last(frames).closure \in DOMAIN heap
  BY <1>1, LastFrame
<1> QED
  BY <1>1, <1>2, RootReaches DEF Kept, Is

LEMMA FillsGo ==
  ASSUME Consistent, Consistent', NEW captures, CapturesOK(captures, Len(stack)), Level("running", 0)',
         frames' = frames, stack' = stack, Top(0)' = Top(0), 1 <= Len(stack), Top(0) # 0,
         NEW u, u = Last(frames).closure, \A k : Has(u, "upvalues", k) => Has(u, "upvalues", k)',
         NEW i, "closure" \in Wanted(todo') => locals'["closure"] = Top(0),
         \/ /\ todo' = capturesLeft(captures, i)
            /\ i % 2 = 1 => locals'["upvalue"] # 0
         \/ /\ i % 2 = 1
            /\ \E slot \in 1..Len(stack) :
                 \/ todo' = allocateUpvalue(slot, capturesLeft(captures, i))
                 \/ todo' = openUpvalue(slot, capturesLeft(captures, i)) /\ locals'["upvalue"] # 0
  PROVE  FillsAt(captures, i)'
<1>1. PICK l : l = Len(stack)
  OBVIOUS
<1>2. CapturesOK(captures, l)'
  BY <1>1, CapturesStay
<1>3. l = Len(stack')
  BY <1>1
<1> QED
  BY <1>2, <1>3 DEF FillsAt, Filling

LEMMA FillUpvalue ==
  ASSUME Consistent, Next, NEW captures, Filling(captures),
         NEW i \in 0..(2 * Len(captures) - 1), i % 2 = 1, NEW j, j = i + 1,
         todo = capturesLeft(captures, i), locals["upvalue"] # 0
  PROVE  Consistent' /\ FillsAt(captures, j)'
<1>1. PICK n, K, u : /\ n = 2 * Len(captures) /\ K = capturesLeft(captures, j)
                     /\ u = Last(frames).closure
  OBVIOUS
<1>2. captures \in Seq(Range(captures)) /\ CapturesOK(captures, Len(stack))
  BY DEF Filling, CapturesOK
<1>3. n \in Nat /\ i \in 0..(n - 1) /\ i \in 0..n /\ j \in 0..n /\ j % 2 # 1
  BY <1>1, <1>2
<1>4. IsCode(K) /\ Wanted(K) \subseteq {"closure"}
  BY <1>1, <1>2, <1>3, FillCode, FillWants
<1>5. /\ Level("running", 0) /\ 1 <= Len(stack) /\ Top(0) # 0 /\ frames # <<>>
  BY DEF Filling, Level
<1>6. u \in DOMAIN heap
  BY <1>1, <1>5, FrameKept
<1>7. PICK k : todo = Then(upvalue_(k), K)
  BY <1>1, <1>2, <1>3, FillCode
<1>8. locals["closure"] = Top(0)
  <2>1. "closure" \in Wanted(todo)
    BY <1>1, <1>2, <1>3, FillWants
  <2> QED
    BY <2>1 DEF Filling
<1>9. /\ Consistent' /\ Level("running", 0)' /\ todo' = K
      /\ \A w \in Wanted(K) : locals'[w] = locals[w]
      /\ stack' = stack /\ frames' = frames
      /\ \A x, m, l : Has(x, m, l) /\ x \in DOMAIN heap => Has(x, m, l)'
      /\ \A l : Top(l)' = Top(l)
  BY <1>4, <1>5, <1>7, <1>8, UpvalueStep
<1>10. "closure" \in Wanted(todo') => locals'["closure"] = Top(0)
  BY <1>8, <1>9
<1>11. Top(0)' = Top(0) /\ \A l : Has(u, "upvalues", l) => Has(u, "upvalues", l)'
  BY <1>6, <1>9
<1> QED
  BY <1>1, <1>2, <1>3, <1>5, <1>9, <1>10, <1>11, FillsGo

LEMMA FillNewUpvalue ==
  ASSUME Consistent, Next, NEW captures, Filling(captures), NEW K, IsCode(K),
         NEW i, i % 2 = 1, K = capturesLeft(captures, i), Wanted(K) = {"closure", "upvalue"},
         NEW slot \in 1..Len(stack),
         \/ todo = allocateUpvalue(slot, K)
         \/ todo = openUpvalue(slot, K) /\ locals["upvalue"] # 0
  PROVE  Consistent' /\ FillsAt(captures, i)'
<1>1. PICK u, t : u = Last(frames).closure /\ t = Top(0)
  OBVIOUS
<1>2. CapturesOK(captures, Len(stack)) /\ Level("running", 0) /\ 1 <= Len(stack) /\ t # 0 /\ frames # <<>>
  BY <1>1 DEF Filling, Level
<1>3. u \in DOMAIN heap /\ Kept(u)
  BY <1>1, <1>2, FrameKept
<1>4. LocalsOK /\ Kept(t)
  <2>1. 0 + 1 <= Len(stack)
    BY <1>2
  <2> QED
    BY <1>1, <2>1, TopIs DEF Consistent
<1>5. "closure" \in Wanted(todo) => locals["closure"] = t
  BY <1>1 DEF Filling
<1>6. /\ IsCode(openUpvalue(slot, K)) /\ Wanted(openUpvalue(slot, K)) = {"upvalue"} \cup Wanted(K)
      /\ IsCode(allocateUpvalue(slot, K)) /\ Wanted(allocateUpvalue(slot, K)) = Wanted(K) \ {"upvalue"}
  BY OpensCode
<1>7. CASE todo = allocateUpvalue(slot, K)
  <2>1. Held
    BY <1>4, <1>5, <1>6, <1>7 DEF Held, LocalsOK
  <2>2. FieldsOK(Allocate("upvalue", <<>>))
    BY ToSets DEF FieldsOK, Allocate, Step
  <2>3. /\ todo = Then(Allocate("upvalue", <<>>), openUpvalue(slot, K))
        /\ IsCode(openUpvalue(slot, K)) /\ Named("upvalue")
    BY <1>6, <1>7 DEF allocateUpvalue, Named
  <2>4. /\ Consistent' /\ Level("running", 0)' /\ stack' = stack /\ frames' = frames /\ Top(0)' = Top(0)
        /\ \/ Stays /\ todo' = todo /\ locals' = locals
           \/ /\ todo' = openUpvalue(slot, K)
              /\ \A v \in Wanted(openUpvalue(slot, K)) : v # "upvalue" => locals'[v] = locals[v]
              /\ "upvalue" \in Wanted(openUpvalue(slot, K)) => locals'["upvalue"] # 0
              /\ \A x \in DOMAIN heap : x \in DOMAIN heap' /\ heap'[x] = heap[x]
    BY <1>2, <2>1, <2>2, <2>3, AllocateStep
  <2>5. CASE Stays /\ todo' = todo /\ locals' = locals
    <3>1. \A l : Has(u, "upvalues", l) => Has(u, "upvalues", l)'
      BY <1>3, <2>5 DEF Stays
    <3>2. "closure" \in Wanted(todo') => locals'["closure"] = Top(0)
      BY <1>1, <1>5, <2>5
    <3>3. todo' = allocateUpvalue(slot, capturesLeft(captures, i))
      BY <1>7, <2>5
    <3> QED
      BY <1>1, <1>2, <2>4, <3>1, <3>2, <3>3, FillsGo
  <2>6. CASE /\ todo' = openUpvalue(slot, K)
             /\ \A v \in Wanted(openUpvalue(slot, K)) : v # "upvalue" => locals'[v] = locals[v]
             /\ "upvalue" \in Wanted(openUpvalue(slot, K)) => locals'["upvalue"] # 0
             /\ \A x \in DOMAIN heap : x \in DOMAIN heap' /\ heap'[x] = heap[x]
    <3>1. \A l : Has(u, "upvalues", l) => Has(u, "upvalues", l)'
      BY <1>3, <2>6 DEF Has
    <3>2. "closure" \in Wanted(todo') => locals'["closure"] = Top(0)
      BY <1>1, <1>5, <1>6, <1>7, <2>6
    <3>3. todo' = openUpvalue(slot, capturesLeft(captures, i)) /\ locals'["upvalue"] # 0
      BY <1>6, <2>6
    <3> QED
      BY <1>1, <1>2, <2>4, <3>1, <3>2, <3>3, FillsGo
  <2> QED
    BY <2>4, <2>5, <2>6
<1>8. CASE todo = openUpvalue(slot, K) /\ locals["upvalue"] # 0
  <2>1. PICK x : x = locals["upvalue"]
    OBVIOUS
  <2>2. todo = Then(open_(slot), K)
    BY <1>8 DEF openUpvalue
  <2>3. /\ Consistent' /\ Level("running", 0)' /\ todo' = K
        /\ \A w \in Wanted(K) : locals'[w] = locals[w]
        /\ heap' = heap /\ stack' = stack /\ frames' = frames /\ Top(0)' = Top(0)
    BY <1>2, <1>8, <2>1, <2>2, OpenStep
  <2>4. \A l : Has(u, "upvalues", l) => Has(u, "upvalues", l)'
    BY <2>3 DEF Has
  <2>5. "closure" \in Wanted(todo') => locals'["closure"] = Top(0)
    BY <1>1, <1>5, <1>6, <1>8, <2>3
  <2>6. locals'["upvalue"] = x
    BY <2>1, <2>3
  <2>7. locals'["upvalue"] # 0
    BY <1>8, <2>1, <2>6
  <2> QED
    BY <1>1, <1>2, <2>3, <2>4, <2>5, <2>7, FillsGo
<1> QED
  BY <1>7, <1>8

LEMMA FillFinds ==
  ASSUME Consistent, Next, NEW captures, Filling(captures),
         NEW i \in 0..(2 * Len(captures) - 1), i % 2 # 1, NEW j, j = i + 1,
         todo = capturesLeft(captures, i)
  PROVE  Consistent' /\ FillsAt(captures, j)'
<1>1. PICK n, K, u : /\ n = 2 * Len(captures) /\ K = capturesLeft(captures, j)
                     /\ u = Last(frames).closure
  OBVIOUS
<1>2. captures \in Seq(Range(captures)) /\ CapturesOK(captures, Len(stack))
  BY DEF Filling, CapturesOK
<1>3. n \in Nat /\ i \in 0..(n - 1) /\ i \in 0..n /\ j \in 0..n /\ j % 2 = 1
  BY <1>1, <1>2
<1>4. IsCode(K) /\ Wanted(K) = {"closure", "upvalue"}
  BY <1>1, <1>2, <1>3, FillCode, FillWants
<1>5. /\ Level("running", 0) /\ 1 <= Len(stack) /\ Top(0) # 0 /\ frames # <<>>
  BY DEF Filling, Level
<1>6. u \in DOMAIN heap
  BY <1>1, <1>5, FrameKept
<1>7. PICK k \in 1..Len(captures) :
        todo = Then(IF captures[k].isLocal THEN captureUpvalue(captures[k].index)
                    ELSE inheritUpvalue(captures[k].index), K)
  BY <1>1, <1>2, <1>3, FillCode
<1>8. PICK x : x = captures[k].index
  OBVIOUS
<1>9. IF captures[k].isLocal THEN x \in 1..Len(stack) ELSE Has(u, "upvalues", x)
  BY <1>1, <1>2, <1>8 DEF CapturesOK
<1>10. ASSUME NEW s, todo = Then(s, K), s.of = <<>>, s.gets = "upvalue"
       PROVE  locals["closure"] = Top(0)
  <2>1. Wanted(Then(s, K)) = ToSet(s.of) \cup (Wanted(K) \ {s.gets})
    BY <1>4, ThenIs
  <2>2. "closure" \in Wanted(todo)
    BY <1>4, <1>10, <2>1
  <2> QED
    BY <2>2 DEF Filling
<1>11. CASE captures[k].isLocal
  <2>1. todo = Then(captureUpvalue(x), K) /\ x \in 1..Len(stack)
    BY <1>7, <1>8, <1>9, <1>11
  <2>2. captureUpvalue(x).of = <<>> /\ captureUpvalue(x).gets = "upvalue"
    BY DEF captureUpvalue, Step
  <2>3. locals["closure"] = Top(0)
    BY <1>10, <2>1, <2>2
  <2>4. Wanted(opens(x) \o K) = Wanted(K) \ {"upvalue"} /\ opens(x) \o K = allocateUpvalue(x, K)
    BY <1>4, OpensCode
  <2>5. /\ Consistent' /\ Level("running", 0)'
        /\ \/ todo' = K /\ ("upvalue" \in Wanted(K) => locals'["upvalue"] # 0)
           \/ todo' = opens(x) \o K
        /\ \A w \in Wanted(K) : w # "upvalue" => locals'[w] = locals[w]
        /\ heap' = heap /\ stack' = stack /\ frames' = frames /\ Top(0)' = Top(0)
    BY <1>4, <1>5, <2>1, <2>4, CaptureStep
  <2>6. \A l : Has(u, "upvalues", l) => Has(u, "upvalues", l)'
    BY <2>5 DEF Has
  <2>7. "closure" \in Wanted(todo') => locals'["closure"] = Top(0)
    BY <1>4, <2>3, <2>5
  <2>8. \/ todo' = K /\ locals'["upvalue"] # 0
        \/ todo' = allocateUpvalue(x, K)
    BY <1>4, <2>4, <2>5
  <2> QED
    BY <1>1, <1>2, <1>3, <1>5, <2>1, <2>5, <2>6, <2>7, <2>8, FillsGo
<1>12. CASE ~captures[k].isLocal
  <2>1. todo = Then(inheritUpvalue(x), K) /\ Has(u, "upvalues", x)
    BY <1>7, <1>8, <1>9, <1>12
  <2>2. inheritUpvalue(x).of = <<>> /\ inheritUpvalue(x).gets = "upvalue"
    BY DEF inheritUpvalue, Step
  <2>3. locals["closure"] = Top(0)
    BY <1>10, <2>1, <2>2
  <2>4. /\ Consistent' /\ Level("running", 0)' /\ todo' = K
        /\ "upvalue" \in Wanted(K) => locals'["upvalue"] # 0
        /\ \A w \in Wanted(K) : w # "upvalue" => locals'[w] = locals[w]
        /\ heap' = heap /\ stack' = stack /\ frames' = frames /\ Top(0)' = Top(0)
    BY <1>1, <1>4, <1>5, <2>1, InheritStep
  <2>5. \A l : Has(u, "upvalues", l) => Has(u, "upvalues", l)'
    BY <2>4 DEF Has
  <2>6. "closure" \in Wanted(todo') => locals'["closure"] = Top(0)
    BY <1>4, <2>3, <2>4
  <2>7. todo' = K /\ locals'["upvalue"] # 0
    BY <1>4, <2>4
  <2> QED
    BY <1>1, <1>2, <1>3, <1>5, <2>4, <2>5, <2>6, <2>7, FillsGo
<1> QED
  BY <1>11, <1>12

LEMMA FillNext ==
  ASSUME Consistent, Next, NEW captures, NEW i \in 0..(2 * Len(captures) - 1), FillsAt(captures, i)
  PROVE  Consistent' /\ (FillsAt(captures, i)' \/ FillsAt(captures, i + 1)')
<1>1. captures \in Seq(Range(captures)) /\ Filling(captures)
  BY DEF FillsAt, Filling, CapturesOK
<1>2. PICK j : j = i + 1
  OBVIOUS
<1>3. CASE todo = capturesLeft(captures, i) /\ i % 2 # 1
  BY <1>1, <1>2, <1>3, FillFinds
<1>4. CASE /\ todo = capturesLeft(captures, i)
           /\ i % 2 = 1 /\ locals["upvalue"] # 0
  BY <1>1, <1>2, <1>4, FillUpvalue
<1>5. CASE /\ i % 2 = 1
           /\ \E slot \in 1..Len(stack) :
                \/ todo = allocateUpvalue(slot, capturesLeft(captures, i))
                \/ todo = openUpvalue(slot, capturesLeft(captures, i)) /\ locals["upvalue"] # 0
  <2>1. PICK K, n : K = capturesLeft(captures, i) /\ n = 2 * Len(captures)
    OBVIOUS
  <2>2. n \in Nat /\ i \in 0..n
    BY <1>1, <2>1
  <2>3. IsCode(K) /\ Wanted(K) = {"closure", "upvalue"}
    BY <1>1, <1>5, <2>1, <2>2, FillCode, FillWants
  <2>4. PICK slot \in 1..Len(stack) :
          \/ todo = allocateUpvalue(slot, K)
          \/ todo = openUpvalue(slot, K) /\ locals["upvalue"] # 0
    BY <1>5, <2>1
  <2> QED
    BY <1>1, <1>5, <2>1, <2>3, <2>4, FillNewUpvalue
<1> QED
  BY <1>3, <1>4, <1>5 DEF FillsAt

LEMMA MakeNext ==
  ASSUME Consistent, Next, NEW captures, MakesAt(captures)
  PROVE  Consistent' /\ (MakesAt(captures)' \/ FillsAt(captures, 0)')
<1>2. PICK u, d : u = Last(frames).closure /\ d = Len(stack) + 1
  OBVIOUS
<1>1. /\ captures \in Seq(Range(captures)) /\ CapturesOK(captures, d) /\ Level("running", 0)
      /\ frames # <<>> /\ LocalsOK /\ RootsOK
  BY <1>2 DEF MakesAt, CapturesOK, Level, Consistent
<1>3. u \in DOMAIN heap /\ Kept(u)
  BY <1>1, <1>2, FrameKept
<1>4. /\ IsCode(pushClosure(captures)) /\ Wanted(pushClosure(captures)) = {"closure"}
      /\ IsCode(allocateClosure(captures)) /\ Wanted(allocateClosure(captures)) = {"function"}
  BY <1>1, MakeCode
<1>5. Len(stack) \in Nat
  BY <1>1 DEF RootsOK
<1>6. CASE todo = growClosure(captures) /\ locals["function"] # 0 /\ Kept(locals["function"])
  <2>1. PICK K : K = allocateClosure(captures)
    OBVIOUS
  <2>2. todo = Then(Array, K) /\ IsCode(K) /\ Wanted(K) = {"function"}
    BY <1>4, <1>6, <2>1 DEF growClosure
  <2>3. Wanted(todo) = {"function"}
    BY <1>1, <1>6, MakeCode
  <2>4. Held
    BY <1>1, <1>6, <2>3, OneHeld
  <2>5. /\ Consistent' /\ Level("running", 0)' /\ Stays
        /\ todo' = todo \/ todo' = K
        /\ \A v \in Wanted(K) : locals'[v] = locals[v]
        /\ stack' = stack /\ frames' = frames
    BY <1>1, <2>2, <2>4, ArrayStep
  <2>6. PICK f : f = locals["function"]
    OBVIOUS
  <2>7. Kept(f)' /\ locals'["function"] = f
    BY <1>6, <2>2, <2>5, <2>6 DEF Stays
  <2>8. Kept(locals["function"])' /\ locals'["function"] # 0
    BY <1>6, <2>6, <2>7
  <2>9. \A k : Has(u, "upvalues", k) => Has(u, "upvalues", k)'
    BY <1>3, <2>5 DEF Stays
  <2>10. CapturesOK(captures, d)'
    BY <1>1, <1>2, <1>5, <2>5, <2>9, CapturesStay
  <2> QED
    BY <1>2, <1>6, <2>1, <2>5, <2>8, <2>10 DEF MakesAt
<1>7. CASE todo = allocateClosure(captures) /\ locals["function"] # 0 /\ Kept(locals["function"])
  <2>1. Held
    BY <1>1, <1>4, <1>7, OneHeld
  <2>2. FieldsOK(Allocate("closure", <<"function">>))
    BY <1>7, ToSets DEF FieldsOK, Allocate, Step
  <2>3. /\ todo = Then(Allocate("closure", <<"function">>), pushClosure(captures))
        /\ Named("closure")
    BY <1>7 DEF allocateClosure, Named
  <2>4. /\ Consistent' /\ Level("running", 0)' /\ stack' = stack /\ frames' = frames
        /\ \/ Stays /\ todo' = todo /\ locals' = locals
           \/ /\ todo' = pushClosure(captures)
              /\ "closure" \in Wanted(pushClosure(captures)) => locals'["closure"] # 0
              /\ \A x \in DOMAIN heap : x \in DOMAIN heap' /\ heap'[x] = heap[x]
    BY <1>1, <1>4, <2>1, <2>2, <2>3, AllocateStep
  <2>5. \A k : Has(u, "upvalues", k) => Has(u, "upvalues", k)'
    <3>1. CASE Stays
      BY <1>3, <3>1 DEF Stays
    <3>2. CASE \A x \in DOMAIN heap : x \in DOMAIN heap' /\ heap'[x] = heap[x]
      BY <1>3, <3>2 DEF Has
    <3> QED
      BY <2>4, <3>1, <3>2
  <2>6. CapturesOK(captures, d)'
    BY <1>1, <1>2, <1>5, <2>4, <2>5, CapturesStay
  <2>7. CASE Stays /\ todo' = todo /\ locals' = locals
    <3>1. PICK f : f = locals["function"]
      OBVIOUS
    <3>2. Kept(f)' /\ locals'["function"] = f
      BY <1>7, <2>7, <3>1 DEF Stays
    <3>3. Kept(locals["function"])' /\ locals'["function"] # 0
      BY <1>7, <3>1, <3>2
    <3> QED
      BY <1>2, <1>7, <2>4, <2>6, <2>7, <3>3 DEF MakesAt
  <2>8. CASE /\ todo' = pushClosure(captures)
             /\ "closure" \in Wanted(pushClosure(captures)) => locals'["closure"] # 0
    BY <1>2, <1>4, <2>4, <2>6, <2>8 DEF MakesAt
  <2> QED
    BY <2>4, <2>7, <2>8
<1>8. CASE todo = pushClosure(captures) /\ locals["closure"] # 0
  <2>1. PICK K, t, n, m : /\ K = capturesLeft(captures, 0) /\ t = locals["closure"]
                          /\ n = 0 /\ m = n + 1
    OBVIOUS
  <2>2. IsCode(K) /\ todo = Then(Push("closure"), K)
    <3>1. PICK c : c = 2 * Len(captures)
      OBVIOUS
    <3>2. c \in Nat /\ 0 \in 0..c
      BY <1>1, <3>1
    <3> QED
      BY <1>1, <1>8, <2>1, <3>1, <3>2, FillCode DEF pushClosure
  <2>3. Level("running", n) /\ n \in Nat
    BY <1>1, <2>1
  <2>4. /\ Consistent' /\ Level("running", m)' /\ todo' = K
        /\ \A w \in Wanted(K) : locals'[w] = locals[w]
        /\ Top(0)' = t /\ stack' = Append(stack, t) /\ heap' = heap /\ frames' = frames
    BY <2>1, <2>2, <2>3, PushStep
  <2>5. m \in Nat
    BY <2>1
  <2>6. Level("running", 0)'
    <3>1. PICK l : l = Len(stack')
      OBVIOUS
    <3>2. l \in Nat /\ \A x \in openUpvalues' : x.location <= l - 0
      BY <2>4, <3>1 DEF Consistent, RootsOK
    <3>3. Room(0)'
      BY <3>1, <3>2 DEF Room
    <3> QED
      BY <2>4, <3>3 DEF Level
  <2>7. t \in Nat
    <3>1. "closure" \in Wanted(todo)
      BY <1>4, <1>8
    <3>2. t \in Live
      BY <1>1, <2>1, <3>1 DEF LocalsOK
    <3> QED
      BY <3>2 DEF Live, Consistent, HeapOK
  <2>8. Len(stack') = Len(stack) + 1
    BY <1>1, <2>4, <2>7 DEF RootsOK
  <2>9. Len(stack') \in Nat /\ Len(stack) <= Len(stack') /\ 1 <= Len(stack')
    BY <1>5, <2>8
  <2>10. \A k : Has(u, "upvalues", k) => Has(u, "upvalues", k)'
    BY <2>4 DEF Has
  <2>11. CapturesOK(captures, d)'
    BY <1>1, <1>2, <1>5, <2>4, <2>9, <2>10, CapturesStay
  <2>12. "closure" \in Wanted(todo') => locals'["closure"] = Top(0)'
    BY <2>1, <2>4
  <2>13. Top(0)' # 0 /\ 0 % 2 # 1
    BY <1>8, <2>1, <2>4
  <2> QED
    BY <1>2, <2>1, <2>4, <2>6, <2>8, <2>9, <2>11, <2>12, <2>13 DEF FillsAt, Filling
<1> QED
  BY <1>6, <1>7, <1>8 DEF MakesAt

LEMMA ClosureNext ==
  ASSUME Consistent, Next, InClosure
  PROVE  Consistent' /\ (InClosure' \/ Idle("running")')
<1>1. ASSUME Consistent', NEW captures, NEW i \in 0..(2 * Len(captures)), FillsAt(captures, i)'
      PROVE  InClosure' \/ Idle("running")'
  <2>1. PICK n : n = 2 * Len(captures)
    OBVIOUS
  <2>2. captures \in Seq(Range(captures)) /\ Level("running", 0)'
    BY <1>1 DEF FillsAt, Filling, CapturesOK
  <2>3. n \in Nat /\ n % 2 # 1
    BY <2>1, <2>2
  <2>4. CASE i = n
    <3>1. todo' = capturesLeft(captures, n)
      BY <1>1, <2>3, <2>4 DEF FillsAt
    <3>2. capturesLeft(captures, n) = <<>>
      BY <2>1, <2>2, FillCode
    <3> QED
      BY <1>1, <2>2, <3>1, <3>2 DEF Idle
  <2>5. CASE i # n
    <3>1. i \in 0..(2 * Len(captures) - 1)
      BY <2>1, <2>3, <2>5
    <3> QED
      BY <1>1, <3>1 DEF InClosure
  <2> QED
    BY <2>4, <2>5
<1>2. ASSUME NEW captures, MakesAt(captures)
      PROVE  Consistent' /\ (InClosure' \/ Idle("running")')
  <2>1. Consistent' /\ (MakesAt(captures)' \/ FillsAt(captures, 0)')
    BY <1>2, MakeNext
  <2>2. 0 \in 0..(2 * Len(captures))
    <3>1. captures \in Seq(Range(captures))
      BY <1>2 DEF MakesAt, CapturesOK
    <3> QED
      BY <3>1
  <2>3. CASE MakesAt(captures)'
    BY <2>1, <2>3 DEF InClosure
  <2> QED
    BY <1>1, <2>1, <2>2, <2>3
<1>3. ASSUME NEW captures, NEW i \in 0..(2 * Len(captures) - 1), FillsAt(captures, i)
      PROVE  Consistent' /\ (InClosure' \/ Idle("running")')
  <2>1. Consistent' /\ (FillsAt(captures, i)' \/ FillsAt(captures, i + 1)')
    BY <1>3, FillNext
  <2>2. captures \in Seq(Range(captures))
    BY <1>3 DEF FillsAt, Filling, CapturesOK
  <2>3. PICK j : j = i + 1
    OBVIOUS
  <2>4. i \in 0..(2 * Len(captures)) /\ j \in 0..(2 * Len(captures))
    BY <2>2, <2>3
  <2> QED
    BY <1>1, <2>1, <2>3, <2>4
<1> QED
  BY <1>2, <1>3 DEF InClosure

---------------------------------------------------------------------------
(* What begins between the functions: the compiler.                        *)

LEMMA Begun ==
  ASSUME todo = <<>>, Next
  PROVE  \/ interpret \/ stringConstant \/ beginFunction \/ endFunction \/ endCompile
         \/ endInError \/ pushValue \/ OP_POP \/ OP_DEFINE_GLOBAL \/ OP_SET_GLOBAL \/ OP_ADD
         \/ OP_GET_PROPERTY \/ OP_SET_PROPERTY \/ OP_GET_SUPER \/ OP_CALL \/ OP_INVOKE
         \/ OP_CLOSURE \/ OP_CLOSE_UPVALUE \/ OP_RETURN \/ OP_CLASS \/ OP_INHERIT \/ OP_METHOD
         \/ operandError
<1>1. \A steps : ~Doing(steps)
  BY DEF Doing
<1>2. ~collectGarbage /\ ~enlarge /\ ~allocateObject /\ ~find /\ ~intern
  BY <1>1 DEF collectGarbage, enlarge, allocateObject, find, intern
<1>3. ~moveStack /\ ~setRoot /\ ~endCurrent
  BY <1>1 DEF moveStack, setRoot, endCurrent
<1>4. ~setReference /\ ~upvalueStep
  BY <1>1 DEF setReference, upvalueStep
<1>5. ~call
  BY <1>1 DEF call
<1> QED
  BY <1>2, <1>3, <1>4, <1>5 DEF Next

LEMMA InterpretBegins ==
  ASSUME Idle("alone"), interpret
  PROVE  Consistent' /\ InCompiler("alone", <<>>)'
<1>1. PICK N : N = <<>>
  OBVIOUS
<1>2. PICK K : K = makeFunction(N)
  OBVIOUS
<1>3. IsCode(K) /\ Wanted(K) = {}
  BY <1>1, <1>2, NoCode, CompilerCode
<1>4. Consistent /\ Level("alone", 0) /\ Begin(Empty, K)
  BY <1>1, <1>2, InitCompilerCode DEF Idle, interpret
<1>5. Consistent' /\ todo' = K /\ Level("alone", 0)'
  BY <1>3, <1>4, BeginStep
<1> QED
  BY <1>1, <1>2, <1>5 DEF InCompiler

LEMMA StringConstantBegins ==
  ASSUME Idle("compiling"), stringConstant
  PROVE  Consistent' /\ InStringConstant'
<1>1. PICK K : K = copies(pushConstant)
  OBVIOUS
<1>2. IsCode(K) /\ Wanted(K) = {}
  BY <1>1, StringConstantCode
<1>3. Consistent /\ Level("compiling", 0) /\ Begin(Empty, K)
  BY <1>1, StringConstantCode DEF Idle, stringConstant
<1>4. Consistent' /\ todo' = K /\ Level("compiling", 0)'
  BY <1>2, <1>3, BeginStep
<1> QED
  BY <1>1, <1>4 DEF InStringConstant, InString

LEMMA FunctionBegins ==
  ASSUME Idle("compiling"), beginFunction
  PROVE  Consistent' /\ InCompiler("compiling", copies(named))'
<1>1. PICK N : N = copies(named)
  OBVIOUS
<1>2. PICK K : K = makeFunction(N)
  OBVIOUS
<1>3. IsCode(K) /\ Wanted(K) = {}
  BY <1>1, <1>2, NameCode, CompilerCode
<1>4. Consistent /\ Level("compiling", 0) /\ Begin(Empty, K)
  BY <1>1, <1>2, InitCompilerCode DEF Idle, beginFunction
<1>5. Consistent' /\ todo' = K /\ Level("compiling", 0)'
  BY <1>3, <1>4, BeginStep
<1> QED
  BY <1>1, <1>2, <1>5 DEF InCompiler

LEMMA FunctionEnds ==
  ASSUME Idle("compiling"), endFunction
  PROVE  Consistent' /\ InFunction'
<1>1. PICK K : K = endings(pushFunction)
  OBVIOUS
<1>2. IsCode(K) /\ Wanted(K) = {}
  BY <1>1, FunctionCode
<1>3. Consistent /\ Level("compiling", 0) /\ Begin(Empty, K) /\ Len(compilers) > 1
  BY <1>1, FunctionCode DEF Idle, endFunction
<1>4. Consistent' /\ todo' = K /\ Level("compiling", 0)' /\ compilers' = compilers
  BY <1>2, <1>3, BeginStep
<1> QED
  BY <1>1, <1>3, <1>4 DEF InFunction, InEnding

LEMMA ExecuteBegins ==
  ASSUME Idle("compiling"), endCompile
  PROVE  Consistent' /\ InExecute'
<1>1. PICK K : K = endings(runPush)
  OBVIOUS
<1>2. IsCode(K) /\ Wanted(K) = {}
  BY <1>1, ExecuteCode
<1>3. Consistent /\ Level("compiling", 0) /\ Begin(Empty, K) /\ Len(compilers) = 1
  BY <1>1, ExecuteCode DEF Idle, endCompile
<1>4. Consistent' /\ todo' = K /\ Level("compiling", 0)' /\ compilers' = compilers
  BY <1>2, <1>3, BeginStep
<1> QED
  BY <1>1, <1>3, <1>4 DEF InExecute, InEnding

LEMMA ErrorBegins ==
  ASSUME Idle("compiling"), endInError
  PROVE  Consistent' /\ InError'
<1>1. PICK N : N = <<>>
  OBVIOUS
<1>2. PICK K : K = endings(N)
  OBVIOUS
<1>3. IsCode(K) /\ Wanted(K) = {}
  BY <1>1, <1>2, ErrorCode
<1>4. Consistent /\ Level("compiling", 0) /\ Begin(Empty, K) /\ Len(compilers) = 1
  BY <1>1, <1>2, ErrorCode DEF Idle, endInError
<1>5. Consistent' /\ todo' = K /\ Level("compiling", 0)' /\ compilers' = compilers
  BY <1>3, <1>4, BeginStep
<1> QED
  BY <1>1, <1>2, <1>4, <1>5 DEF InError, InEnding

---------------------------------------------------------------------------
(* What begins between the functions: the instructions.                    *)

LEMMA KeysHave ==
  ASSUME HeapOK, NEW a \in DOMAIN heap, NEW name, NEW k \in KeysOf(a, name)
  PROVE  Has(a, name, k)
<1>1. PICK f \in DOMAIN heap[a].refs : f[1] = name /\ k = f[2]
  BY DEF KeysOf
<1>2. f = <<f[1], f[2]>> /\ a # 0
  BY <1>1 DEF HeapOK, ObjectOK, IsField
<1>3. f = <<name, k>>
  BY <1>1, <1>2
<1> QED
  BY <1>1, <1>2, <1>3 DEF Has

LEMMA ConstantIs ==
  ASSUME Consistent, frames # <<>>, NEW type, NEW c \in Constants(type)
  PROVE  c \in Live /\ c # 0 /\ Kept(c) /\ Is(c, type)
<1>1. HeapOK /\ RootsOK
  BY DEF Consistent
<1>2. PICK a : a = frame.closure
  OBVIOUS
<1>3. a \in DOMAIN heap /\ Reaches(a) /\ Is(a, "closure")
  BY <1>2, FrameKept DEF Kept, frame
<1>4. PICK g : g = fn
  OBVIOUS
<1>5. g = Ref(a, "function", 0)
  BY <1>2, <1>4 DEF fn
<1>6. Has(a, "function", 0) /\ g # 0 /\ g \in DOMAIN heap
  BY <1>1, <1>3, <1>5 DEF HeapOK, ObjectOK, Has, Ref, Live
<1>7. Kept(g)
  BY <1>1, <1>3, <1>5, <1>6, ReferenceReaches
<1>8. PICK i \in KeysOf(g, "constants") : c = Ref(g, "constants", i)
  BY <1>4 DEF Constants
<1>9. Is(c, type)
  BY DEF Constants
<1>10. Has(g, "constants", i)
  BY <1>1, <1>6, <1>8, KeysHave
<1>11. Kept(c)
  BY <1>1, <1>6, <1>7, <1>8, <1>10, ReferenceReaches DEF Kept
<1>12. c \in Live
  BY <1>1, <1>6, <1>8, <1>10 DEF HeapOK, ObjectOK, Has, Ref
<1> QED
  BY <1>9, <1>11, <1>12 DEF Is

LEMMA UpvalueIs ==
  ASSUME Consistent, NEW u \in DOMAIN heap, Kept(u), IsRooted(u)
  PROVE  ValueOf(u) \in Live /\ Kept(ValueOf(u))
<1>1. HeapOK /\ RootsOK
  BY DEF Consistent
<1>2. CASE IsOpen(u)
  <2>1. PICK o : o = CHOOSE open \in openUpvalues : open.at = u
    OBVIOUS
  <2>2. o \in openUpvalues
    BY <1>2, <2>1 DEF IsOpen
  <2>3. o.location \in DOMAIN stack
    BY <1>1, <2>2 DEF RootsOK
  <2>4. ValueOf(u) = stack[o.location]
    BY <1>2, <2>1 DEF ValueOf
  <2>5. ValueOf(u) \in ToSet(stack)
    BY <2>3, <2>4, ToSetIs
  <2> QED
    BY <1>1, <2>5, RootReaches DEF RootsOK
<1>3. CASE ~IsOpen(u) /\ HasValue(u)
  <2>1. PICK x : x = Ref(u, "closed", 0)
    OBVIOUS
  <2>2. Has(u, "closed", 0) /\ ValueOf(u) = x
    BY <1>3, <2>1 DEF HasValue, ValueOf
  <2>3. Kept(x)
    BY <1>1, <2>1, <2>2, ReferenceReaches DEF Kept, Has
  <2>4. x \in Live
    BY <1>1, <2>1, <2>2 DEF HeapOK, ObjectOK, Has, Ref
  <2> QED
    BY <2>2, <2>3, <2>4
<1>4. CASE ~IsOpen(u) /\ ~HasValue(u)
  <2>1. PICK i : i = Dropped(u).location
    OBVIOUS
  <2>2. i \in DOMAIN stack /\ ValueOf(u) = stack[i]
    BY <1>4, <2>1 DEF IsRooted, InStack, ValueOf
  <2>3. ValueOf(u) \in ToSet(stack)
    BY <2>2, ToSetIs
  <2> QED
    BY <1>1, <2>3, RootReaches DEF RootsOK
<1> QED
  BY <1>2, <1>3, <1>4

LEMMA UpvaluesAre ==
  ASSUME Consistent, frames # <<>>, NEW u \in Upvalues, IsRooted(u)
  PROVE  ValueOf(u) \in Live /\ Kept(ValueOf(u))
<1>1. HeapOK
  BY DEF Consistent
<1>2. PICK a : a = frame.closure
  OBVIOUS
<1>3. a \in DOMAIN heap /\ Reaches(a)
  BY <1>2, FrameKept DEF Kept, frame
<1>4. PICK i \in KeysOf(a, "upvalues") : u = Ref(a, "upvalues", i)
  BY <1>2 DEF Upvalues
<1>5. Has(a, "upvalues", i)
  BY <1>1, <1>3, <1>4, KeysHave
<1>6. Kept(u)
  BY <1>1, <1>3, <1>4, <1>5, ReferenceReaches
<1>7. u # 0 /\ u \in Live
  BY <1>1, <1>3, <1>4, <1>5 DEF HeapOK, ObjectOK, Has, Ref
<1>8. u \in DOMAIN heap
  BY <1>7 DEF Live
<1> QED
  BY <1>6, <1>8, UpvalueIs

LEMMA OperandsLevel ==
  ASSUME Idle("running"), NEW n \in Nat, Operands(n)
  PROVE  Consistent /\ Level("running", n) /\ frames # <<>>
<1>1. PICK l : l = Len(stack)
  OBVIOUS
<1>2. PICK f : f = frame.slots
  OBVIOUS
<1>3. Consistent /\ frames # <<>> /\ compilers = <<>>
  BY DEF Idle, Level
<1>4. l \in Nat /\ f \in Nat \ {0} /\ l - n >= f
  BY <1>1, <1>2, <1>3, LastFrame DEF Consistent, RootsOK, Operands, frame
<1>5. n <= l
  BY <1>4
<1>6. Room(n)
  BY <1>1, <1>5 DEF Room, Operands
<1> QED
  BY <1>3, <1>6 DEF Level

LEMMA BeginKeeps ==
  ASSUME Consistent, NEW values, NEW K, IsCode(K), Begin(values, K),
         \A v \in Wanted(K) : values[v] \in Live
  PROVE  /\ Consistent' /\ todo' = K
         /\ \A mode, n : Level(mode, n) => Level(mode, n)'
         /\ \A j : Top(j)' = Top(j)
         /\ UNCHANGED <<heap, stack, frames, openUpvalues>>
         /\ \A v \in Wanted(K) : /\ locals'[v] = values[v]
                                 /\ Kept(values[v]) => Kept(locals[v])'
                                 /\ \A type : Is(values[v], type) => Is(locals[v], type)'
<1>1. /\ Consistent' /\ todo' = K /\ \A v \in Wanted(K) : locals'[v] = values[v]
      /\ UNCHANGED <<heap, strings, stack, frames, openUpvalues, globals, compilers, initString>>
      /\ \A mode, n : Level(mode, n) => Level(mode, n)'
      /\ \A j : Top(j)' = Top(j)
      /\ Stays
  BY BeginStep
<1>2. ASSUME NEW v \in Wanted(K)
      PROVE  /\ locals'[v] = values[v] /\ (Kept(values[v]) => Kept(locals[v])')
             /\ \A type : Is(values[v], type) => Is(locals[v], type)'
  <2>1. PICK a : a = values[v]
    OBVIOUS
  <2>2. Kept(a) => Kept(a)'
    BY <1>1 DEF Stays
  <2>3. \A type : Is(a, type) => Is(a, type)'
    BY <1>1 DEF Is
  <2>4. a = locals'[v]
    BY <1>1, <2>1
  <2>5. Kept(a) => Kept(locals[v])'
    BY <2>2, <2>4
  <2>6. \A type : Is(a, type) => Is(locals[v], type)'
    BY <2>3, <2>4
  <2> QED
    BY <2>1, <2>4, <2>5, <2>6
<1> QED
  BY <1>1, <1>2

LEMMA StackMoves ==
  ASSUME Idle("running"), NEW t \in Seq(Nat), ToSet(t) \subseteq Live, stack' = t,
         \A u \in openUpvalues : u.location <= Len(t),
         UNCHANGED <<heap, strings, frames, openUpvalues, globals, compilers, initString, locals, todo>>
  PROVE  Idle("running")'
<1>1. HeapOK /\ RootsOK /\ LocalsOK /\ todo = <<>> /\ frames # <<>> /\ compilers = <<>>
  BY DEF Idle, Consistent, Level
<1>2. HeapOK'
  BY <1>1, HeapStays
<1>3. PICK l : l = Len(t)
  OBVIOUS
<1>4. l \in Nat /\ \A u \in openUpvalues : u.location \in Nat \ {0}
  BY <1>1, <1>3 DEF RootsOK
<1>5. \A u \in openUpvalues : u.location \in 1..l
  BY <1>3, <1>4
<1>6. RootsOK'
  BY <1>1, <1>3, <1>5 DEF RootsOK, Live, Is
<1>7. LocalsOK'
  BY <1>1 DEF LocalsOK, Live
<1>8. 0 <= l /\ \A u \in openUpvalues : u.location <= l - 0
  BY <1>4, <1>5
<1>9. Room(0)'
  BY <1>3, <1>8 DEF Room
<1> QED
  BY <1>1, <1>2, <1>6, <1>7, <1>9 DEF Idle, Consistent, Level

LEMMA FrontIs ==
  ASSUME NEW S, NEW s \in Seq(S), 1 <= Len(s)
  PROVE  /\ Front(s) \in Seq(S) /\ Len(Front(s)) = Len(s) - 1 /\ ToSet(Front(s)) \subseteq ToSet(s)
         /\ \A i \in 1..(Len(s) - 1) : Front(s)[i] = s[i]
<1>1. PICK t, l : t = Front(s) /\ l = Len(s)
  OBVIOUS
<1>2. l \in Nat /\ t \in Seq(S) /\ Len(t) = l - 1 /\ \A i \in 1..(l - 1) : t[i] = s[i]
  BY <1>1 DEF Front
<1>3. DOMAIN t = 1..(l - 1) /\ DOMAIN s = 1..l
  BY <1>1, <1>2
<1>4. ToSet(t) \subseteq ToSet(s)
  BY <1>2, <1>3, ToSetIs
<1> QED
  BY <1>1, <1>2, <1>4

LEMMA AppendIs ==
  ASSUME NEW t \in Seq(Nat), NEW x \in Nat
  PROVE  Append(t, x) \in Seq(Nat) /\ Len(Append(t, x)) = Len(t) + 1 /\ ToSet(Append(t, x)) = ToSet(t) \cup {x}
<1>1. PICK p, l : p = Append(t, x) /\ l = Len(t)
  OBVIOUS
<1>2. l \in Nat /\ p \in Seq(Nat) /\ Len(p) = l + 1 /\ p[l + 1] = x /\ \A i \in 1..l : p[i] = t[i]
  BY <1>1
<1>3. DOMAIN p = 1..(l + 1) /\ DOMAIN t = 1..l
  BY <1>1, <1>2
<1>4. ToSet(p) = ToSet(t) \cup {x}
  BY <1>2, <1>3, ToSetIs
<1> QED
  BY <1>1, <1>2, <1>4

LEMMA PushValueKeeps ==
  ASSUME Idle("running"), pushValue
  PROVE  Idle("running")' \/ strayed'
<1>1. Consistent /\ HeapOK /\ RootsOK /\ frames # <<>>
  BY DEF Idle, Consistent, Level
<1> SUFFICES ASSUME ~strayed' PROVE Idle("running")'
  OBVIOUS
<1>2. PICK value \in Names \cup {0} \cup ToSet(SubSeq(stack, frame.slots, Len(stack)))
                     \cup {globals[k] : k \in Names \cap DOMAIN globals}
                     \cup {ValueOf(u) : u \in {u \in Upvalues : IsRooted(u)}} :
        stack' = Append(stack, value)
  BY DEF pushValue, Reads
<1>3. value \in Live
  <2>1. CASE value \in Names
    BY <1>1, <2>1, ConstantIs DEF Names
  <2>2. CASE value = 0
    BY <2>2 DEF Live
  <2>3. CASE value \in ToSet(SubSeq(stack, frame.slots, Len(stack)))
    <3>1. PICK f, l : f = frame.slots /\ l = Len(stack)
      OBVIOUS
    <3>2. f \in Nat \ {0} /\ stack \in Seq(Nat) /\ l \in Nat
      BY <1>1, <3>1, LastFrame DEF RootsOK, frame
    <3>3. PICK t : t = SubSeq(stack, f, l)
      OBVIOUS
    <3>4. PICK i \in DOMAIN t : value = t[i]
      BY <2>3, <3>1, <3>3, ToSetIs
    <3>5. i \in 1..(l - f + 1) /\ t[i] = stack[f + i - 1]
      BY <3>1, <3>2, <3>3, <3>4
    <3>6. f + i - 1 \in 1..l
      BY <3>2, <3>5
    <3>7. f + i - 1 \in DOMAIN stack
      BY <3>1, <3>2, <3>6
    <3>8. value \in ToSet(stack)
      BY <3>4, <3>5, <3>7, ToSetIs
    <3> QED
      BY <1>1, <3>8 DEF RootsOK
  <2>4. CASE value \in {globals[k] : k \in Names \cap DOMAIN globals}
    BY <1>1, <2>4, ToSetIs DEF RootsOK
  <2>5. CASE value \in {ValueOf(u) : u \in {u \in Upvalues : IsRooted(u)}}
    BY <1>1, <2>5, UpvaluesAre
  <2> QED
    BY <2>1, <2>2, <2>3, <2>4, <2>5
<1>4. stack \in Seq(Nat) /\ value \in Nat /\ ToSet(stack) \subseteq Live
  BY <1>1, <1>3 DEF RootsOK, HeapOK, Live
<1>5. PICK t : t = Append(stack, value)
  OBVIOUS
<1>6. t \in Seq(Nat) /\ ToSet(t) \subseteq Live /\ Len(t) = Len(stack) + 1 /\ Len(stack) \in Nat
  BY <1>3, <1>4, <1>5, AppendIs
<1>7. \A u \in openUpvalues : u.location <= Len(t)
  BY <1>1, <1>6 DEF RootsOK
<1>8. UNCHANGED <<heap, strings, frames, openUpvalues, globals, compilers, initString, locals, todo>>
  BY DEF pushValue
<1> QED
  BY <1>2, <1>5, <1>6, <1>7, <1>8, StackMoves

LEMMA PopKeeps ==
  ASSUME Idle("running"), OP_POP
  PROVE  Idle("running")'
<1>1. Consistent /\ RootsOK /\ Room(1)
  BY OperandsLevel DEF OP_POP, Level, Consistent
<1>2. PICK t, l : t = Front(stack) /\ l = Len(stack)
  OBVIOUS
<1>3. stack \in Seq(Nat) /\ ToSet(stack) \subseteq Live /\ 1 <= l /\ \A u \in openUpvalues : u.location <= l - 1
  BY <1>1, <1>2 DEF RootsOK, Room
<1>4. t \in Seq(Nat) /\ Len(t) = l - 1 /\ ToSet(t) \subseteq Live
  BY <1>2, <1>3, FrontIs
<1>5. stack' = t /\ UNCHANGED <<heap, strings, frames, openUpvalues, globals, compilers, initString, locals, todo>>
  BY <1>2 DEF OP_POP
<1> QED
  BY <1>3, <1>4, <1>5, StackMoves

LEMMA DefineBegins ==
  ASSUME Idle("running"), OP_DEFINE_GLOBAL
  PROVE  Consistent' /\ InGlobal'
<1>1. Consistent /\ Level("running", 1) /\ frames # <<>>
  BY OperandsLevel DEF OP_DEFINE_GLOBAL
<1>2. PICK K : K = growDefine
  OBVIOUS
<1>3. PICK name \in Names : Begin([name |-> name, value |-> Top(0)], K)
  BY <1>2, GlobalCode DEF OP_DEFINE_GLOBAL
<1>4. PICK values : values = [name |-> name, value |-> Top(0)]
  OBVIOUS
<1>5. values["name"] = name /\ values["value"] = Top(0)
  BY <1>4
<1>6. IsCode(K) /\ Wanted(K) = {"name", "value"}
  BY <1>2, GlobalCode
<1>7. name \in Live /\ Kept(name)
  BY <1>1, ConstantIs DEF Names
<1>8. Top(0) \in Live /\ Kept(Top(0))
  BY <1>1, LevelTop
<1>9. \A v \in Wanted(K) : values[v] \in Live /\ Kept(values[v])
  BY <1>5, <1>6, <1>7, <1>8
<1>10. Begin(values, K)
  BY <1>3, <1>4
<1>11. Consistent' /\ todo' = K /\ Level("running", 1)' /\ \A v \in Wanted(K) : Kept(locals[v])'
  BY <1>1, <1>6, <1>9, <1>10, BeginKeeps
<1> QED
  BY <1>2, <1>6, <1>11 DEF InGlobal

LEMMA SetGlobalBegins ==
  ASSUME Idle("running"), OP_SET_GLOBAL
  PROVE  Consistent' /\ InGlobal'
<1>1. Consistent /\ Level("running", 1) /\ frames # <<>>
  BY OperandsLevel DEF OP_SET_GLOBAL
<1>2. PICK name \in Names :
        Begin([name |-> name, value |-> Top(0)],
              <<Array>> \o IF name \in DOMAIN globals THEN <<SetGlobal("name", "value")>>
                           ELSE <<Step("error", <<"name", "value">>, "")>>)
  BY DEF OP_SET_GLOBAL
<1>3. PICK values : values = [name |-> name, value |-> Top(0)]
  OBVIOUS
<1>4. values["name"] = name /\ values["value"] = Top(0)
  BY <1>3
<1>5. Begin(values, growAgain) \/ Begin(values, growUndefined)
  <2>1. CASE name \in DOMAIN globals
    BY <1>2, <1>3, <2>1, GlobalCode
  <2>2. CASE name \notin DOMAIN globals
    BY <1>2, <1>3, <2>2, GlobalCode
  <2> QED
    BY <2>1, <2>2
<1>6. PICK K : K \in {growAgain, growUndefined} /\ Begin(values, K)
  BY <1>5
<1>7. IsCode(K) /\ Wanted(K) = {"name", "value"}
  BY <1>6, GlobalCode
<1>8. name \in Live /\ Kept(name)
  BY <1>1, ConstantIs DEF Names
<1>9. Top(0) \in Live /\ Kept(Top(0))
  BY <1>1, LevelTop
<1>10. \A v \in Wanted(K) : values[v] \in Live /\ Kept(values[v])
  BY <1>4, <1>7, <1>8, <1>9
<1>11. Consistent' /\ todo' = K /\ Level("running", 1)' /\ \A v \in Wanted(K) : Kept(locals[v])'
  BY <1>1, <1>6, <1>7, <1>10, BeginKeeps
<1> QED
  BY <1>6, <1>7, <1>11 DEF InGlobal

LEMMA AddBegins ==
  ASSUME Idle("running"), OP_ADD
  PROVE  Consistent' /\ InConcatenate'
<1>1. Consistent /\ Level("running", 2)
  BY OperandsLevel DEF OP_ADD
<1>2. PICK K : K = concatGrow
  OBVIOUS
<1>3. PICK values : values = [a |-> Top(1), b |-> Top(0)]
  OBVIOUS
<1>4. Begin(values, K)
  BY <1>2, <1>3, ConcatenateCode DEF OP_ADD
<1>5. values["a"] = Top(1) /\ values["b"] = Top(0)
  BY <1>3
<1>6. IsCode(K) /\ Wanted(K) = {"a", "b"}
  BY <1>2, ConcatenateCode
<1>7. Top(0) \in Live /\ Top(1) \in Live
  BY <1>1, LevelTop
<1>8. \A v \in Wanted(K) : values[v] \in Live
  BY <1>5, <1>6, <1>7
<1>9. /\ Consistent' /\ todo' = K /\ Level("running", 2)' /\ \A j : Top(j)' = Top(j)
      /\ \A v \in Wanted(K) : locals'[v] = values[v]
  BY <1>1, <1>4, <1>6, <1>8, BeginKeeps
<1>10. locals'["a"] = Top(1)' /\ locals'["b"] = Top(0)'
  BY <1>5, <1>6, <1>9
<1> QED
  BY <1>2, <1>9, <1>10 DEF InConcatenate

LEMMA RefIs ==
  ASSUME HeapOK, NEW a \in Live, NEW name, NEW k, Has(a, name, k)
  PROVE  /\ Ref(a, name, k) \in Live /\ a # 0 /\ a \in DOMAIN heap
         /\ Kept(a) => Kept(Ref(a, name, k))
         /\ name = "methods" => Is(Ref(a, name, k), "closure")
<1>1. a # 0 /\ a \in DOMAIN heap
  BY DEF Has, Live
<1>2. Ref(a, name, k) \in Live
  BY <1>1 DEF HeapOK, ObjectOK, Has, Ref
<1>3. Kept(a) => Kept(Ref(a, name, k))
  BY <1>1, ReferenceReaches DEF Kept
<1>4. name = "methods" => Is(Ref(a, name, k), "closure")
  BY <1>1 DEF HeapOK, ObjectOK
<1> QED
  BY <1>1, <1>2, <1>3, <1>4

LEMMA ClassIs ==
  ASSUME HeapOK, NEW a \in Live, Is(a, "instance"), Kept(a), NEW class, class = Ref(a, "class", 0)
  PROVE  class \in Live /\ class # 0 /\ Kept(class)
<1>1. a \in DOMAIN heap
  BY DEF Is, Live
<1>2. Has(a, "class", 0) /\ class # 0
  BY <1>1 DEF HeapOK, ObjectOK
<1> QED
  BY <1>2, RefIs

LEMMA BindBegins ==
  ASSUME Consistent, Level("running", 1), NEW values, NEW class \in Live, Kept(class), NEW name,
         Has(class, "methods", name),
         values = [receiver |-> Top(0), method |-> Ref(class, "methods", name)],
         Begin(values, bindMethod)
  PROVE  Consistent' /\ InBind'
<1>1. PICK K, m : K = bindAllocate /\ m = Ref(class, "methods", name)
  OBVIOUS
<1>2. IsCode(K) /\ Wanted(K) = {"receiver", "method"} /\ Begin(values, K)
  BY <1>1, BindCode
<1>3. m \in Live /\ Kept(m) /\ Is(m, "closure")
  BY <1>1, RefIs DEF Consistent
<1>4. Top(0) \in Live /\ Kept(Top(0))
  BY LevelTop
<1>5. values["receiver"] = Top(0) /\ values["method"] = m
  BY <1>1
<1>6. \A v \in Wanted(K) : values[v] \in Live /\ Kept(values[v])
  BY <1>2, <1>3, <1>4, <1>5
<1>7. /\ Consistent' /\ todo' = K /\ Level("running", 1)' /\ \A v \in Wanted(K) : Kept(locals[v])'
      /\ \A v \in Wanted(K) : \A type : Is(values[v], type) => Is(locals[v], type)'
  BY <1>2, <1>6, BeginKeeps
<1>8. Is(locals["method"], "closure")' /\ Kept(locals["method"])' /\ Kept(locals["receiver"])'
  BY <1>2, <1>3, <1>5, <1>7
<1> QED
  BY <1>1, <1>7, <1>8 DEF InBind

LEMMA GetPropertyBegins ==
  ASSUME Idle("running"), OP_GET_PROPERTY
  PROVE  (Consistent' /\ InBind') \/ Idle("running")'
<1>1. Consistent /\ Level("running", 1) /\ HeapOK /\ RootsOK /\ Room(1)
  BY OperandsLevel DEF OP_GET_PROPERTY, Consistent, Level
<1>2. PICK a, class : a = Top(0) /\ class = Ref(a, "class", 0)
  OBVIOUS
<1>3. a \in Live /\ Kept(a) /\ Is(a, "instance")
  BY <1>1, <1>2, LevelTop DEF OP_GET_PROPERTY
<1>4. PICK name :
        \/ /\ Has(a, "fields", name)
           /\ stack' = Append(Front(stack), Ref(a, "fields", name))
           /\ UNCHANGED <<heap, strings, frames, openUpvalues, globals, compilers,
                          initString, locals, todo>>
        \/ /\ Has(class, "methods", name)
           /\ Begin([receiver |-> a, method |-> Ref(class, "methods", name)], bindMethod)
  BY <1>2 DEF OP_GET_PROPERTY
<1>5. CASE /\ Has(a, "fields", name)
           /\ stack' = Append(Front(stack), Ref(a, "fields", name))
           /\ UNCHANGED <<heap, strings, frames, openUpvalues, globals, compilers,
                          initString, locals, todo>>
  <2>1. PICK x, f, t, l : x = Ref(a, "fields", name) /\ f = Front(stack) /\ t = Append(f, x) /\ l = Len(stack)
    OBVIOUS
  <2>2. x \in Live /\ x \in Nat
    <3>1. x \in Live
      BY <1>1, <1>3, <1>5, <2>1, RefIs
    <3> QED
      BY <1>1, <3>1 DEF Live, HeapOK
  <2>3. /\ stack \in Seq(Nat) /\ ToSet(stack) \subseteq Live /\ l \in Nat /\ 1 <= l
        /\ \A u \in openUpvalues : u.location <= l - 1 /\ u.location \in Nat
    BY <1>1, <2>1 DEF RootsOK, Room
  <2>4. f \in Seq(Nat) /\ Len(f) = l - 1 /\ ToSet(f) \subseteq Live
    BY <2>1, <2>3, FrontIs
  <2>5. t \in Seq(Nat) /\ Len(t) = l - 1 + 1 /\ ToSet(t) \subseteq Live
    BY <2>1, <2>2, <2>4, AppendIs
  <2>6. \A u \in openUpvalues : u.location <= Len(t)
    BY <2>3, <2>5
  <2>7. stack' = t
    BY <1>5, <2>1
  <2> QED
    BY <1>5, <2>5, <2>6, <2>7, StackMoves
<1>6. CASE /\ Has(class, "methods", name)
           /\ Begin([receiver |-> a, method |-> Ref(class, "methods", name)], bindMethod)
  <2>1. class \in Live /\ Kept(class)
    BY <1>1, <1>2, <1>3, ClassIs
  <2> QED
    BY <1>1, <1>2, <1>6, <2>1, BindBegins
<1> QED
  BY <1>4, <1>5, <1>6

LEMMA GetSuperBegins ==
  ASSUME Idle("running"), OP_GET_SUPER
  PROVE  (Consistent' /\ InBind') \/ strayed'
<1>1. Consistent /\ Level("running", 1) /\ frames # <<>>
  BY OperandsLevel DEF OP_GET_SUPER
<1>2. PICK u \in Upvalues, name \in Names :
        /\ Reads(u) /\ Has(ValueOf(u), "methods", name)
        /\ Begin([receiver |-> Top(0), method |-> Ref(ValueOf(u), "methods", name)], bindMethod)
  BY DEF OP_GET_SUPER
<1>3. PICK superclass : superclass = ValueOf(u)
  OBVIOUS
<1>4. CASE IsRooted(u)
  <2>1. superclass \in Live /\ Kept(superclass)
    BY <1>1, <1>2, <1>3, <1>4, UpvaluesAre
  <2> QED
    BY <1>1, <1>2, <1>3, <2>1, BindBegins
<1>5. CASE ~IsRooted(u)
  BY <1>2, <1>5 DEF Reads
<1> QED
  BY <1>4, <1>5

LEMMA SetPropertyBegins ==
  ASSUME Idle("running"), OP_SET_PROPERTY
  PROVE  Consistent' /\ InField'
<1>1. Consistent /\ Level("running", 2) /\ frames # <<>> /\ Is(Top(1), "instance")
  BY OperandsLevel DEF OP_SET_PROPERTY
<1>2. PICK K : K = fieldGrow
  OBVIOUS
<1>3. PICK name \in Names : Begin([instance |-> Top(1), name |-> name, value |-> Top(0)], K)
  BY <1>2, FieldCode DEF OP_SET_PROPERTY
<1>4. PICK values : values = [instance |-> Top(1), name |-> name, value |-> Top(0)]
  OBVIOUS
<1>5. values["instance"] = Top(1) /\ values["name"] = name /\ values["value"] = Top(0)
  BY <1>4
<1>6. IsCode(K) /\ Wanted(K) = {"instance", "name", "value"}
  BY <1>2, FieldCode
<1>7. name \in Live /\ name # 0 /\ Kept(name)
  BY <1>1, ConstantIs DEF Names
<1>8. Top(0) \in Live /\ Kept(Top(0)) /\ Top(1) \in Live /\ Kept(Top(1))
  BY <1>1, LevelTop
<1>9. \A v \in Wanted(K) : values[v] \in Live /\ Kept(values[v])
  BY <1>5, <1>6, <1>7, <1>8
<1>10. Begin(values, K)
  BY <1>3, <1>4
<1>11. /\ Consistent' /\ todo' = K /\ Level("running", 2)' /\ \A v \in Wanted(K) : Kept(locals[v])'
       /\ \A v \in Wanted(K) : locals'[v] = values[v]
  BY <1>1, <1>6, <1>9, <1>10, BeginKeeps
<1>12. Top(1) # 0
  BY <1>1 DEF Is
<1>13. locals'["instance"] # 0 /\ locals'["name"] # 0
  BY <1>5, <1>6, <1>7, <1>11, <1>12
<1> QED
  BY <1>2, <1>6, <1>11, <1>13 DEF InField

LEMMA ClassBegins ==
  ASSUME Idle("running"), OP_CLASS
  PROVE  Consistent' /\ InClass'
<1>1. Consistent /\ Level("running", 0) /\ frames # <<>>
  BY DEF Idle, Level
<1>2. PICK K : K = allocateClass
  OBVIOUS
<1>3. PICK name \in Names : Begin([name |-> name], K)
  BY <1>2, ClassCode DEF OP_CLASS
<1>4. PICK values : values = [name |-> name]
  OBVIOUS
<1>5. values["name"] = name
  BY <1>4
<1>6. IsCode(K) /\ Wanted(K) = {"name"}
  BY <1>2, ClassCode
<1>7. name \in Live /\ Kept(name)
  BY <1>1, ConstantIs DEF Names
<1>8. \A v \in Wanted(K) : values[v] \in Live /\ Kept(values[v])
  BY <1>5, <1>6, <1>7
<1>9. Begin(values, K)
  BY <1>3, <1>4
<1>10. Consistent' /\ todo' = K /\ Level("running", 0)' /\ \A v \in Wanted(K) : Kept(locals[v])'
  BY <1>1, <1>6, <1>8, <1>9, BeginKeeps
<1> QED
  BY <1>2, <1>6, <1>10 DEF InClass

LEMMA MethodBegins ==
  ASSUME Idle("running"), OP_METHOD
  PROVE  Consistent' /\ InMethod'
<1>1. /\ Consistent /\ Level("running", 1) /\ frames # <<>>
      /\ Is(Top(0), "closure") /\ Is(Top(1), "class") /\ 2 <= Len(stack)
  <2>1. Consistent /\ Level("running", 1) /\ frames # <<>>
    BY OperandsLevel DEF OP_METHOD
  <2>2. Len(stack) \in Nat
    BY <2>1 DEF Consistent, RootsOK
  <2>3. Is(Top(0), "closure") /\ Is(Top(1), "class") /\ Len(stack) > 1
    BY DEF OP_METHOD
  <2> QED
    BY <2>1, <2>2, <2>3
<1>2. PICK K : K = methodGrow
  OBVIOUS
<1>3. PICK name \in Names : Begin([class |-> Top(1), name |-> name, method |-> Top(0)], K)
  BY <1>2, MethodCode DEF OP_METHOD
<1>4. PICK values : values = [class |-> Top(1), name |-> name, method |-> Top(0)]
  OBVIOUS
<1>5. values["class"] = Top(1) /\ values["name"] = name /\ values["method"] = Top(0)
  BY <1>4
<1>6. IsCode(K) /\ Wanted(K) = {"class", "name", "method"}
  BY <1>2, MethodCode
<1>7. name \in Live /\ name # 0 /\ Kept(name)
  BY <1>1, ConstantIs DEF Names
<1>8. Top(0) \in Live /\ Kept(Top(0))
  BY <1>1, LevelTop
<1>9. Top(1) \in Live /\ Kept(Top(1))
  BY <1>1, TopIs
<1>10. \A v \in Wanted(K) : values[v] \in Live /\ Kept(values[v])
  BY <1>5, <1>6, <1>7, <1>8, <1>9
<1>11. Begin(values, K)
  BY <1>3, <1>4
<1>12. /\ Consistent' /\ todo' = K /\ Level("running", 1)' /\ \A v \in Wanted(K) : Kept(locals[v])'
       /\ \A v \in Wanted(K) : /\ locals'[v] = values[v]
                               /\ \A type : Is(values[v], type) => Is(locals[v], type)'
  BY <1>1, <1>6, <1>10, <1>11, BeginKeeps
<1>13. Top(1) # 0
  BY <1>1 DEF Is
<1>14. locals'["class"] # 0 /\ locals'["name"] # 0 /\ Is(locals["method"], "closure")'
  BY <1>1, <1>5, <1>6, <1>7, <1>12, <1>13
<1> QED
  BY <1>2, <1>6, <1>12, <1>14 DEF InMethod

LEMMA InheritBegins ==
  ASSUME Idle("running"), OP_INHERIT
  PROVE  Consistent' /\ InInherit'
<1>1. PICK l : l = Len(stack)
  OBVIOUS
<1>2. PICK a, b : a = Top(1) /\ b = Top(0)
  OBVIOUS
<1>3. Consistent /\ HeapOK /\ Level("running", 1) /\ l \in Nat /\ 2 <= l
  <2>1. Consistent /\ Level("running", 1) /\ frames # <<>>
    BY OperandsLevel DEF OP_INHERIT
  <2>2. PICK f : f = frame.slots
    OBVIOUS
  <2>3. l \in Nat /\ f \in Nat \ {0} /\ l > f + 1
    BY <1>1, <2>1, <2>2, LastFrame DEF Consistent, RootsOK, OP_INHERIT, frame
  <2>4. 2 <= l
    BY <2>3
  <2> QED
    BY <2>1, <2>3, <2>4 DEF Consistent
<1>4. b \in Live /\ a \in Live
  BY <1>1, <1>2, <1>3, TopIs
<1>5. a # 0 /\ b # 0 /\ a \in DOMAIN heap
  BY <1>2, <1>4 DEF OP_INHERIT, Is, Live
<1>6. PICK keys : keys = KeysOf(a, "methods")
  OBVIOUS
<1>7. \A k \in keys : Has(a, "methods", k)
  BY <1>3, <1>5, <1>6, KeysHave
<1>8. IsFiniteSet(keys)
  <2>1. \A k \in keys : <<"methods", k>> \in DOMAIN heap[a].refs
    BY <1>7 DEF Has
  <2>2. ASSUME NEW k \in keys PROVE k \in DOMAIN heap
    <3>1. PICK f, t : f = <<t, k>> /\ t = "methods"
      OBVIOUS
    <3>2. f \in DOMAIN heap[a].refs /\ f[1] = "methods" /\ f[2] = k
      BY <2>1, <3>1
    <3>3. f[1] \in Tables
      BY <3>2 DEF Tables
    <3> QED
      BY <1>3, <1>5, <3>2, <3>3 DEF HeapOK, ObjectOK
  <2>3. keys \subseteq DOMAIN heap
    BY <2>2
  <2> QED
    BY <1>3, <2>3, FS_Subset DEF HeapOK
<1>9. PICK n : n = 2 * Cardinality(keys)
  OBVIOUS
<1>10. PICK z : z = 0
  OBVIOUS
<1>11. PICK K : K = copiesLeft(keys, z)
  OBVIOUS
<1>12. n \in Nat /\ z \in 0..n
  BY <1>8, <1>9, <1>10, CopiesCode
<1>13. IsCode(K) /\ Wanted(K) \subseteq {"superclass", "subclass"}
  BY <1>8, <1>9, <1>11, <1>12, CopiesCode
<1>14. tableAddAll(keys) \o <<Pop>> = K
  BY <1>8, <1>9, <1>10, <1>11, CopiesCode
<1>15. PICK values : values = [superclass |-> a, subclass |-> b]
  OBVIOUS
<1>16. Begin(values, K)
  BY <1>2, <1>6, <1>14, <1>15 DEF OP_INHERIT
<1>17. values["superclass"] = a /\ values["subclass"] = b
  BY <1>15
<1>18. \A v \in Wanted(K) : values[v] \in Live
  BY <1>4, <1>13, <1>17
<1>19. /\ Consistent' /\ todo' = K /\ Level("running", 1)' /\ \A j : Top(j)' = Top(j)
       /\ heap' = heap /\ stack' = stack /\ \A v \in Wanted(K) : locals'[v] = values[v]
  BY <1>3, <1>13, <1>16, <1>18, BeginKeeps
<1>20. Top(1)' = a /\ Top(0)' = b
  BY <1>2, <1>19
<1>21. \A v \in Wanted(K) : \/ v = "superclass" /\ locals'[v] = Top(1)'
                            \/ v = "subclass" /\ locals'[v] = Top(0)'
  BY <1>13, <1>17, <1>19, <1>20
<1>22. \A k \in keys : Has(a, "methods", k)'
  BY <1>7, <1>19 DEF Has
<1>23. \A k \in keys : Has(Top(1), "methods", k)'
  BY <1>20, <1>22
<1>24. CopiesAt(keys, z)'
  BY <1>1, <1>3, <1>5, <1>11, <1>19, <1>20, <1>21, <1>23 DEF CopiesAt
<1> QED
  BY <1>8, <1>9, <1>12, <1>19, <1>24 DEF InInherit

(* What is called, and the steps of it.                                    *)
CalledSteps(callee, n) ==
  CASE heap[callee].type = "closure" -> <<Call("callee", n)>>
    [] heap[callee].type = "class"   -> instantiate(n)
    [] heap[callee].type = "bound"   -> <<Poke(n, "receiver"), Call("method", n)>>
    [] heap[callee].type = "native"  -> <<Native(n)>>
    [] OTHER                         -> <<error_(<<>>)>>

CalledValues(callee) ==
  [v \in {"callee", "class", "receiver", "method"} |->
     IF v \in {"callee", "class"} THEN callee
     ELSE IF Has(callee, v, 0) THEN Ref(callee, v, 0) ELSE 0]

Callable(callee, n, K) ==
  \/ K = callOf("callee", n) /\ Is(callee, "closure")
  \/ K = makeInstance(n)
  \/ K = callBound(n) /\ Is(callee, "bound")
  \/ K = callNative(n)
  \/ K = notCallable

LEMMA CalledStepsAre ==
  ASSUME NEW callee, callee # 0, NEW n
  PROVE  \E K \in CallSteps(n) : Callable(callee, n, K) /\ CalledSteps(callee, n) = K
<1>1. PICK L : L = CalledSteps(callee, n)
  OBVIOUS
<1>2. PICK t : t = heap[callee].type
  OBVIOUS
<1>3. /\ t = "closure" => L = <<Call("callee", n)>>
      /\ t = "class" => L = instantiate(n)
      /\ t = "bound" => L = <<Poke(n, "receiver"), Call("method", n)>>
      /\ t = "native" => L = <<Native(n)>>
      /\ t \notin {"closure", "class", "bound", "native"} => L = <<error_(<<>>)>>
  BY <1>1, <1>2 DEF CalledSteps
<1>4. CASE t = "closure"
  BY <1>1, <1>2, <1>3, <1>4, OneTuple DEF CallSteps, Callable, callOf, Is
<1>5. CASE t = "class"
  <2>1. instantiate(n) = makeInstance(n)
    BY ThreeChain DEF instantiate, makeInstance, pokeInstance, initializes, initialize_
  <2> QED
    BY <1>1, <1>3, <1>5, <2>1 DEF CallSteps, Callable
<1>6. CASE t = "bound"
  BY <1>1, <1>2, <1>3, <1>6, TwoChain DEF CallSteps, Callable, callBound, callOf, Is
<1>7. CASE t = "native"
  BY <1>1, <1>3, <1>7, OneTuple DEF CallSteps, Callable, callNative
<1>8. CASE t \notin {"closure", "class", "bound", "native"}
  BY <1>1, <1>3, <1>8, OneTuple DEF CallSteps, Callable, notCallable
<1> QED
  BY <1>4, <1>5, <1>6, <1>7, <1>8

LEMMA CalledValuesAre ==
  ASSUME HeapOK, NEW callee \in Live, callee # 0, NEW values, values = CalledValues(callee)
  PROVE  /\ values["callee"] = callee /\ values["class"] = callee
         /\ \A v \in {"callee", "class", "receiver", "method"} : values[v] \in Live
         /\ Is(callee, "bound") => Is(values["method"], "closure")
<1>1. \A v \in {"callee", "class", "receiver", "method"} :
        values[v] = IF v \in {"callee", "class"} THEN callee
                    ELSE IF Has(callee, v, 0) THEN Ref(callee, v, 0) ELSE 0
  BY DEF CalledValues
<1>2. values["callee"] = callee /\ values["class"] = callee
  BY <1>1
<1>3. \A v : Has(callee, v, 0) => Ref(callee, v, 0) \in Live
  BY RefIs
<1>4. \A v \in {"callee", "class", "receiver", "method"} : values[v] \in Live
  BY <1>1, <1>3 DEF Live
<1>5. Is(callee, "bound") => Is(values["method"], "closure")
  <2>1. ASSUME Is(callee, "bound") PROVE Is(values["method"], "closure")
    <3>1. Has(callee, "method", 0) /\ Is(Ref(callee, "method", 0), "closure")
      BY <2>1 DEF HeapOK, ObjectOK, Live
    <3>2. values["method"] = Ref(callee, "method", 0)
      BY <1>1, <3>1
    <3> QED
      BY <3>1, <3>2
  <2> QED
    BY <2>1
<1> QED
  BY <1>2, <1>4, <1>5

LEMMA CallValueIs ==
  ASSUME NEW callee, NEW n, NEW before, callValue(callee, n, before)
  PROVE  callee # 0 /\ Begin(CalledValues(callee), before \o CalledSteps(callee, n))
BY DEF callValue, CalledValues, CalledSteps, Native, error_

LEMMA CallBegins ==
  ASSUME Consistent, NEW n \in Nat, NEW m, m = n + 1, Level("running", m), NEW callee \in Live, callee # 0,
         NEW K \in CallSteps(n), Callable(callee, n, K), NEW T,
         \/ T = K /\ callee = Top(n)
         \/ T = pokeCallee(n, K),
         NEW values, values = CalledValues(callee), Begin(values, T)
  PROVE  Consistent' /\ InCall(n)'
<1>1. /\ IsCode(T) /\ Wanted(K) \subseteq Wanted(T)
      /\ T = pokeCallee(n, K) => Wanted(T) = {"callee"} \cup Wanted(K)
  BY CallSteppedCode
<1>2. K = callOf("callee", n) => Wanted(K) = {"callee"}
  BY CallSteppedCode
<1>3. K = makeInstance(n) => Wanted(K) = {"class"}
  BY CallSteppedCode
<1>4. K = callBound(n) => Wanted(K) = {"receiver", "method"}
  BY CallSteppedCode
<1>5. Wanted(K) \subseteq {"callee", "class", "receiver", "method"}
  <2>1. K = callNative(n) => Wanted(K) = {}
    BY CallSteppedCode
  <2>2. K = notCallable => Wanted(K) = {}
    BY CallSteppedCode
  <2> QED
    BY <1>2, <1>3, <1>4, <2>1, <2>2 DEF Callable
<1>6. /\ values["callee"] = callee /\ values["class"] = callee
      /\ \A v \in {"callee", "class", "receiver", "method"} : values[v] \in Live
      /\ Is(callee, "bound") => Is(values["method"], "closure")
  BY CalledValuesAre DEF Consistent
<1>7. \A v \in Wanted(T) : values[v] \in Live
  BY <1>1, <1>5, <1>6
<1>8. /\ Consistent' /\ todo' = T /\ Level("running", m)' /\ \A j : Top(j)' = Top(j)
      /\ \A v \in Wanted(T) : /\ locals'[v] = values[v]
                              /\ \A type : Is(values[v], type) => Is(locals[v], type)'
  BY <1>1, <1>7, BeginKeeps
<1>9. Ready(K, n)'
  <2>1. CASE K = callOf("callee", n) /\ Is(callee, "closure")
    BY <1>1, <1>2, <1>6, <1>8, <2>1 DEF Ready
  <2>2. CASE K = makeInstance(n)
    BY <1>1, <1>3, <1>6, <1>8, <2>2 DEF Ready
  <2>3. CASE K = callBound(n) /\ Is(callee, "bound")
    BY <1>1, <1>4, <1>6, <1>8, <2>3 DEF Ready
  <2>4. CASE K = callNative(n) \/ K = notCallable
    BY <2>4 DEF Ready
  <2> QED
    BY <2>1, <2>2, <2>3, <2>4 DEF Callable
<1>10. K = makeInstance(n) => locals'["class"] = callee
  BY <1>1, <1>3, <1>6, <1>8
<1>11. \/ todo' = K /\ (K = makeInstance(n) => locals'["class"] = Top(n)')
       \/ todo' = pokeCallee(n, K) /\ (K = makeInstance(n) => locals'["class"] = locals'["callee"])
  <2>1. CASE T = K /\ callee = Top(n)
    BY <1>8, <1>10, <2>1
  <2>2. CASE T = pokeCallee(n, K)
    BY <1>1, <1>6, <1>8, <1>10, <2>2
  <2> QED
    BY <2>1, <2>2
<1>12. Level("running", n + 1)'
  BY <1>8
<1> QED
  BY <1>8, <1>9, <1>11, <1>12 DEF InCall

LEMMA OpCallBegins ==
  ASSUME Idle("running"), OP_CALL
  PROVE  \E n \in Nat : Consistent' /\ InCall(n)'
<1>1. PICK n \in 0..1 : Operands(n + 1) /\ callValue(Top(n), n, <<>>)
  BY DEF OP_CALL
<1>2. n \in Nat
  BY <1>1
<1>3. PICK m : m = n + 1
  OBVIOUS
<1>4. m \in Nat /\ n < m
  BY <1>2, <1>3
<1>5. Consistent /\ Level("running", m)
  BY <1>1, <1>3, <1>4, OperandsLevel
<1>6. Top(n) \in Live
  BY <1>2, <1>4, <1>5, LevelTop
<1>7. PICK N, callee : N = <<>> /\ callee = Top(n)
  OBVIOUS
<1>8. callee # 0 /\ Begin(CalledValues(callee), N \o CalledSteps(callee, n))
  BY <1>1, <1>7, CallValueIs
<1>9. PICK K \in CallSteps(n) : Callable(callee, n, K) /\ CalledSteps(callee, n) = K
  BY <1>8, CalledStepsAre
<1>10. N \o K = K
  BY <1>7, <1>9, CallSteppedCode, EmptyJoined DEF IsCode
<1>11. Begin(CalledValues(callee), K)
  BY <1>8, <1>9, <1>10
<1>12. callee \in Live /\ callee = Top(n)
  BY <1>6, <1>7
<1>13. Consistent' /\ InCall(n)'
  BY <1>2, <1>3, <1>5, <1>8, <1>9, <1>11, <1>12, CallBegins
<1> QED
  BY <1>2, <1>13

LEMMA InvokeBegins ==
  ASSUME Idle("running"), OP_INVOKE
  PROVE  \E n \in Nat : Consistent' /\ InCall(n)'
<1>1. PICK n \in 0..1, name \in Names :
        /\ Operands(n + 1) /\ Is(Top(n), "instance")
        /\ \/ /\ Has(Top(n), "fields", name)
              /\ callValue(Ref(Top(n), "fields", name), n, <<Poke(n, "callee")>>)
           \/ /\ Has(Ref(Top(n), "class", 0), "methods", name)
              /\ Begin([method |-> Ref(Ref(Top(n), "class", 0), "methods", name)],
                       <<Call("method", n)>>)
  BY DEF OP_INVOKE
<1>2. n \in Nat
  BY <1>1
<1>3. PICK m : m = n + 1
  OBVIOUS
<1>4. m \in Nat /\ n < m
  BY <1>2, <1>3
<1>5. Consistent /\ Level("running", m) /\ HeapOK
  BY <1>1, <1>3, <1>4, OperandsLevel DEF Consistent
<1>6. PICK a, class : a = Top(n) /\ class = Ref(a, "class", 0)
  OBVIOUS
<1>7. a \in Live /\ Kept(a) /\ Is(a, "instance")
  BY <1>1, <1>2, <1>4, <1>5, <1>6, LevelTop
<1>8. CASE /\ Has(Top(n), "fields", name)
           /\ callValue(Ref(Top(n), "fields", name), n, <<Poke(n, "callee")>>)
  <2>1. PICK callee, p : callee = Ref(a, "fields", name) /\ p = Poke(n, "callee")
    OBVIOUS
  <2>2. callee \in Live
    BY <1>5, <1>6, <1>7, <1>8, <2>1, RefIs
  <2>3. callee # 0 /\ Begin(CalledValues(callee), <<p>> \o CalledSteps(callee, n))
    BY <1>6, <1>8, <2>1, CallValueIs
  <2>4. PICK K \in CallSteps(n) : Callable(callee, n, K) /\ CalledSteps(callee, n) = K
    BY <2>3, CalledStepsAre
  <2>5. K \in Seq(Range(K))
    BY <2>4, CallSteppedCode DEF IsCode
  <2>6. <<p>> \o K = pokeCallee(n, K)
    BY <2>1, <2>5, OneSteps DEF pokeCallee
  <2>7. Begin(CalledValues(callee), pokeCallee(n, K))
    BY <2>3, <2>4, <2>6
  <2>8. Consistent' /\ InCall(n)'
    BY <1>2, <1>3, <1>5, <2>2, <2>3, <2>4, <2>7, CallBegins
  <2> QED
    BY <1>2, <2>8
<1>9. CASE /\ Has(Ref(Top(n), "class", 0), "methods", name)
           /\ Begin([method |-> Ref(Ref(Top(n), "class", 0), "methods", name)],
                    <<Call("method", n)>>)
  <2>1. PICK x, K : x = Ref(class, "methods", name) /\ K = callOf("method", n)
    OBVIOUS
  <2>2. PICK values : values = [method |-> x]
    OBVIOUS
  <2>3. class \in Live
    BY <1>5, <1>6, <1>7, ClassIs
  <2>4. x \in Live /\ Is(x, "closure")
    BY <1>5, <1>6, <1>9, <2>1, <2>3, RefIs
  <2>5. values["method"] = x
    BY <2>2
  <2>6. IsCode(K) /\ Wanted(K) = {"method"}
    BY <2>1, CallSteppedCode
  <2>7. Begin(values, K)
    BY <1>6, <1>9, <2>1, <2>2, OneTuple DEF callOf
  <2>8. \A v \in Wanted(K) : values[v] \in Live
    BY <2>4, <2>5, <2>6
  <2>9. /\ Consistent' /\ todo' = K /\ Level("running", m)'
        /\ \A v \in Wanted(K) : \A type : Is(values[v], type) => Is(locals[v], type)'
    BY <1>5, <2>6, <2>7, <2>8, BeginKeeps
  <2>10. Is(locals["method"], "closure")'
    BY <2>4, <2>5, <2>6, <2>9
  <2>11. Level("running", n + 1)'
    BY <1>3, <2>9
  <2>12. InCall(n)'
    BY <2>1, <2>9, <2>10, <2>11 DEF InCall
  <2> QED
    BY <1>2, <2>9, <2>12
<1> QED
  BY <1>1, <1>8, <1>9

LEMMA ClosureBegins ==
  ASSUME Idle("running"), OP_CLOSURE
  PROVE  Consistent' /\ InClosure'
<1>1. Consistent /\ HeapOK /\ RootsOK /\ Level("running", 0) /\ frames # <<>>
  BY DEF Idle, Consistent, Level
<1>2. PICK function_ \in Constants("function"), n \in 0..MaxUpvalues :
        \E captures \in [1..n -> Captures] :
          Begin([function |-> function_], newClosure \o <<Push("closure")>> \o fill(captures))
  BY DEF OP_CLOSURE
<1>3. PICK captures \in [1..n -> Captures] :
        Begin([function |-> function_], newClosure \o <<Push("closure")>> \o fill(captures))
  BY <1>2
<1>4. n \in Nat /\ DOMAIN captures = 1..n /\ \A j \in 1..n : captures[j] \in Captures
  BY <1>2, <1>3, RootingAssumption
<1>5. captures \in Seq(Range(captures)) /\ Len(captures) = n
  <2>1. PICK R : R = Range(captures)
    OBVIOUS
  <2>2. \A j \in 1..n : captures[j] \in R
    BY <1>4, <2>1, ToSetIs
  <2>3. captures \in [1..n -> R]
    BY <1>4, <1>3, <2>2
  <2>4. captures \in Seq(R) /\ Len(captures) = n
    BY <1>4, <2>3
  <2> QED
    BY <2>1, <2>4
<1>6. PICK a, s, l : a = Last(frames).closure /\ s = Last(frames).slots /\ l = Len(stack) + 1
  OBVIOUS
<1>7. a \in DOMAIN heap /\ s \in Nat \ {0} /\ l \in Nat
  BY <1>1, <1>6, LastFrame DEF RootsOK
<1>8. ASSUME NEW j \in 1..n
      PROVE  IF captures[j].isLocal THEN captures[j].index \in 1..l
             ELSE Has(a, "upvalues", captures[j].index)
  <2>1. PICK c : c = captures[j]
    OBVIOUS
  <2>2. \/ c \in [isLocal : {TRUE}, index : s..l]
        \/ c \in [isLocal : {FALSE}, index : KeysOf(a, "upvalues")]
    BY <1>4, <1>6, <2>1 DEF Captures, frame
  <2>3. CASE c \in [isLocal : {TRUE}, index : s..l]
    <3>1. c.isLocal = TRUE /\ c.index \in s..l
      BY <2>3
    <3>2. c.index \in 1..l
      BY <1>7, <3>1
    <3> QED
      BY <2>1, <3>1, <3>2
  <2>4. CASE c \in [isLocal : {FALSE}, index : KeysOf(a, "upvalues")]
    <3>1. c.isLocal = FALSE /\ c.index \in KeysOf(a, "upvalues")
      BY <2>4
    <3>2. Has(a, "upvalues", c.index)
      BY <1>1, <1>7, <3>1, KeysHave
    <3> QED
      BY <2>1, <3>1, <3>2
  <2> QED
    BY <2>2, <2>3, <2>4
<1>9. PICK K : K = growClosure(captures)
  OBVIOUS
<1>10. IsCode(K) /\ Wanted(K) = {"function"}
  BY <1>5, <1>9, MakeCode
<1>11. PICK values : values = [function |-> function_]
  OBVIOUS
<1>12. Begin(values, K) /\ values["function"] = function_
  BY <1>5, <1>9, <1>11, <1>3, MakeCode
<1>13. function_ \in Live /\ function_ # 0 /\ Kept(function_)
  BY <1>1, <1>2, ConstantIs
<1>14. \A v \in Wanted(K) : values[v] \in Live /\ Kept(values[v])
  BY <1>10, <1>12, <1>13
<1>15. /\ Consistent' /\ todo' = K /\ Level("running", 0)' /\ UNCHANGED <<heap, stack, frames>>
       /\ \A v \in Wanted(K) : locals'[v] = values[v] /\ Kept(locals[v])'
  BY <1>1, <1>10, <1>12, <1>14, BeginKeeps
<1>16. locals'["function"] # 0 /\ Kept(locals["function"])'
  BY <1>10, <1>12, <1>13, <1>15
<1>17. CapturesOK(captures, l)'
  BY <1>5, <1>6, <1>8, <1>15 DEF CapturesOK, Has
<1>18. MakesAt(captures)'
  BY <1>6, <1>9, <1>15, <1>16, <1>17 DEF MakesAt
<1> QED
  BY <1>15, <1>18 DEF InClosure

(* Upvalues that are closed keep their values.                             *)
LEMMA ClosedHeap ==
  ASSUME Consistent, NEW from \in Nat, closeUpvalues(from)
  PROVE  /\ HeapOK' /\ DOMAIN heap' = DOMAIN heap
         /\ \A x \in Live : \A type : Is(x, type)' <=> Is(x, type)
         /\ openUpvalues' = {u \in openUpvalues : u.location < from}
<1>1. HeapOK /\ RootsOK
  BY DEF Consistent
<1>2. heap' = Closed(from) /\ openUpvalues' = {u \in openUpvalues : u.location < from}
  BY DEF closeUpvalues
<1>3. DOMAIN heap' = DOMAIN heap
  BY <1>2 DEF Closed
<1>4. \A u \in openUpvalues : u.at \in DOMAIN heap /\ u.location \in Nat
  BY <1>1 DEF RootsOK
<1>5. ASSUME NEW x \in DOMAIN heap
      PROVE  /\ heap'[x].type = heap[x].type /\ IsObject(heap'[x])
             /\ \/ heap'[x].refs = heap[x].refs /\ ~\E u \in openUpvalues : u.at = x /\ u.location >= from
                \/ /\ heap'[x].refs = With(heap[x].refs, <<"closed", 0>>, ValueOf(x))
                   /\ LinkOK("closed", 0, ValueOf(x))
  <2>1. IsObject(heap[x])
    BY <1>1 DEF HeapOK, ObjectOK
  <2>2. PICK h, r : h = heap[x] /\ r = With(heap[x].refs, <<"closed", 0>>, ValueOf(x))
    OBVIOUS
  <2>3. /\ IsObject([h EXCEPT !.refs = r])
        /\ [h EXCEPT !.refs = r].type = h.type /\ [h EXCEPT !.refs = r].refs = r
    BY <2>1, <2>2, RefsSet
  <2>4. heap'[x] = IF \E u \in openUpvalues : u.at = x /\ u.location >= from
                   THEN [h EXCEPT !.refs = r] ELSE h
    BY <1>2, <2>2 DEF Closed
  <2>5. CASE \E u \in openUpvalues : u.at = x /\ u.location >= from
    <3>1. Kept(x) /\ IsOpen(x) /\ IsRooted(x)
      BY <1>1, <2>5, RootReaches DEF Kept, IsOpen, IsRooted
    <3>2. ValueOf(x) \in Live
      BY <3>1, UpvalueIs
    <3>3. LinkOK("closed", 0, ValueOf(x))
      BY <3>2 DEF LinkOK, Tables
    <3> QED
      BY <2>2, <2>3, <2>4, <2>5, <3>3
  <2>6. CASE ~\E u \in openUpvalues : u.at = x /\ u.location >= from
    BY <2>1, <2>2, <2>4, <2>6
  <2> QED
    BY <2>5, <2>6
<1>7. DOMAIN heap' \subseteq Nat \ {0} /\ IsFiniteSet(DOMAIN heap')
  BY <1>1, <1>3 DEF HeapOK
<1>8. \A x \in DOMAIN heap :
        /\ x \in DOMAIN heap' /\ heap'[x].type = heap[x].type /\ IsObject(heap'[x])
        /\ \/ heap'[x].refs = heap[x].refs
           \/ \E name, key, b : /\ heap'[x].refs = With(heap[x].refs, <<name, key>>, b)
                                /\ LinkOK(name, key, b)
  BY <1>3, <1>5
<1>9. \A x \in DOMAIN heap' \ DOMAIN heap : ObjectOK(x)'
  BY <1>3
<1>10. HeapOK' /\ \A x \in Live : \A type : Is(x, type)' <=> Is(x, type)
  BY <1>1, <1>7, <1>8, <1>9, Relinks
<1> QED
  BY <1>2, <1>3, <1>10

LEMMA CloseKeeps ==
  ASSUME Idle("running"), OP_CLOSE_UPVALUE
  PROVE  Idle("running")'
<1>1. Consistent /\ RootsOK /\ LocalsOK /\ todo = <<>> /\ frames # <<>> /\ compilers = <<>>
  BY DEF Idle, Consistent, Level
<1>2. PICK t, l, s : t = Front(stack) /\ l = Len(stack) /\ s = frame.slots
  OBVIOUS
<1>3. l \in Nat /\ s \in Nat \ {0} /\ l > s /\ stack \in Seq(Nat) /\ ToSet(stack) \subseteq Live
  BY <1>1, <1>2, LastFrame DEF RootsOK, OP_CLOSE_UPVALUE, frame
<1>4. 1 <= l
  BY <1>3
<1>5. t \in Seq(Nat) /\ Len(t) = l - 1 /\ ToSet(t) \subseteq Live
  BY <1>2, <1>3, <1>4, FrontIs
<1>6. /\ closeUpvalues(l) /\ stack' = t
      /\ UNCHANGED <<strings, frames, globals, compilers, initString, locals, todo>>
  BY <1>2 DEF OP_CLOSE_UPVALUE
<1>7. /\ HeapOK' /\ DOMAIN heap' = DOMAIN heap
      /\ \A x \in Live : \A type : Is(x, type)' <=> Is(x, type)
      /\ openUpvalues' = {u \in openUpvalues : u.location < l}
  BY <1>1, <1>3, <1>6, ClosedHeap
<1>8. Live' = Live
  BY <1>7 DEF Live
<1>9. \A u \in openUpvalues' : u.at \in DOMAIN heap /\ u.location \in 1..(l - 1)
  BY <1>1, <1>2, <1>3, <1>7 DEF RootsOK
<1>10. RootsOK'
  <2>1. \A f \in ToSet(frames) : f.closure \in DOMAIN heap' /\ Is(f.closure, "closure")'
    BY <1>1, <1>7 DEF RootsOK, Live
  <2>2. \A u \in openUpvalues' : u.at \in DOMAIN heap' /\ u.location \in 1..Len(t)
    BY <1>5, <1>7, <1>9
  <2> QED
    BY <1>1, <1>5, <1>6, <1>7, <1>8, <2>1, <2>2 DEF RootsOK
<1>11. LocalsOK'
  BY <1>1, <1>6, <1>8 DEF LocalsOK
<1>12. Room(0)'
  <2>1. PICK m : m = Len(t)
    OBVIOUS
  <2>2. 0 <= m /\ \A u \in openUpvalues' : u.location <= m - 0
    BY <1>3, <1>4, <1>5, <1>9, <2>1
  <2> QED
    BY <1>6, <2>1, <2>2 DEF Room
<1> QED
  BY <1>1, <1>6, <1>7, <1>10, <1>11, <1>12 DEF Idle, Consistent, Level

LEMMA ReturnKeeps ==
  ASSUME Idle("running"), OP_RETURN
  PROVE  Idle("running")' \/ Idle("alone")'
<1>1. Consistent /\ RootsOK /\ LocalsOK /\ todo = <<>> /\ frames # <<>> /\ compilers = <<>>
  BY DEF Idle, Consistent, Level
<1>2. PICK l, s, k : l = Len(stack) /\ s = frame.slots /\ k = Len(frames)
  OBVIOUS
<1>3. l \in Nat /\ s \in Nat \ {0} /\ l - 1 >= s /\ stack \in Seq(Nat) /\ ToSet(stack) \subseteq Live
  <2>1. Operands(1)
    BY DEF OP_RETURN
  <2> QED
    BY <1>1, <1>2, <2>1, LastFrame DEF RootsOK, Operands, frame
<1>4. PICK F : F = [closure : Nat, slots : Nat \ {0}]
  OBVIOUS
<1>5. PICK g : g = Front(frames)
  OBVIOUS
<1>6. frames \in Seq(F) /\ k \in Nat /\ 1 <= k
  BY <1>1, <1>2, <1>4 DEF RootsOK
<1>7. /\ g \in Seq(F) /\ Len(g) = k - 1 /\ ToSet(g) \subseteq ToSet(frames)
      /\ \A i \in 1..(k - 1) : g[i] = frames[i]
  BY <1>2, <1>5, <1>6, FrontIs
<1>8. PICK t : t = IF k = 1 THEN <<>> ELSE Append(SubSeq(stack, 1, s - 1), Top(0))
  OBVIOUS
<1>9. /\ closeUpvalues(s) /\ stack' = t /\ frames' = g
      /\ UNCHANGED <<strings, globals, compilers, initString, locals, todo>>
  BY <1>2, <1>5, <1>8 DEF OP_RETURN
<1>10. /\ HeapOK' /\ DOMAIN heap' = DOMAIN heap
       /\ \A x \in Live : \A type : Is(x, type)' <=> Is(x, type)
       /\ openUpvalues' = {u \in openUpvalues : u.location < s}
  BY <1>1, <1>3, <1>9, ClosedHeap
<1>11. Live' = Live
  BY <1>10 DEF Live
<1>12. \A u \in openUpvalues' : u.at \in DOMAIN heap /\ u.location \in 1..(s - 1)
  BY <1>1, <1>2, <1>3, <1>10 DEF RootsOK
<1>13. k = 1 => s = 1
  BY <1>1, <1>2 DEF RootsOK, frame, Last
<1>14. t \in Seq(Nat) /\ ToSet(t) \subseteq Live /\ (k # 1 => Len(t) = s) /\ (k = 1 => t = <<>>)
  <2>1. CASE k = 1
    <3>1. ToSet(<<>>) = {}
      BY ToSets
    <3> QED
      BY <1>8, <2>1, <3>1
  <2>2. CASE k # 1
    <3>1. PICK a, p : a = Top(0) /\ p = SubSeq(stack, 1, s - 1)
      OBVIOUS
    <3>2. 0 + 1 <= l
      BY <1>3
    <3>3. a \in Live /\ a \in ToSet(stack)
      BY <1>1, <1>2, <3>1, <3>2, TopIs
    <3>4. a \in Nat
      BY <1>1, <3>3 DEF Consistent, HeapOK, Live
    <3>5. p \in Seq(Nat) /\ Len(p) = s - 1 /\ \A i \in 1..(s - 1) : p[i] = stack[i]
      BY <1>2, <1>3, <3>1
    <3>6. DOMAIN p = 1..(s - 1) /\ DOMAIN stack = 1..l /\ 1..(s - 1) \subseteq 1..l
      BY <1>2, <1>3, <3>5
    <3>7. ToSet(p) \subseteq ToSet(stack)
      BY <3>5, <3>6, ToSetIs
    <3>8. t = Append(p, a)
      BY <1>8, <2>2, <3>1
    <3>9. t \in Seq(Nat) /\ Len(t) = s - 1 + 1 /\ ToSet(t) = ToSet(p) \cup {a}
      BY <3>4, <3>5, <3>8, AppendIs
    <3> QED
      BY <1>3, <2>2, <3>3, <3>7, <3>9
  <2> QED
    BY <2>1, <2>2
<1>15. RootsOK'
  <2>1. \A f \in ToSet(g) : f.closure \in DOMAIN heap' /\ Is(f.closure, "closure")'
    BY <1>1, <1>7, <1>10 DEF RootsOK, Live
  <2>2. \A u \in openUpvalues' : u.at \in DOMAIN heap' /\ u.location \in 1..Len(t)
    <3>1. CASE k = 1
      BY <1>12, <1>13, <3>1
    <3>2. CASE k # 1
      BY <1>3, <1>10, <1>12, <1>14, <3>2
    <3> QED
      BY <3>1, <3>2
  <2>3. g # <<>> => g[1].slots = 1
    <3>1. ASSUME g # <<>> PROVE g[1].slots = 1
      <4>1. k # 1
        BY <1>7, <3>1
      <4>2. 1 \in 1..(k - 1)
        BY <1>6, <4>1
      <4>3. g[1] = frames[1]
        BY <1>7, <4>2
      <4> QED
        BY <1>1, <4>3 DEF RootsOK
    <3> QED
      BY <3>1
  <2> QED
    BY <1>1, <1>4, <1>7, <1>9, <1>10, <1>11, <1>14, <2>1, <2>2, <2>3 DEF RootsOK
<1>16. LocalsOK'
  BY <1>1, <1>9, <1>11 DEF LocalsOK
<1>17. CASE k = 1
  <2>1. g = <<>> /\ t = <<>>
    BY <1>7, <1>14, <1>17
  <2>2. openUpvalues' = {}
    BY <1>12, <1>13, <1>17
  <2>3. Bare(0)'
    BY <1>9, <2>1, <2>2 DEF Bare
  <2> QED
    BY <1>1, <1>9, <1>10, <1>15, <1>16, <2>3 DEF Idle, Consistent, Level
<1>18. CASE k # 1
  <2>1. g # <<>>
    BY <1>6, <1>7, <1>18
  <2>2. PICK m : m = Len(t)
    OBVIOUS
  <2>3. 0 <= m /\ \A u \in openUpvalues' : u.location <= m - 0
    BY <1>3, <1>12, <1>14, <1>18, <2>2
  <2>4. Room(0)'
    BY <1>9, <2>2, <2>3 DEF Room
  <2> QED
    BY <1>1, <1>9, <1>10, <1>15, <1>16, <2>1, <2>4 DEF Idle, Consistent, Level
<1> QED
  BY <1>17, <1>18

---------------------------------------------------------------------------
(* Where the machine can be.                                               *)

AtStart == InInit \/ InNative \/ Popping("alone") \/ Idle("alone")

AtCompiling ==
  \/ InCompiler("alone", <<>>) \/ InCompiler("compiling", copies(named)) \/ InName
  \/ InStringConstant \/ InFunction \/ InExecute \/ InError \/ Idle("compiling")

AtRunning ==
  \/ InConcatenate \/ InBind \/ InGlobal \/ InField \/ InMethod \/ InClass \/ InInherit
  \/ InClosure \/ (\E n \in Nat : InCall(n)) \/ Popping("running") \/ Idle("running")

IInv == Consistent /\ (AtStart \/ AtCompiling \/ AtRunning)

LEMMA NoInstruction ==
  ASSUME frames = <<>>
  PROVE  /\ ~pushValue /\ ~OP_POP /\ ~OP_DEFINE_GLOBAL /\ ~OP_SET_GLOBAL /\ ~OP_ADD
         /\ ~OP_GET_PROPERTY /\ ~OP_SET_PROPERTY /\ ~OP_GET_SUPER /\ ~OP_CALL /\ ~OP_INVOKE
         /\ ~OP_CLOSURE /\ ~OP_CLOSE_UPVALUE /\ ~OP_RETURN /\ ~OP_CLASS /\ ~OP_INHERIT /\ ~OP_METHOD
         /\ ~operandError
<1>1. \A n : ~Operands(n)
  BY DEF Operands
<1>2. ~pushValue /\ ~OP_POP /\ ~OP_DEFINE_GLOBAL /\ ~OP_ADD
  BY <1>1 DEF pushValue, OP_POP, OP_DEFINE_GLOBAL, OP_ADD
<1>3. ~OP_SET_GLOBAL
  BY <1>1 DEF OP_SET_GLOBAL
<1>4. ~OP_GET_PROPERTY /\ ~OP_SET_PROPERTY /\ ~OP_GET_SUPER
  BY <1>1 DEF OP_GET_PROPERTY, OP_SET_PROPERTY, OP_GET_SUPER
<1>5. ~OP_CALL /\ ~OP_INVOKE
  BY <1>1 DEF OP_CALL, OP_INVOKE
<1>6. ~OP_CLOSURE /\ ~OP_CLOSE_UPVALUE /\ ~OP_RETURN
  BY <1>1 DEF OP_CLOSURE, OP_CLOSE_UPVALUE, OP_RETURN
<1>7. ~OP_CLASS /\ ~OP_INHERIT /\ ~OP_METHOD
  BY <1>1 DEF OP_CLASS, OP_INHERIT, OP_METHOD
<1>8. ~operandError
  BY DEF operandError
<1> QED
  BY <1>2, <1>3, <1>4, <1>5, <1>6, <1>7, <1>8

LEMMA NoCompilation ==
  ASSUME compilers = <<>>
  PROVE  /\ ~stringConstant /\ ~beginFunction /\ ~endFunction /\ ~endCompile /\ ~endInError
<1>1. PICK l : l = Len(compilers)
  OBVIOUS
<1>2. l = 0
  BY <1>1
<1>3. ~(l > 1) /\ l # 1
  BY <1>2
<1> QED
  BY <1>1, <1>3 DEF stringConstant, beginFunction, endFunction, endCompile, endInError

LEMMA AloneNext ==
  ASSUME Idle("alone"), Next
  PROVE  Consistent' /\ InCompiler("alone", <<>>)'
<1>1. todo = <<>> /\ frames = <<>> /\ compilers = <<>>
  BY DEF Idle, Level, Bare
<1>2. interpret
  BY <1>1, Begun, NoInstruction, NoCompilation
<1> QED
  BY <1>2, InterpretBegins

LEMMA CompilingNext ==
  ASSUME Idle("compiling"), Next
  PROVE  Consistent' /\ AtCompiling'
<1>1. todo = <<>> /\ frames = <<>> /\ compilers # <<>>
  BY DEF Idle, Level, Bare
<1>2. ~interpret
  BY <1>1 DEF interpret
<1>3. stringConstant \/ beginFunction \/ endFunction \/ endCompile \/ endInError
  BY <1>1, <1>2, Begun, NoInstruction
<1>4. CASE stringConstant
  BY <1>4, StringConstantBegins DEF AtCompiling
<1>5. CASE beginFunction
  BY <1>5, FunctionBegins DEF AtCompiling
<1>6. CASE endFunction
  BY <1>6, FunctionEnds DEF AtCompiling
<1>7. CASE endCompile
  BY <1>7, ExecuteBegins DEF AtCompiling
<1>8. CASE endInError
  BY <1>8, ErrorBegins DEF AtCompiling
<1> QED
  BY <1>3, <1>4, <1>5, <1>6, <1>7, <1>8

LEMMA RunningNext ==
  ASSUME Idle("running"), Next
  PROVE  (Consistent' /\ (AtRunning' \/ AtStart')) \/ strayed'
<1>1. todo = <<>> /\ frames # <<>> /\ compilers = <<>>
  BY DEF Idle, Level
<1>2. ~interpret
  BY <1>1 DEF interpret
<1>3. \/ pushValue \/ OP_POP \/ OP_DEFINE_GLOBAL \/ OP_SET_GLOBAL \/ OP_ADD
      \/ OP_GET_PROPERTY \/ OP_SET_PROPERTY \/ OP_GET_SUPER \/ OP_CALL \/ OP_INVOKE
      \/ OP_CLOSURE \/ OP_CLOSE_UPVALUE \/ OP_RETURN \/ OP_CLASS \/ OP_INHERIT \/ OP_METHOD
      \/ operandError
  BY <1>1, <1>2, Begun, NoCompilation
<1>4. \A mode : Idle(mode)' => Consistent'
  BY DEF Idle
<1>5. CASE pushValue
  BY <1>4, <1>5, PushValueKeeps DEF AtRunning
<1>6. CASE OP_POP
  BY <1>4, <1>6, PopKeeps DEF AtRunning
<1>7. CASE OP_DEFINE_GLOBAL
  BY <1>7, DefineBegins DEF AtRunning
<1>8. CASE OP_SET_GLOBAL
  BY <1>8, SetGlobalBegins DEF AtRunning
<1>9. CASE OP_ADD
  BY <1>9, AddBegins DEF AtRunning
<1>10. CASE OP_GET_PROPERTY
  BY <1>4, <1>10, GetPropertyBegins DEF AtRunning
<1>11. CASE OP_SET_PROPERTY
  BY <1>11, SetPropertyBegins DEF AtRunning
<1>12. CASE OP_GET_SUPER
  BY <1>12, GetSuperBegins DEF AtRunning
<1>13. CASE OP_CALL
  BY <1>13, OpCallBegins DEF AtRunning
<1>14. CASE OP_INVOKE
  BY <1>14, InvokeBegins DEF AtRunning
<1>15. CASE OP_CLOSURE
  BY <1>15, ClosureBegins DEF AtRunning
<1>16. CASE OP_CLOSE_UPVALUE
  BY <1>4, <1>16, CloseKeeps DEF AtRunning
<1>17. CASE OP_RETURN
  BY <1>4, <1>17, ReturnKeeps DEF AtRunning, AtStart
<1>18. CASE OP_CLASS
  BY <1>18, ClassBegins DEF AtRunning
<1>19. CASE OP_INHERIT
  BY <1>19, InheritBegins DEF AtRunning
<1>20. CASE OP_METHOD
  BY <1>20, MethodBegins DEF AtRunning
<1>21. CASE operandError
  BY <1>1, <1>4, <1>21, ErrorEnds DEF operandError, Idle, Consistent, AtStart
<1> QED
  BY <1>3, <1>5, <1>6, <1>7, <1>8, <1>9, <1>10, <1>11, <1>12, <1>13, <1>14, <1>15, <1>16, <1>17,
     <1>18, <1>19, <1>20, <1>21

LEMMA StartNext ==
  ASSUME Consistent, Next, AtStart
  PROVE  Consistent' /\ (AtStart' \/ AtCompiling')
<1>1. \A mode : Idle(mode)' => Consistent'
  BY DEF Idle
<1>2. CASE InInit
  BY <1>2, InitNext DEF AtStart
<1>3. CASE InNative
  BY <1>3, NativeNext DEF AtStart
<1>4. CASE Popping("alone")
  BY <1>4, PoppingNext DEF AtStart
<1>5. CASE Idle("alone")
  BY <1>5, AloneNext DEF AtCompiling
<1> QED
  BY <1>2, <1>3, <1>4, <1>5 DEF AtStart

LEMMA CompilationNext ==
  ASSUME Consistent, Next, AtCompiling
  PROVE  Consistent' /\ (AtStart' \/ AtCompiling' \/ AtRunning')
<1>1. \A mode : Idle(mode)' => Consistent'
  BY DEF Idle
<1>2. CASE InCompiler("alone", <<>>)
  <2>1. PICK K : K = <<>>
    OBVIOUS
  <2>2. IsCode(K) /\ Wanted(K) = {}
    BY <2>1, NoCode
  <2>3. Consistent' /\ (InCompiler("alone", K)' \/ (todo' = K /\ Level("compiling", 0)'))
    BY <1>2, <2>1, <2>2, CompilerNext
  <2> QED
    BY <2>1, <2>3 DEF AtCompiling, Idle
<1>3. CASE InCompiler("compiling", copies(named))
  <2>1. IsCode(copies(named)) /\ Wanted(copies(named)) = {}
    BY NameCode
  <2>2. /\ Consistent'
        /\ \/ InCompiler("compiling", copies(named))'
           \/ (todo' = copies(named) /\ Level("compiling", 0)')
    BY <1>3, <2>1, CompilerNext
  <2> QED
    BY <2>2 DEF AtCompiling, InName, InString
<1>4. CASE InName
  BY <1>4, NameNext DEF AtCompiling
<1>5. CASE InStringConstant
  BY <1>5, StringConstantNext DEF AtCompiling
<1>6. CASE InFunction
  BY <1>6, FunctionNext DEF AtCompiling
<1>7. CASE InExecute
  BY <1>1, <1>7, ExecuteNext DEF AtCompiling, AtRunning, AtStart
<1>8. CASE InError
  BY <1>8, ErrorNext DEF AtCompiling, AtStart
<1>9. CASE Idle("compiling")
  BY <1>9, CompilingNext
<1> QED
  BY <1>2, <1>3, <1>4, <1>5, <1>6, <1>7, <1>8, <1>9 DEF AtCompiling

LEMMA ExecutionNext ==
  ASSUME Consistent, Next, AtRunning
  PROVE  (Consistent' /\ (AtStart' \/ AtRunning')) \/ strayed'
<1>1. \A mode : Idle(mode)' => Consistent'
  BY DEF Idle
<1>2. CASE InConcatenate
  BY <1>2, ConcatenateNext DEF AtRunning
<1>3. CASE InBind
  BY <1>3, BindNext DEF AtRunning
<1>4. CASE InGlobal
  BY <1>1, <1>4, GlobalNext DEF AtRunning, AtStart
<1>5. CASE InField
  BY <1>5, FieldNext DEF AtRunning
<1>6. CASE InMethod
  BY <1>6, MethodNext DEF AtRunning
<1>7. CASE InClass
  BY <1>7, ClassNext DEF AtRunning
<1>8. CASE InInherit
  BY <1>8, InheritLoopNext DEF AtRunning
<1>9. CASE InClosure
  BY <1>9, ClosureNext DEF AtRunning
<1>10. ASSUME NEW n \in Nat, InCall(n)
       PROVE  Consistent' /\ (AtStart' \/ AtRunning')
  BY <1>1, <1>10, CallNext DEF AtRunning, AtStart
<1>11. CASE Popping("running")
  BY <1>11, PoppingNext DEF AtRunning
<1>12. CASE Idle("running")
  BY <1>12, RunningNext
<1> QED
  BY <1>2, <1>3, <1>4, <1>5, <1>6, <1>7, <1>8, <1>9, <1>10, <1>11, <1>12 DEF AtRunning

LEMMA InitHolds ==
  ASSUME Init
  PROVE  IInv
<1>1. /\ heap = Empty /\ strings = {} /\ stack = <<>> /\ frames = <<>> /\ openUpvalues = {}
      /\ globals = Empty /\ compilers = <<>> /\ initString = 0 /\ locals = Empty
  BY DEF Init
<1>2. DOMAIN Empty = {} /\ Range(Empty) = {}
  BY ToSetIs DEF Empty
<1>3. HeapOK
  BY <1>1, <1>2, FS_EmptySet DEF HeapOK
<1>5. RootsOK
  <2>1. ToSet(<<>>) = {}
    BY ToSets
  <2>2. stack \in Seq(Nat) /\ compilers \in Seq(Nat) /\ frames \in Seq([closure : Nat, slots : Nat \ {0}])
    BY <1>1
  <2>3. ToSet(stack) = {} /\ ToSet(compilers) = {} /\ ToSet(frames) = {}
    BY <1>1, <2>1
  <2> QED
    BY <1>1, <1>2, <2>2, <2>3 DEF RootsOK, Live
<1>6. PICK K : K = copies(setInitString)
  OBVIOUS
<1>7. todo = K
  BY <1>6, InitCode DEF Init
<1>8. IsCode(K) /\ Wanted(K) = {}
  <2>1. IsCode(setInitString) /\ Wanted(setInitString) = {"string"}
    BY NativeCode
  <2> QED
    BY <1>6, <2>1, StringCode
<1>9. LocalsOK
  BY <1>1, <1>7, <1>8 DEF LocalsOK, Empty
<1>10. Level("alone", 0)
  <2>1. Len(<<>>) = 0
    OBVIOUS
  <2> QED
    BY <1>1, <2>1 DEF Level, Bare
<1>11. InInit
  BY <1>6, <1>7, <1>10 DEF InInit, InString
<1> QED
  BY <1>3, <1>5, <1>9, <1>11 DEF IInv, Consistent, AtStart

LEMMA NextKeeps ==
  ASSUME IInv, Next
  PROVE  IInv' \/ strayed'
<1>2. CASE Consistent /\ AtStart
  BY <1>2, StartNext DEF IInv
<1>3. CASE Consistent /\ AtCompiling
  BY <1>3, CompilationNext DEF IInv
<1>4. CASE Consistent /\ AtRunning
  BY <1>4, ExecutionNext DEF IInv
<1> QED
  BY <1>2, <1>3, <1>4 DEF IInv

(* A step that changes nothing keeps each of the places.                   *)
Same ==
  /\ UNCHANGED <<heap, stack, frames, compilers, locals, todo>>
  /\ \A mode, n : Level(mode, n) <=> Level(mode, n)'
  /\ \A j : Top(j)' = Top(j)
  /\ \A x : Kept(x) => Kept(x)'
  /\ \A x, type : Is(x, type) => Is(x, type)'
  /\ \A x, name, key : Has(x, name, key) => Has(x, name, key)' /\ Ref(x, name, key)' = Ref(x, name, key)
  /\ Consistent => Consistent'

LEMMA SameState ==
  ASSUME HeapOK, RootsOK, UNCHANGED vars
  PROVE  Same
<1>1. UNCHANGED <<heap, strings, stack, frames, openUpvalues, globals, compilers, initString, locals, todo>>
  BY DEF vars, machine
<1>2. Stays
  BY <1>1, NothingChanges
<1>3. \A mode, n : Level(mode, n) <=> Level(mode, n)'
  BY <1>1, LevelStays
<1>4. \A j : Top(j)' = Top(j)
  BY <1>1 DEF Top
<1>5. \A x, type : Is(x, type) => Is(x, type)'
  BY <1>1 DEF Is
<1>6. \A x, name, key : Has(x, name, key) => Has(x, name, key)' /\ Ref(x, name, key)' = Ref(x, name, key)
  BY <1>1 DEF Has, Ref
<1>9. HeapOK'
  BY <1>1, HeapStays
<1>10. RootsOK'
  BY <1>1, RootsStay DEF Is
<1>11. LocalsOK => LocalsOK'
  BY <1>1 DEF LocalsOK, Live
<1>13. Consistent => Consistent'
  BY <1>9, <1>10, <1>11 DEF Consistent
<1>14. \A x : Kept(x) => Kept(x)'
  BY <1>2 DEF Stays
<1> QED
  BY <1>1, <1>3, <1>4, <1>5, <1>6, <1>13, <1>14 DEF Same

LEMMA StringsStay ==
  ASSUME Same, NEW mode, NEW n, NEW K, InString(mode, n, K)
  PROVE  InString(mode, n, K)'
<1>1. todo' = todo /\ locals' = locals /\ Top(0)' = Top(0)
  BY DEF Same
<1>2. \A k : Level(mode, k) => Level(mode, k)'
  BY DEF Same
<1> QED
  BY <1>1, <1>2 DEF InString

LEMMA StartStays ==
  ASSUME Same, Consistent, AtStart
  PROVE  AtStart'
<1>1. todo' = todo /\ locals' = locals /\ Top(0)' = Top(0) /\ Top(1)' = Top(1) /\ Consistent'
  BY DEF Same
<1>2. \A mode, k : Level(mode, k) => Level(mode, k)'
  BY DEF Same
<1>3. CASE InInit
  BY <1>1, <1>2, <1>3, StringsStay DEF InInit, AtStart
<1>4. CASE InNative
  BY <1>1, <1>2, <1>4, StringsStay DEF InNative, AtStart
<1>5. CASE Popping("alone")
  BY <1>1, <1>2, <1>5 DEF Popping, AtStart
<1>6. CASE Idle("alone")
  BY <1>1, <1>2, <1>6 DEF Idle, AtStart
<1> QED
  BY <1>3, <1>4, <1>5, <1>6 DEF AtStart

LEMMA CompilationStays ==
  ASSUME Same, Consistent, AtCompiling
  PROVE  AtCompiling'
<1>1. /\ todo' = todo /\ locals' = locals /\ compilers' = compilers
      /\ Top(0)' = Top(0) /\ Top(1)' = Top(1) /\ Consistent'
  BY DEF Same
<1>2. \A mode, k : Level(mode, k) => Level(mode, k)'
  BY DEF Same
<1>3. CASE InCompiler("alone", <<>>)
  BY <1>1, <1>2, <1>3 DEF InCompiler, AtCompiling
<1>4. CASE InCompiler("compiling", copies(named))
  BY <1>1, <1>2, <1>4 DEF InCompiler, AtCompiling
<1>5. CASE InName
  BY <1>1, <1>2, <1>5, StringsStay DEF InName, AtCompiling
<1>6. \A v, T : InConstant(v, T) => InConstant(v, T)'
  <2>1. \A x : IsConstant(x) => IsConstant(x)'
    BY <1>1 DEF Same, IsConstant
  <2>2. ASSUME NEW v, NEW T, InConstant(v, T) PROVE InConstant(v, T)'
    <3>1. PICK x : x = locals[v]
      OBVIOUS
    <3>2. IsConstant(x) => IsConstant(x)'
      BY <2>1
    <3>3. locals'[v] = x
      BY <1>1, <3>1
    <3> QED
      BY <1>1, <1>2, <2>2, <3>1, <3>2, <3>3 DEF InConstant
  <2> QED
    BY <2>2
<1>7. CASE InStringConstant
  BY <1>6, <1>7, StringsStay DEF InStringConstant, AtCompiling
<1>8. \A K : InEnding(K) => InEnding(K)'
  BY <1>1, <1>2 DEF InEnding
<1>9. CASE InFunction
  BY <1>1, <1>2, <1>6, <1>8, <1>9 DEF InFunction, AtCompiling
<1>10. CASE InExecute
  <2>1. HasClosure => HasClosure'
    <3>1. PICK x : x = locals["closure"]
      OBVIOUS
    <3>2. Is(x, "closure") => Is(x, "closure")'
      BY DEF Same
    <3> QED
      BY <1>1, <3>1, <3>2 DEF HasClosure
  <2> QED
    BY <1>1, <1>2, <1>8, <1>10, <2>1 DEF InExecute, AtCompiling
<1>11. CASE InError
  BY <1>1, <1>8, <1>11 DEF InError, AtCompiling
<1>12. CASE Idle("compiling")
  BY <1>1, <1>2, <1>12 DEF Idle, AtCompiling
<1> QED
  BY <1>3, <1>4, <1>5, <1>7, <1>9, <1>10, <1>11, <1>12 DEF AtCompiling

LEMMA RunningStays ==
  ASSUME Same, Consistent, AtRunning
  PROVE  AtRunning'
<1>1. /\ todo' = todo /\ locals' = locals /\ stack' = stack /\ frames' = frames
      /\ \A j : Top(j)' = Top(j)
      /\ Consistent'
  BY DEF Same
<1>2. \A mode, k : Level(mode, k) => Level(mode, k)'
  BY DEF Same
<1>3. \A v : /\ Kept(locals[v]) => Kept(locals[v])'
             /\ \A type : Is(locals[v], type) => Is(locals[v], type)'
  <2>1. ASSUME NEW v
        PROVE  /\ Kept(locals[v]) => Kept(locals[v])'
               /\ \A type : Is(locals[v], type) => Is(locals[v], type)'
    <3>1. PICK x : x = locals[v]
      OBVIOUS
    <3>2. /\ Kept(x) => Kept(x)'
          /\ \A type : Is(x, type) => Is(x, type)'
      BY DEF Same
    <3>3. x = locals'[v]
      BY <1>1, <3>1
    <3> QED
      BY <3>1, <3>2, <3>3
  <2> QED
    BY <2>1
<1>4. CASE InConcatenate
  BY <1>1, <1>2, <1>4, StringsStay DEF InConcatenate, AtRunning
<1>5. CASE InBind
  BY <1>1, <1>2, <1>3, <1>5 DEF InBind, AtRunning
<1>6. CASE InGlobal
  BY <1>1, <1>2, <1>3, <1>6 DEF InGlobal, AtRunning
<1>7. CASE InField
  BY <1>1, <1>2, <1>3, <1>7 DEF InField, AtRunning
<1>8. CASE InMethod
  BY <1>1, <1>2, <1>3, <1>8 DEF InMethod, AtRunning
<1>9. CASE InClass
  BY <1>1, <1>2, <1>3, <1>9 DEF InClass, AtRunning
<1>10. CASE InInherit
  <2>1. ASSUME NEW keys, NEW i, CopiesAt(keys, i) PROVE CopiesAt(keys, i)'
    <3>1. PICK x : x = Top(1)
      OBVIOUS
    <3>2. \A k : Has(x, "methods", k) => Has(x, "methods", k)'
      BY DEF Same
    <3>3. x = Top(1)'
      BY <1>1, <3>1
    <3>4. \A k : Has(Top(1), "methods", k) => Has(Top(1), "methods", k)'
      BY <3>1, <3>2, <3>3
    <3> QED
      BY <1>1, <1>2, <2>1, <3>4 DEF CopiesAt
  <2> QED
    BY <1>10, <2>1 DEF InInherit, AtRunning
<1>11. CASE InClosure
  <2>1. ASSUME NEW captures, NEW l, CapturesOK(captures, l) PROVE CapturesOK(captures, l)'
    <3>1. PICK x : x = Last(frames).closure
      OBVIOUS
    <3>2. \A k : Has(x, "upvalues", k) => Has(x, "upvalues", k)'
      BY DEF Same
    <3>3. x = Last(frames').closure
      BY <1>1, <3>1
    <3> QED
      BY <1>1, <2>1, <3>1, <3>2, <3>3 DEF CapturesOK
  <2>2. ASSUME NEW captures, MakesAt(captures) PROVE MakesAt(captures)'
    BY <1>1, <1>2, <1>3, <2>1, <2>2 DEF MakesAt
  <2>3. ASSUME NEW captures, Filling(captures) PROVE Filling(captures)'
    BY <1>1, <1>2, <2>1, <2>3 DEF Filling
  <2>4. ASSUME NEW captures, NEW i, FillsAt(captures, i) PROVE FillsAt(captures, i)'
    BY <1>1, <1>3, <2>3, <2>4 DEF FillsAt
  <2> QED
    BY <1>11, <2>2, <2>4 DEF InClosure, AtRunning
<1>12. ASSUME NEW n \in Nat, InCall(n) PROVE InCall(n)'
  <2>1. ASSUME NEW K, Ready(K, n) PROVE Ready(K, n)'
    BY <1>1, <1>3, <2>1 DEF Ready
  <2> QED
    BY <1>1, <1>2, <1>3, <1>12, <2>1 DEF InCall
<1>13. CASE Popping("running")
  BY <1>1, <1>2, <1>13 DEF Popping, AtRunning
<1>14. CASE Idle("running")
  BY <1>1, <1>2, <1>14 DEF Idle, AtRunning
<1> QED
  BY <1>4, <1>5, <1>6, <1>7, <1>8, <1>9, <1>10, <1>11, <1>12, <1>13, <1>14 DEF AtRunning

LEMMA StutteringKeeps ==
  ASSUME IInv, UNCHANGED vars
  PROVE  IInv'
<1>1. HeapOK /\ RootsOK
  BY DEF IInv, Consistent
<1>2. Same
  BY <1>1, SameState
<1>3. Consistent => Consistent'
  BY <1>2 DEF Same
<1>5. CASE Consistent /\ AtStart
  BY <1>2, <1>3, <1>5, StartStays DEF IInv
<1>6. CASE Consistent /\ AtCompiling
  BY <1>2, <1>3, <1>6, CompilationStays DEF IInv
<1>7. CASE Consistent /\ AtRunning
  BY <1>2, <1>3, <1>7, RunningStays DEF IInv
<1> QED
  BY <1>5, <1>6, <1>7 DEF IInv

LEMMA NothingIsFreed ==
  ASSUME IInv
  PROVE  NothingUsedIsFreed
<1>1. HeapOK /\ RootsOK /\ LocalsOK
  BY DEF IInv, Consistent
<1>2. Range(locals) \subseteq Live
  <2>1. DOMAIN locals = Wanted(todo) /\ \A v \in Wanted(todo) : locals[v] \in Live
    BY <1>1 DEF LocalsOK
  <2> QED
    BY <2>1, ToSetIs
<1>3. /\ ToSet(stack) \cup {f.closure : f \in ToSet(frames)} \cup {u.at : u \in openUpvalues}
           \cup DOMAIN globals \cup Range(globals)
           \cup ToSet(compilers) \cup {initString} \cup strings \subseteq Live
  BY <1>1 DEF RootsOK, Live
<1>4. \A a \in DOMAIN heap : \A field \in DOMAIN heap[a].refs :
        /\ heap[a].refs[field] \in DOMAIN heap \cup {0}
        /\ field[1] \in Tables => field[2] \in DOMAIN heap
  BY <1>1 DEF HeapOK, ObjectOK, Live
<1> QED
  BY <1>2, <1>3, <1>4 DEF NothingUsedIsFreed, Live

LEMMA StrayedStays ==
  ASSUME strayed, [Next]_vars
  PROVE  strayed'
<1>1. CASE UNCHANGED vars
  BY <1>1 DEF vars
<1>2. \A steps : Doing(steps) => strayed'
  BY DEF Doing
<1>3. \A action : Begins(action) => strayed'
  BY DEF Begins
<1>4. \A u : Reads(u) => strayed'
  BY DEF Reads
<1>5. CASE \/ collectGarbage \/ enlarge \/ allocateObject \/ find \/ intern \/ endCurrent
  BY <1>2, <1>5 DEF collectGarbage, enlarge, allocateObject, find, intern, endCurrent
<1>6. CASE moveStack
  BY <1>2, <1>6 DEF moveStack
<1>7. CASE setRoot \/ setReference \/ upvalueStep
  BY <1>2, <1>7 DEF setRoot, setReference, upvalueStep
<1>8. CASE call
  BY <1>2, <1>8 DEF call
<1>9. CASE interpret \/ stringConstant \/ beginFunction \/ endFunction \/ endCompile \/ endInError
  BY <1>3, <1>9 DEF interpret, stringConstant, beginFunction, endFunction, endCompile, endInError
<1>10. CASE OP_POP \/ OP_DEFINE_GLOBAL \/ OP_SET_GLOBAL \/ OP_ADD \/ operandError
  BY <1>3, <1>10 DEF OP_POP, OP_DEFINE_GLOBAL, OP_SET_GLOBAL, OP_ADD, operandError
<1>11. CASE OP_GET_PROPERTY \/ OP_SET_PROPERTY \/ OP_CALL \/ OP_INVOKE
  BY <1>3, <1>11 DEF OP_GET_PROPERTY, OP_SET_PROPERTY, OP_CALL, OP_INVOKE
<1>12. CASE OP_CLOSURE \/ OP_CLOSE_UPVALUE \/ OP_RETURN
  BY <1>3, <1>12 DEF OP_CLOSURE, OP_CLOSE_UPVALUE, OP_RETURN
<1>13. CASE OP_CLASS \/ OP_INHERIT \/ OP_METHOD
  BY <1>3, <1>13 DEF OP_CLASS, OP_INHERIT, OP_METHOD
<1>14. CASE pushValue
  BY <1>4, <1>14 DEF pushValue
<1>15. CASE OP_GET_SUPER
  BY <1>4, <1>15 DEF OP_GET_SUPER
<1> QED
  BY <1>1, <1>5, <1>6, <1>7, <1>8, <1>9, <1>10, <1>11, <1>12, <1>13, <1>14, <1>15 DEF Next

(* No function of object.c, vm.c, compiler.c, chunk.c and value.c goes on  *)
(* to use an object that an allocation in the midst of it collected, and   *)
(* nothing that stays refers to one: whatever the programs and the lines   *)
(* of the REPL, however they end, however often reallocate() collects, and *)
(* whatever the number of upvalues, for as long as no instruction reads a  *)
(* slot above stackTop through an upvalue that a runtime error left open.  *)
(* A script from a file ends at its first error and never does.            *)
THEOREM FreesNothingUsed == Spec => []NothingUsedIsFreed
<1>1. Init => IInv \/ strayed
  BY InitHolds
<1>2. (IInv \/ strayed) /\ [Next]_vars => (IInv \/ strayed)'
  BY NextKeeps, StutteringKeeps, StrayedStays
<1>3. IInv \/ strayed => NothingUsedIsFreed
  BY NothingIsFreed DEF NothingUsedIsFreed
<1> QED
  BY <1>1, <1>2, <1>3, PTL DEF Spec
=============================================================================
