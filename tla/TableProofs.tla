---------------------------- MODULE TableProofs ----------------------------
(***************************************************************************)
(* Proofs about the hash table, for every set of keys, every hash function *)
(* and every size: the loop of findEntry always has a slot to stop at, a   *)
(* probe finds every key that is stored, and the table implements a map.   *)
(***************************************************************************)
EXTENDS Table, FiniteSetTheorems, WellFoundedInduction, TLAPS

----------------------------------------------------------------------------
(* Probing.                                                                *)

LEMMA HomeInRange ==
  ASSUME NEW k \in Key, NEW m \in Nat
  PROVE  Home(k, m) \in 0..m
BY TableAssumption DEF Home

(* Each slot is at a distance of its own. *)
LEMMA DistanceInjective ==
  ASSUME NEW m \in Nat, NEW h \in 0..m, NEW i \in 0..m, NEW j \in 0..m
  PROVE  /\ Distance(h, i, m) \in 0..m
         /\ Distance(h, i, m) = Distance(h, j, m) => i = j
BY DEF Distance

(* A set of slots that is not empty has a member that the probe reaches first. *)
LEMMA FirstProbedIsFirst ==
  ASSUME NEW k \in Key, NEW m \in Nat, NEW S \in SUBSET (0..m), S # {}
  PROVE  /\ FirstProbed(k, m, S) \in S
         /\ \A j \in S : Distance(Home(k, m), FirstProbed(k, m, S), m)
                           <= Distance(Home(k, m), j, m)
<1> DEFINE d(i) == Distance(Home(k, m), i, m)
           T    == {d(i) : i \in S}
<1>1. \A i \in S : d(i) \in Nat
  BY HomeInRange, DistanceInjective
<1>2. T \subseteq Nat /\ T # {}
  BY <1>1
<1> HIDE DEF T
<1>3. PICK x \in T : \A y \in T : <<y, x>> \notin OpToRel(<, Nat)
  BY <1>2, NatLessThanWellFounded, WFMin
<1> USE DEF T
<1>4. PICK i \in S : d(i) = x
  BY <1>3
<1>5. \A j \in S : d(i) <= d(j)
  <2>1. SUFFICES ASSUME NEW j \in S, d(j) < d(i) PROVE FALSE
    BY <1>1
  <2>2. <<d(j), d(i)>> \in OpToRel(<, Nat)
    BY <2>1, <1>1 DEF OpToRel
  <2> QED
    BY <2>2, <1>3, <1>4
<1> QED
  BY <1>5 DEF FirstProbed

----------------------------------------------------------------------------
(* Arrays of slots.  An array is sound when no key is in two slots and the *)
(* way of the probe from a key's home to its slot crosses no free slot.    *)

Array(m) == [0..m -> Entry]

Unique(E) ==
  \A i, j \in DOMAIN E : E[i].key # NULL /\ E[i].key = E[j].key => i = j

NoGap(E, m, k, i) ==
  \A j \in 0..m :
    Distance(Home(k, m), j, m) < Distance(Home(k, m), i, m) => E[j] # Free

Chained(E, m) ==
  \A i \in 0..m : E[i].key # NULL => NoGap(E, m, E[i].key, i)

Sound(E, m) == Unique(E) /\ Chained(E, m)

LEMMA EntryFacts ==
  ASSUME NEW e \in Entry
  PROVE  /\ e.key \in Key \cup {NULL}
         /\ e.value \in Value
         /\ e.key # NULL => e \in Occupied
         /\ e.key = NULL => e \in {Free, Tombstone}
         /\ (e.key = NULL /\ e.value = NIL) <=> e = Free
BY TableAssumption DEF Entry, Occupied, Free, Tombstone

LEMMA SpecialEntries ==
  /\ Free \in Entry /\ Tombstone \in Entry /\ Free # Tombstone
  /\ Free.key = NULL /\ Tombstone.key = NULL
  /\ NULL \notin Key
  /\ \A k \in Key, v \in Value :
       /\ [key |-> k, value |-> v] \in Entry
       /\ [key |-> k, value |-> v] # Free
BY TableAssumption DEF Entry, Occupied, Free, Tombstone

(* Where findEntry arrives: at the key if the array holds it, else at a    *)
(* slot that holds none; and it crosses no free slot on its way.           *)
LEMMA findEntryArrives ==
  ASSUME NEW m \in Nat, NEW E \in Array(m), NEW k \in Key,
         Sound(E, m), \E i \in 0..m : E[i] = Free,
         NEW f, f = findEntry(E, m, k)
  PROVE  /\ f \in 0..m
         /\ E[f].key \in {k, NULL}
         /\ \A i \in 0..m : E[i].key = k => i = f
         /\ NoGap(E, m, k, f)
<1> DEFINE h      == Home(k, m)
           d(i)   == Distance(h, i, m)
           stops  == Stops(E, k)
           stop   == FirstProbed(k, m, stops)
           passed == {i \in 0..m : E[i] = Tombstone /\ d(i) < d(stop)}
<1>1. DOMAIN E = 0..m /\ \A i \in 0..m : E[i] \in Entry
  BY DEF Array
<1>2. stops \in SUBSET (0..m) /\ stops # {}
  BY <1>1 DEF Stops, Slots
<1>3. /\ stop \in stops
      /\ \A j \in stops : d(stop) <= d(j)
  BY <1>2, FirstProbedIsFirst
<1>4. \A i \in 0..m : d(i) \in Nat
  BY HomeInRange, DistanceInjective
<1>5. \A i \in 0..m : d(i) < d(stop) => i \notin stops
  BY <1>2, <1>3, <1>4
<1>6. NoGap(E, m, k, stop)
  BY <1>1, <1>5 DEF NoGap, Stops, Slots
<1>7. E[stop].key \in {k, NULL} /\ stop \in 0..m
  BY <1>1, <1>3, SpecialEntries DEF Stops, Slots
<1>8. ASSUME NEW i \in 0..m, E[i].key = k
      PROVE  i = stop /\ E[stop].key = k
  <2>1. i \in stops
    BY <1>1, <1>8 DEF Stops, Slots
  <2>2. CASE d(stop) < d(i)
    <3>1. E[stop] # Free
      BY <2>2, <1>7, <1>8, SpecialEntries DEF Sound, Chained, NoGap
    <3>2. E[stop].key = k
      BY <3>1, <1>1, <1>3 DEF Stops, Slots
    <3> QED
      BY <3>2, <1>1, <1>7, <1>8, SpecialEntries DEF Sound, Unique
  <2>3. CASE d(stop) = d(i)
    <3>1. stop = i
      BY <2>3, <1>7, HomeInRange, DistanceInjective
    <3> QED
      BY <3>1, <1>8
  <2> QED
    BY <2>1, <2>2, <2>3, <1>3, <1>4, <1>7
<1>9. f = IF E[stop].key = k \/ passed = {} THEN stop
          ELSE FirstProbed(k, m, passed)
  BY <1>1 DEF findEntry, Slots
<1>10. CASE E[stop].key = k \/ passed = {}
  BY <1>10, <1>6, <1>7, <1>8, <1>9
<1>11. CASE ~(E[stop].key = k \/ passed = {})
  <2> DEFINE p == FirstProbed(k, m, passed)
  <2>1. passed \in SUBSET (0..m) /\ passed # {}
    BY <1>11
  <2>2. p \in passed
    BY <2>1, FirstProbedIsFirst
  <2>3. f = p /\ p \in 0..m /\ E[p] = Tombstone /\ d(p) < d(stop)
    BY <2>2, <1>9, <1>11
  <2>4. NoGap(E, m, k, p)
    BY <2>3, <1>4, <1>6, <1>7 DEF NoGap
  <2> QED
    BY <2>3, <2>4, <1>8, <1>11, SpecialEntries
<1> QED
  BY <1>10, <1>11

----------------------------------------------------------------------------
(* Writing to a slot.                                                      *)

(* A store where findEntry arrives keeps an array sound. *)
LEMMA StoreKeepsSound ==
  ASSUME NEW m \in Nat, NEW E \in Array(m), NEW k \in Key, NEW v \in Value,
         Sound(E, m), \E i \in 0..m : E[i] = Free,
         NEW f, f = findEntry(E, m, k),
         NEW F \in Array(m),
         F[f] = [key |-> k, value |-> v],
         \A i \in 0..m : i # f => F[i] = E[i]
  PROVE  /\ Sound(F, m)
         /\ Used(F) = Used(E) \cup {f}
<1>1. /\ f \in 0..m
      /\ E[f].key \in {k, NULL}
      /\ \A i \in 0..m : E[i].key = k => i = f
      /\ NoGap(E, m, k, f)
  BY findEntryArrives
<1>2. DOMAIN E = 0..m /\ DOMAIN F = 0..m
  BY DEF Array
<1>3. F[f].key = k /\ F[f] # Free
  BY SpecialEntries
<1>4. Unique(F)
  BY <1>1, <1>2, <1>3 DEF Unique, Sound
<1>5. \A i \in 0..m : E[i] # Free => F[i] # Free
  BY <1>3
<1>6. Chained(F, m)
  BY <1>1, <1>3, <1>5 DEF Chained, NoGap, Sound
<1>7. Used(F) = Used(E) \cup {f}
  BY <1>1, <1>2, <1>3 DEF Used, Slots
<1> QED
  BY <1>4, <1>6, <1>7 DEF Sound

(* So does a tombstone on any slots that hold keys. *)
LEMMA BuryKeepsSound ==
  ASSUME NEW m \in Nat, NEW E \in Array(m), Sound(E, m),
         NEW D \in SUBSET (0..m), \A i \in D : E[i].key # NULL,
         NEW F, F = [i \in DOMAIN E |-> IF i \in D THEN Tombstone ELSE E[i]]
  PROVE  /\ F \in Array(m)
         /\ Sound(F, m)
         /\ Used(F) = Used(E)
<1>1. DOMAIN E = 0..m /\ DOMAIN F = 0..m
  BY DEF Array
<1>2. F \in Array(m)
  BY <1>1, SpecialEntries DEF Array
<1>3. \A i \in 0..m : /\ i \in D => F[i] = Tombstone /\ E[i] # Free
                      /\ i \notin D => F[i] = E[i]
  BY <1>1, SpecialEntries
<1>4. \A i \in 0..m : F[i].key # NULL => F[i] = E[i]
  BY <1>3, SpecialEntries
<1>5. \A i \in 0..m : F[i] = Free <=> E[i] = Free
  BY <1>3, SpecialEntries
<1>6. Sound(F, m)
  BY <1>1, <1>4, <1>5 DEF Sound, Unique, Chained, NoGap
<1>7. Used(F) = Used(E)
  BY <1>1, <1>5 DEF Used, Slots
<1> QED
  BY <1>2, <1>6, <1>7

LEMMA EmptyArrayIsSound ==
  ASSUME NEW m \in Nat
  PROVE  /\ EmptyArray(m + 1) \in Array(m)
         /\ Sound(EmptyArray(m + 1), m)
         /\ Used(EmptyArray(m + 1)) = {}
BY SpecialEntries
   DEF EmptyArray, Array, Sound, Unique, Chained, Used, Slots

(* Used slots are finitely many, and fewer than the array has while the    *)
(* load is below one.                                                      *)
LEMMA UsedIsFinite ==
  ASSUME NEW m \in Nat \cup {-1}, NEW E \in Array(m)
  PROVE  /\ IsFiniteSet(Used(E))
         /\ Cardinality(Used(E)) \in Nat
         /\ Cardinality(Slots(E)) = m + 1
         /\ Cardinality(Used(E)) < m + 1 => \E i \in 0..m : E[i] = Free
<1>1. Slots(E) = 0..m
  BY DEF Slots, Array
<1>2. IsFiniteSet(0..m) /\ Cardinality(0..m) = m + 1
  BY FS_Interval
<1>3. Used(E) \in SUBSET (0..m)
  BY <1>1 DEF Used
<1>4. IsFiniteSet(Used(E))
  BY <1>2, <1>3, FS_Subset
<1>5. Cardinality(Used(E)) \in Nat
  BY <1>4, FS_CardinalityType
<1>6. ASSUME Cardinality(Used(E)) < m + 1 PROVE \E i \in 0..m : E[i] = Free
  <2>1. Used(E) # 0..m
    BY <1>2, <1>5, <1>6
  <2> QED
    BY <2>1, <1>1, <1>3 DEF Used
<1> QED
  BY <1>1, <1>2, <1>4, <1>5, <1>6

----------------------------------------------------------------------------
(* The inductive invariant.  LoadBounded and LookupFindsEveryKey are not   *)
(* inductive: they need an array that is sound, and of the array that      *)
(* adjustCapacity fills that it holds the keys of the slots it has read,   *)
(* with their values, and nothing else.                                    *)

NewMask == GrowSlots(table.capacity + 1) - 1

Sized ==
  /\ table.capacity = -1 \/ table.capacity + 1 >= MinSlots
  /\ call = Idle => table.count = Cardinality(Used(table.entries))
  /\ call = Idle => 4 * table.count <= 3 * (table.capacity + 1)
  /\ call = Idle => scan = 0
  /\ table.capacity # -1 =>
       \E i \in 0..table.capacity : table.entries[i] = Free

Copied ==
  call # Idle =>
    /\ table.count = Cardinality(Used(fresh))
    /\ table.count <= scan
    /\ Sound(fresh, NewMask)
    /\ \A j \in 0..NewMask : fresh[j] # Tombstone
    /\ \A j \in 0..NewMask : fresh[j].key # NULL =>
         \E i \in 0..table.capacity : i < scan /\ table.entries[i] = fresh[j]
    /\ \A i \in 0..table.capacity :
         i < scan /\ table.entries[i].key # NULL =>
           \E j \in 0..NewMask : fresh[j] = table.entries[i]

IInv ==
  /\ TypeOK
  /\ Sized
  /\ Sound(table.entries, table.capacity)
  /\ Copied

LEMMA TypeFacts ==
  ASSUME TypeOK
  PROVE  /\ table = [count |-> table.count, capacity |-> table.capacity,
                     entries |-> table.entries]
         /\ table.count \in Nat
         /\ table.capacity \in Nat \cup {-1}
         /\ table.entries \in Array(table.capacity)
         /\ scan \in Nat /\ scan <= table.capacity + 1
         /\ GrowSlots(table.capacity + 1) \in Nat
         /\ NewMask \in Nat
         /\ GrowSlots(table.capacity + 1) = NewMask + 1
         /\ call = Idle => fresh \in [0..(-1) -> Entry]
         /\ call # Idle => /\ fresh \in Array(NewMask)
                           /\ call.key \in Key /\ call.value \in Value
<1>1. table \in [count : Nat, capacity : Nat \cup {-1},
                 entries : [0..table.capacity -> Entry]]
  BY DEF TypeOK
<1>2. table.capacity \in Nat \cup {-1}
  BY <1>1
<1>3. NewMask \in Nat /\ GrowSlots(table.capacity + 1) = NewMask + 1
  BY <1>2, TableAssumption DEF NewMask, GrowSlots
<1>4. scan \in Nat /\ scan <= table.capacity + 1
  BY <1>2 DEF TypeOK
<1>5. call = Idle => fresh \in [0..(-1) -> Entry]
  BY DEF TypeOK
<1>6. ASSUME call # Idle
      PROVE  /\ fresh \in Array(NewMask)
             /\ call.key \in Key /\ call.value \in Value
  <2>1. PICK k \in Key, v \in Value : call = Setting(k, v)
    BY <1>6 DEF TypeOK
  <2>2. fresh \in Array(NewMask)
    BY <1>6 DEF TypeOK, Array, NewMask
  <2> QED
    BY <2>1, <2>2 DEF Setting
<1> QED
  BY <1>1, <1>2, <1>3, <1>4, <1>5, <1>6 DEF Array

(* What Lookup reads when no key is in two slots. *)
LEMMA LookupReads ==
  ASSUME NEW m \in Nat \cup {-1}, NEW E \in Array(m), Unique(E), NEW k \in Key
  PROVE  /\ \A i \in 0..m : E[i].key = k =>
              Lookup(E, k) = E[i].value /\ Lookup(E, k) # ABSENT
         /\ (\A i \in 0..m : E[i].key # k) => Lookup(E, k) = ABSENT
<1>1. Slots(E) = 0..m /\ DOMAIN E = 0..m
  BY DEF Slots, Array
<1>2. ASSUME NEW i \in 0..m, E[i].key = k
      PROVE  Lookup(E, k) = E[i].value /\ Lookup(E, k) # ABSENT
  <2>1. \A j \in 0..m : E[j].key = k => j = i
    BY <1>1, <1>2, SpecialEntries DEF Unique
  <2>2. (CHOOSE j \in Slots(E) : E[j].key = k) = i
    BY <2>1, <1>1, <1>2
  <2>3. Lookup(E, k) = E[i].value
    BY <2>2, <1>1, <1>2 DEF Lookup
  <2> QED
    BY <2>3, <1>2, EntryFacts, TableAssumption DEF Array
<1>3. ASSUME \A i \in 0..m : E[i].key # k PROVE Lookup(E, k) = ABSENT
  BY <1>1, <1>3 DEF Lookup
<1> QED
  BY <1>2, <1>3

(* The common end of tableSet and finishSet, on a table t that has room:   *)
(* it keeps what the invariant says of an idle table, and does to the map  *)
(* what Set does.                                                          *)
LEMMA StoreStep ==
  ASSUME NEW t, NEW m \in Nat, NEW E \in Array(m), NEW n \in Nat,
         t = [count |-> n, capacity |-> m, entries |-> E],
         Sound(E, m), n = Cardinality(Used(E)), 4 * (n + 1) <= 3 * (m + 1),
         NEW k \in Key, NEW v \in Value, Store(t, k, v)
  PROVE  /\ table' \in [count : Nat, capacity : {m}, entries : Array(m)]
         /\ Sound(table'.entries, m)
         /\ table'.count = Cardinality(Used(table'.entries))
         /\ 4 * table'.count <= 3 * (m + 1)
         /\ ret' = Result(Lookup(E, k) = ABSENT, ABSENT)
         /\ \A q \in Key : Lookup(table'.entries, q) =
                             IF q = k THEN v ELSE Lookup(E, q)
<1>1. PICK f : f = findEntry(E, m, k)
  OBVIOUS
<1>2. PICK F : F = [E EXCEPT ![f] = [key |-> k, value |-> v]]
  OBVIOUS
<1>3. /\ IsFiniteSet(Used(E))
      /\ \E i \in 0..m : E[i] = Free
  BY UsedIsFinite
<1>4. /\ f \in 0..m
      /\ E[f].key \in {k, NULL}
      /\ \A i \in 0..m : E[i].key = k => i = f
  BY <1>1, <1>3, findEntryArrives
<1>5. /\ F \in Array(m)
      /\ F[f] = [key |-> k, value |-> v]
      /\ \A i \in 0..m : i # f => F[i] = E[i]
  BY <1>2, <1>4, SpecialEntries DEF Array
<1>6. Sound(F, m) /\ Used(F) = Used(E) \cup {f}
  BY <1>1, <1>3, <1>5, StoreKeepsSound
<1>7. /\ table' = [count    |-> IF E[f].key = NULL /\ E[f].value = NIL
                                THEN n + 1 ELSE n,
                   capacity |-> m,
                   entries  |-> F]
      /\ ret' = Result(E[f].key = NULL, ABSENT)
  BY <1>1, <1>2 DEF Store
<1>8. f \in Used(E) <=> ~(E[f].key = NULL /\ E[f].value = NIL)
  BY <1>4, EntryFacts DEF Used, Slots, Array
<1>9. table'.count = Cardinality(Used(F))
  BY <1>3, <1>6, <1>7, <1>8, FS_AddElement
<1>10. 4 * table'.count <= 3 * (m + 1) /\ table'.count \in Nat
  BY <1>7
<1>11. E[f].key = NULL <=> Lookup(E, k) = ABSENT
  BY <1>4, LookupReads, SpecialEntries DEF Sound
<1>12. ASSUME NEW q \in Key
       PROVE  Lookup(F, q) = IF q = k THEN v ELSE Lookup(E, q)
  <2>1. CASE q = k
    BY <1>4, <1>5, <1>6, <2>1, LookupReads DEF Sound
  <2>2. CASE q # k
    <3>1. \A i \in 0..m : E[i].key = q => F[i] = E[i]
      BY <1>4, <1>5, <2>2, SpecialEntries
    <3>2. \A i \in 0..m : F[i].key = q => F[i] = E[i]
      BY <1>5, <2>2
    <3>3. CASE \E i \in 0..m : E[i].key = q
      <4>1. PICK i \in 0..m : E[i].key = q /\ F[i] = E[i]
        BY <3>1, <3>3
      <4>2. Lookup(E, q) = E[i].value
        BY <4>1, LookupReads DEF Sound
      <4>3. Lookup(F, q) = F[i].value
        BY <4>1, <1>5, <1>6, LookupReads DEF Sound
      <4> QED
        BY <4>1, <4>2, <4>3, <2>2
    <3>4. CASE \A i \in 0..m : E[i].key # q
      <4>1. \A i \in 0..m : F[i].key # q
        BY <3>2, <3>4
      <4>2. Lookup(F, q) = ABSENT
        BY <4>1, <1>5, <1>6, LookupReads DEF Sound
      <4>3. Lookup(E, q) = ABSENT
        BY <3>4, LookupReads DEF Sound
      <4> QED
        BY <4>2, <4>3, <2>2
    <3> QED
      BY <3>3, <3>4
  <2> QED
    BY <2>1, <2>2
<1> QED
  BY <1>5, <1>6, <1>7, <1>9, <1>10, <1>11, <1>12

----------------------------------------------------------------------------
(* The steps of the table.                                                 *)

(* An idle table with a key in it has an array with a free slot. *)
LEMMA IdleHasRoom ==
  ASSUME IInv, call = Idle
  PROVE  /\ table.count # 0 => table.capacity \in Nat
         /\ table.capacity \in Nat =>
              \E i \in 0..table.capacity : table.entries[i] = Free
         /\ ~MustGrow => table.capacity \in Nat
<1>1. /\ table.capacity \in Nat \cup {-1}
      /\ table.entries \in Array(table.capacity)
      /\ table.count \in Nat
  BY TypeFacts DEF IInv
<1>2. /\ table.count = Cardinality(Used(table.entries))
      /\ 4 * table.count <= 3 * (table.capacity + 1)
  BY DEF IInv, Sized
<1>3. table.capacity \in Nat =>
        \E i \in 0..table.capacity : table.entries[i] = Free
  BY <1>1, <1>2, UsedIsFinite
<1> QED
  BY <1>1, <1>2, <1>3 DEF MustGrow

(* A table whose call is over is in the invariant when its array is. *)
LEMMA IdleInvariant ==
  ASSUME call' = Idle, scan' = 0, fresh' \in [0..(-1) -> Entry],
         NEW m \in Nat \cup {-1}, m = -1 \/ m + 1 >= MinSlots,
         table' \in [count : Nat, capacity : {m}, entries : Array(m)],
         Sound(table'.entries, m),
         table'.count = Cardinality(Used(table'.entries)),
         4 * table'.count <= 3 * (m + 1),
         ret' \in [ok : BOOLEAN, value : Value \cup {ABSENT}]
  PROVE  IInv'
<1>1. table'.capacity = m /\ table'.entries \in Array(m) /\ table'.count \in Nat
  BY ONLY table' \in [count : Nat, capacity : {m}, entries : Array(m)]
<1>2. table' \in [count : Nat, capacity : Nat \cup {-1}, entries : Array(m)]
  OBVIOUS
<1>3. TypeOK'
  BY <1>1, <1>2 DEF TypeOK, Array
<1>4. m # -1 => \E i \in 0..m : table'.entries[i] = Free
  BY <1>1, UsedIsFinite
<1>5. Sized' /\ Sound(table.entries, table.capacity)' /\ Copied'
  BY <1>1, <1>4 DEF Sized, Copied
<1> QED
  BY <1>3, <1>5 DEF IInv

(* Steps that only answer keep the invariant. *)
LEMMA AnswerStep ==
  ASSUME IInv, UNCHANGED <<table, fresh, scan, call>>,
         ret' \in [ok : BOOLEAN, value : Value \cup {ABSENT}]
  PROVE  IInv'
<1>1. TypeOK'
  BY DEF IInv, TypeOK
<1>2. Sized' /\ Sound(table.entries, table.capacity)' /\ Copied'
  BY DEF IInv, Sized, Copied, NewMask
<1> QED
  BY <1>1, <1>2 DEF IInv

(* What Lookup says of an idle table, by way of findEntry. *)
LEMMA LookupOfTable ==
  ASSUME IInv, call = Idle, NEW k \in Key
  PROVE  /\ table.count = 0 => Lookup(table.entries, k) = ABSENT
         /\ table.count # 0 =>
              LET i == findEntry(table.entries, table.capacity, k)
              IN  /\ i \in 0..table.capacity
                  /\ table.entries[i].key \in {k, NULL}
                  /\ table.entries[i].key = NULL =>
                       Lookup(table.entries, k) = ABSENT
                  /\ table.entries[i].key # NULL =>
                       /\ Lookup(table.entries, k) = table.entries[i].value
                       /\ Lookup(table.entries, k) # ABSENT
<1> DEFINE E == table.entries
           m == table.capacity
<1>1. /\ m \in Nat \cup {-1} /\ E \in Array(m) /\ Sound(E, m)
      /\ table.count = Cardinality(Used(E))
  BY TypeFacts DEF IInv, Sized
<1>2. ASSUME table.count = 0 PROVE Lookup(E, k) = ABSENT
  <2>1. IsFiniteSet(Used(E))
    BY <1>1, UsedIsFinite
  <2>2. Used(E) = {}
    BY <2>1, <1>1, <1>2, FS_EmptySet
  <2>3. \A i \in 0..m : E[i] = Free
    BY <2>2, <1>1 DEF Used, Slots, Array
  <2>4. \A i \in 0..m : E[i].key # k
    BY <2>3, SpecialEntries
  <2> QED
    BY <2>4, <1>1, LookupReads DEF Sound
<1>3. ASSUME table.count # 0,
             NEW i, i = findEntry(E, m, k)
      PROVE  /\ i \in 0..m
             /\ E[i].key \in {k, NULL}
             /\ E[i].key = NULL => Lookup(E, k) = ABSENT
             /\ E[i].key # NULL => /\ Lookup(E, k) = E[i].value
                                   /\ Lookup(E, k) # ABSENT
  <2>1. m \in Nat /\ \E j \in 0..m : E[j] = Free
    BY <1>3, IdleHasRoom
  <2>2. /\ i \in 0..m
        /\ E[i].key \in {k, NULL}
        /\ \A j \in 0..m : E[j].key = k => j = i
    BY <2>1, <1>1, <1>3, findEntryArrives
  <2>3. CASE E[i].key = NULL
    <3>1. \A j \in 0..m : E[j].key # k
      BY <2>2, <2>3, SpecialEntries
    <3> QED
      BY <3>1, <2>2, <2>3, <1>1, LookupReads DEF Sound
  <2>4. CASE E[i].key = k
    BY <2>2, <2>4, <1>1, LookupReads, SpecialEntries DEF Sound
  <2> QED
    BY <2>2, <2>3, <2>4
<1> QED
  BY <1>2, <1>3

LEMMA GetStep ==
  ASSUME IInv, NEW k \in Key, tableGet(k)
  PROVE  /\ IInv'
         /\ ret' = Result(Lookup(table.entries, k) # ABSENT,
                          Lookup(table.entries, k))
<1>1. call = Idle /\ UNCHANGED <<table, fresh, scan, call>>
  BY DEF tableGet
<1>2. ret' = Result(Lookup(table.entries, k) # ABSENT, Lookup(table.entries, k))
  BY <1>1, LookupOfTable DEF tableGet, Result
<1>3. Lookup(table.entries, k) \in Value \cup {ABSENT}
  <2>1. /\ table.capacity \in Nat \cup {-1}
        /\ table.entries \in Array(table.capacity)
        /\ Unique(table.entries)
    BY TypeFacts DEF IInv, Sound
  <2>2. CASE \E i \in 0..table.capacity : table.entries[i].key = k
    <3>1. PICK i \in 0..table.capacity : table.entries[i].key = k
      BY <2>2
    <3>2. table.entries[i].value \in Value
      BY <2>1, EntryFacts DEF Array
    <3> QED
      BY <3>1, <3>2, <2>1, LookupReads
  <2>3. CASE ~\E i \in 0..table.capacity : table.entries[i].key = k
    BY <2>1, <2>3, LookupReads
  <2> QED
    BY <2>2, <2>3
<1>4. ret' \in [ok : BOOLEAN, value : Value \cup {ABSENT}]
  BY <1>2, <1>3 DEF Result
<1> QED
  BY <1>1, <1>2, <1>4, AnswerStep

(* Burying slots that hold keys takes those keys, and no others, off the map. *)
LEMMA BuryStep ==
  ASSUME IInv, call = Idle, UNCHANGED <<fresh, scan, call>>,
         NEW D \in SUBSET (0..table.capacity),
         \A i \in D : table.entries[i].key # NULL,
         table' = Bury(table, D),
         ret' \in [ok : BOOLEAN, value : Value \cup {ABSENT}]
  PROVE  /\ IInv'
         /\ \A q \in Key : Lookup(table'.entries, q) =
              IF \E i \in D : table.entries[i].key = q
              THEN ABSENT ELSE Lookup(table.entries, q)
<1>1. PICK E : E = table.entries
  OBVIOUS
<1>2. PICK m : m = table.capacity
  OBVIOUS
<1>3. PICK F : F = [i \in DOMAIN E |-> IF i \in D THEN Tombstone ELSE E[i]]
  OBVIOUS
<1>4. /\ m \in Nat \cup {-1} /\ E \in Array(m) /\ Sound(E, m)
      /\ m = -1 \/ m + 1 >= MinSlots
      /\ table.count = Cardinality(Used(E))
      /\ 4 * table.count <= 3 * (m + 1)
      /\ table.count \in Nat
      /\ table = [count |-> table.count, capacity |-> m, entries |-> E]
  BY <1>1, <1>2, TypeFacts DEF IInv, Sized
<1>5. scan' = 0 /\ fresh' \in [0..(-1) -> Entry] /\ call' = Idle
  BY TypeFacts DEF IInv, Sized
<1>6. table' = [count |-> table.count, capacity |-> m, entries |-> F]
  BY <1>1, <1>3, <1>4 DEF Bury
<1>7. F \in Array(m) /\ Sound(F, m) /\ Used(F) = Used(E)
  <2>1. CASE m = -1
    <3>1. 0..m = {} /\ D = {} /\ DOMAIN E = {}
      BY <2>1, <1>2, <1>4 DEF Array
    <3>2. F = E
      BY <3>1, <1>3, <1>4 DEF Array
    <3> QED
      BY <3>2, <1>4
  <2>2. CASE m \in Nat
    BY <2>2, <1>1, <1>2, <1>3, <1>4, BuryKeepsSound
  <2> QED
    BY <2>1, <2>2, <1>4
<1>8. IInv'
  <2>1. /\ table' \in [count : Nat, capacity : {m}, entries : Array(m)]
        /\ table'.entries = F /\ table'.count = table.count
    BY <1>4, <1>6, <1>7
  <2> QED
    BY <2>1, <1>4, <1>5, <1>7, IdleInvariant
<1>9. ASSUME NEW q \in Key
      PROVE  Lookup(F, q) = IF \E i \in D : E[i].key = q
                            THEN ABSENT ELSE Lookup(E, q)
  <2>1. \A i \in 0..m : F[i] = IF i \in D THEN Tombstone ELSE E[i]
    BY <1>3, <1>4 DEF Array
  <2>2. CASE \E i \in D : E[i].key = q
    <3>1. PICK i \in D : E[i].key = q
      BY <2>2
    <3>2. \A j \in 0..m : E[j].key = q => j = i
      BY <3>1, <1>2, <1>4, SpecialEntries DEF Sound, Unique, Array
    <3>3. \A j \in 0..m : F[j].key # q
      BY <3>1, <3>2, <2>1, SpecialEntries
    <3> QED
      BY <3>3, <2>2, <1>4, <1>7, LookupReads DEF Sound
  <2>3. CASE ~\E i \in D : E[i].key = q
    <3>1. \A j \in 0..m : F[j].key = q <=> E[j].key = q
      BY <2>1, <2>3, SpecialEntries
    <3>2. CASE \E j \in 0..m : E[j].key = q
      <4>1. PICK j \in 0..m : E[j].key = q
        BY <3>2
      <4>2. F[j] = E[j]
        BY <4>1, <2>1, <2>3
      <4>3. Lookup(E, q) = E[j].value
        BY <4>1, <1>4, LookupReads DEF Sound
      <4>4. Lookup(F, q) = F[j].value
        BY <4>1, <4>2, <1>4, <1>7, LookupReads DEF Sound
      <4> QED
        BY <4>2, <4>3, <4>4, <2>3
    <3>3. CASE ~\E j \in 0..m : E[j].key = q
      <4>1. Lookup(E, q) = ABSENT
        BY <3>3, <1>4, LookupReads DEF Sound
      <4>2. Lookup(F, q) = ABSENT
        BY <3>1, <3>3, <1>4, <1>7, LookupReads DEF Sound
      <4> QED
        BY <4>1, <4>2, <2>3
    <3> QED
      BY <3>2, <3>3
  <2> QED
    BY <2>2, <2>3
<1> QED
  BY <1>1, <1>6, <1>8, <1>9

LEMMA DeleteStep ==
  ASSUME IInv, NEW k \in Key, tableDelete(k)
  PROVE  /\ IInv'
         /\ ret' = Result(Lookup(table.entries, k) # ABSENT, ABSENT)
         /\ \A q \in Key : Lookup(table'.entries, q) =
              IF q = k THEN ABSENT ELSE Lookup(table.entries, q)
<1>1. PICK i : i = findEntry(table.entries, table.capacity, k)
  OBVIOUS
<1>2. call = Idle /\ UNCHANGED <<fresh, scan, call>>
  BY DEF tableDelete
<1>3. \A b \in BOOLEAN :
        Result(b, ABSENT) \in [ok : BOOLEAN, value : Value \cup {ABSENT}]
  BY DEF Result
<1>4. CASE table.count = 0 \/ table.entries[i].key = NULL
  <2>1. ret' = Result(FALSE, ABSENT) /\ UNCHANGED table
    BY <1>1, <1>4 DEF tableDelete
  <2>2. Lookup(table.entries, k) = ABSENT
    BY <1>1, <1>2, <1>4, LookupOfTable
  <2>3. IInv'
    BY <2>1, <1>2, <1>3, AnswerStep
  <2> QED
    BY <2>1, <2>2, <2>3
<1>5. CASE ~(table.count = 0 \/ table.entries[i].key = NULL)
  <2>1. ret' = Result(TRUE, ABSENT) /\ table' = Bury(table, {i})
    BY <1>1, <1>5 DEF tableDelete
  <2>2. /\ i \in 0..table.capacity
        /\ table.entries[i].key = k
        /\ table.entries[i].key # NULL
        /\ Lookup(table.entries, k) # ABSENT
    BY <1>1, <1>2, <1>5, LookupOfTable
  <2>3. {i} \in SUBSET (0..table.capacity)
    BY <2>2
  <2>4. ret' \in [ok : BOOLEAN, value : Value \cup {ABSENT}]
    BY <2>1, <1>3
  <2>5. /\ IInv'
        /\ \A q \in Key : Lookup(table'.entries, q) =
             IF \E j \in {i} : table.entries[j].key = q
             THEN ABSENT ELSE Lookup(table.entries, q)
    BY <2>1, <2>2, <2>3, <2>4, <1>2, BuryStep
  <2> QED
    BY <2>1, <2>2, <2>5
<1> QED
  BY <1>4, <1>5

LEMMA RemoveWhiteStep ==
  ASSUME IInv, NEW marked \in SUBSET Key, tableRemoveWhite(marked)
  PROVE  /\ IInv'
         /\ ret' = ret
         /\ \A q \in Key : Lookup(table'.entries, q) =
              IF q \in marked THEN Lookup(table.entries, q) ELSE ABSENT
<1> DEFINE E     == table.entries
           m     == table.capacity
           white == {E[i].key : i \in Slots(E)} \ (marked \cup {NULL})
           dead  == {findEntry(E, m, k) : k \in white}
<1>1. call = Idle /\ UNCHANGED <<fresh, scan, call, ret>>
  BY DEF tableRemoveWhite
<1>2. table' = Bury(table, dead)
  BY DEF tableRemoveWhite
<1>3. /\ m \in Nat \cup {-1} /\ E \in Array(m) /\ Sound(E, m)
      /\ Slots(E) = 0..m /\ DOMAIN E = 0..m
      /\ \A i \in 0..m : E[i] \in Entry
  BY TypeFacts DEF IInv, Slots, Array
<1>4. ASSUME NEW i \in 0..m, E[i].key \in Key
      PROVE  findEntry(E, m, E[i].key) = i
  <2>1. m \in Nat
    BY <1>3
  <2>2. \E j \in 0..m : E[j] = Free
    BY <2>1, <1>1, IdleHasRoom
  <2> QED
    BY <2>1, <2>2, <1>3, <1>4, findEntryArrives
<1>5. \A i \in 0..m : E[i].key \in white => E[i].key \in Key
  BY <1>3, EntryFacts
<1>6. dead = {i \in 0..m : E[i].key \in white}
  BY <1>3, <1>4, <1>5
<1>7. dead \in SUBSET (0..m) /\ \A i \in dead : E[i].key # NULL
  BY <1>6
<1>8. ret' \in [ok : BOOLEAN, value : Value \cup {ABSENT}]
  BY <1>1 DEF IInv, TypeOK
<1> HIDE DEF dead
<1>9. /\ IInv'
      /\ \A q \in Key : Lookup(table'.entries, q) =
           IF \E i \in dead : E[i].key = q THEN ABSENT ELSE Lookup(E, q)
  BY <1>1, <1>2, <1>7, <1>8, BuryStep
<1>10. ASSUME NEW q \in Key
       PROVE  (IF \E i \in dead : E[i].key = q THEN ABSENT ELSE Lookup(E, q))
                = IF q \in marked THEN Lookup(E, q) ELSE ABSENT
  <2>1. CASE \E i \in 0..m : E[i].key = q
    <3>1. (\E i \in dead : E[i].key = q) <=> q \notin marked
      BY <2>1, <1>3, <1>6, SpecialEntries
    <3> QED
      BY <3>1
  <2>2. CASE ~\E i \in 0..m : E[i].key = q
    <3>1. Lookup(E, q) = ABSENT
      BY <2>2, <1>3, LookupReads DEF Sound
    <3> QED
      BY <3>1
  <2> QED
    BY <2>1, <2>2
<1> QED
  BY <1>1, <1>9, <1>10

LEMMA FreeStep ==
  ASSUME IInv, freeTable
  PROVE  /\ IInv'
         /\ ret' = ret
         /\ \A q \in Key : Lookup(table'.entries, q) = ABSENT
<1>1. /\ call' = Idle /\ scan' = 0 /\ ret' = ret
      /\ fresh' \in [0..(-1) -> Entry]
      /\ ret' \in [ok : BOOLEAN, value : Value \cup {ABSENT}]
  BY TypeFacts DEF freeTable, IInv, Sized, TypeOK
<1>2. table' = [count |-> 0, capacity |-> -1, entries |-> NoEntries]
  BY DEF freeTable, initTable
<1>3. NoEntries \in Array(-1) /\ Slots(NoEntries) = {}
  BY SpecialEntries DEF NoEntries, Array, Slots
<1>4. Sound(NoEntries, -1) /\ Used(NoEntries) = {}
  BY <1>3 DEF Sound, Unique, Chained, Used, Slots
<1>5. /\ table' \in [count : Nat, capacity : {-1}, entries : Array(-1)]
      /\ table'.entries = NoEntries /\ table'.count = 0
  BY <1>2, <1>3
<1>6. IInv'
  <2>1. table'.count = Cardinality(Used(table'.entries))
    BY <1>4, <1>5, FS_EmptySet
  <2>2. PICK m \in Nat \cup {-1} : m = -1
    OBVIOUS
  <2>3. 4 * table'.count <= 3 * (m + 1)
    BY <1>5, <2>2
  <2>4. Sound(table'.entries, m)
    BY <1>4, <1>5, <2>2
  <2> QED
    BY <2>1, <2>2, <2>3, <2>4, <1>1, <1>5, IdleInvariant
<1>7. \A q \in Key : Lookup(table'.entries, q) = ABSENT
  BY <1>3, <1>5 DEF Lookup
<1> QED
  BY <1>1, <1>6, <1>7

(* tableSet has allocated a larger array and has moved nothing yet. *)
LEMMA GrowStep ==
  ASSUME IInv, NEW k \in Key, NEW v \in Value, tableSetGrowing(k, v)
  PROVE  /\ IInv'
         /\ ret' = ret /\ table'.entries = table.entries
<1>1. /\ call = Idle /\ call' = Setting(k, v) /\ call' # Idle
      /\ scan' = 0 /\ ret' = ret
      /\ fresh' = EmptyArray(GrowSlots(table.capacity + 1))
  BY DEF tableSetGrowing, Setting, Idle
<1>2. table' = [count |-> 0, capacity |-> table.capacity, entries |-> table.entries]
  BY TypeFacts DEF tableSetGrowing, IInv
<1>3. /\ table'.count = 0 /\ table'.capacity = table.capacity
      /\ table'.entries = table.entries
      /\ table' \in [count : Nat, capacity : Nat \cup {-1},
                    entries : [0..table.capacity -> Entry]]
  BY <1>2, TypeFacts DEF IInv, Array
<1>4. NewMask' = NewMask /\ NewMask \in Nat /\ fresh' = EmptyArray(NewMask + 1)
  BY <1>1, <1>3, TypeFacts DEF IInv, NewMask
<1>5. fresh' \in Array(NewMask) /\ Sound(fresh', NewMask) /\ Used(fresh') = {}
  BY <1>4, EmptyArrayIsSound
<1>6. TypeOK'
  <2>1. fresh' \in [0..(GrowSlots(table'.capacity + 1) - 1) -> Entry]
    BY <1>3, <1>5 DEF Array, NewMask
  <2>2. scan' \in 0..(table'.capacity + 1)
    BY <1>1, <1>3, TypeFacts DEF IInv
  <2>3. ret' \in [ok : BOOLEAN, value : Value \cup {ABSENT}]
    BY <1>1 DEF IInv, TypeOK
  <2> QED
    BY <2>1, <2>2, <2>3, <1>1, <1>3 DEF TypeOK
<1>7. Sized' /\ Sound(table.entries, table.capacity)'
  BY <1>1, <1>3 DEF IInv, Sized
<1>8. Copied'
  <2>1. table'.count = Cardinality(Used(fresh'))
    BY <1>3, <1>5, FS_EmptySet
  <2>2. \A j \in 0..NewMask : fresh'[j] = Free
    BY <1>4 DEF EmptyArray
  <2>3. \A i \in 0..table.capacity : ~(i < scan')
    BY <1>1, TypeFacts DEF IInv
  <2> QED
    BY <2>1, <2>2, <2>3, <1>1, <1>3, <1>4, <1>5, SpecialEntries DEF Copied
<1> QED
  BY <1>1, <1>3, <1>6, <1>7, <1>8 DEF IInv

(* A turn of adjustCapacity's loop: the new array finds room for each key. *)
LEMMA MoveStep ==
  ASSUME IInv, moveEntry
  PROVE  /\ IInv'
         /\ ret' = ret /\ table'.entries = table.entries
<1>1. PICK E : E = table.entries
  OBVIOUS
<1>2. PICK m : m = table.capacity
  OBVIOUS
<1>3. PICK N : N = NewMask
  OBVIOUS
<1>4. PICK e : e = E[scan]
  OBVIOUS
<1>5. /\ call # Idle /\ call' = call /\ ret' = ret
      /\ scan <= m /\ scan' = scan + 1
      /\ e.key = NULL => fresh' = fresh /\ table' = table
      /\ e.key # NULL =>
           /\ fresh' = [fresh EXCEPT ![findEntry(fresh, N, e.key)] = e]
           /\ table' = [table EXCEPT !.count = @ + 1]
  BY <1>1, <1>2, <1>3, <1>4 DEF moveEntry, NewMask
<1>6. /\ m \in Nat /\ scan \in 0..m /\ N \in Nat
      /\ E \in Array(m) /\ Sound(E, m)
      /\ fresh \in Array(N) /\ Sound(fresh, N)
      /\ table.count \in Nat /\ table.count <= scan
      /\ table.count = Cardinality(Used(fresh))
      /\ table = [count |-> table.count, capacity |-> m, entries |-> E]
  BY <1>1, <1>2, <1>3, <1>5, TypeFacts DEF IInv, Copied
<1>7. e \in Entry /\ (e.key # NULL => e.key \in Key /\ e.value \in Value
                                   /\ e = [key |-> e.key, value |-> e.value])
  <2>1. e \in Entry
    BY <1>4, <1>6 DEF Array
  <2> QED
    BY <2>1, EntryFacts DEF Occupied
<1>8. /\ \A j \in 0..N : fresh[j] # Tombstone
      /\ \A j \in 0..N : fresh[j].key # NULL =>
           \E i \in 0..m : i < scan /\ E[i] = fresh[j]
      /\ \A i \in 0..m : i < scan /\ E[i].key # NULL =>
           \E j \in 0..N : fresh[j] = E[i]
  BY <1>1, <1>2, <1>3, <1>5 DEF IInv, Copied
<1>9. CASE e.key = NULL
  <2>1. fresh' = fresh /\ table' = table /\ NewMask' = NewMask
    BY <1>5, <1>9 DEF NewMask
  <2>2. TypeOK'
    <3>1. scan' \in 0..(m + 1)
      BY <1>5, <1>6
    <3> QED
      BY <3>1, <2>1, <1>2, <1>5 DEF IInv, TypeOK
  <2>3. Sized' /\ Sound(table.entries, table.capacity)'
    BY <2>1, <1>5 DEF IInv, Sized
  <2>4. \A i \in 0..m : i < scan + 1 => i < scan \/ i = scan
    BY <1>6
  <2>5. Copied'
    <3>1. \A j \in 0..N : fresh[j].key # NULL =>
            \E i \in 0..m : i < scan + 1 /\ E[i] = fresh[j]
      BY <1>6, <1>8
    <3>2. \A i \in 0..m : i < scan + 1 /\ E[i].key # NULL =>
            \E j \in 0..N : fresh[j] = E[i]
      BY <2>4, <1>4, <1>8, <1>9
    <3>3. table.count <= scan + 1
      BY <1>6
    <3> QED
      BY <3>1, <3>2, <3>3, <2>1, <1>1, <1>2, <1>3, <1>5, <1>6, <1>8 DEF Copied
  <2> QED
    BY <2>1, <2>2, <2>3, <2>5, <1>5 DEF IInv
<1>10. CASE e.key # NULL
  <2>1. N + 1 = 2 * (m + 1)
    BY <1>2, <1>3, <1>6, TableAssumption DEF IInv, Sized, NewMask, GrowSlots
  <2>2. \E j \in 0..N : fresh[j] = Free
    BY <2>1, <1>6, UsedIsFinite
  <2>3. PICK f : f = findEntry(fresh, N, e.key)
    OBVIOUS
  <2>4. /\ f \in 0..N
        /\ fresh[f].key \in {e.key, NULL}
    BY <2>2, <2>3, <1>6, <1>7, <1>10, findEntryArrives
  <2>5. fresh[f] = Free
    <3>1. fresh[f].key # e.key
      <4>1. SUFFICES ASSUME fresh[f].key = e.key PROVE FALSE
        OBVIOUS
      <4>2. PICK i \in 0..m : i < scan /\ E[i] = fresh[f]
        BY <4>1, <2>4, <1>8, <1>10
      <4>3. E[i].key # NULL /\ E[i].key = E[scan].key
        BY <4>1, <4>2, <1>4, <1>10
      <4>4. i = scan
        BY <4>3, <1>6 DEF Sound, Unique, Array
      <4> QED
        BY <4>2, <4>4, <1>6
    <3>2. fresh[f] \in {Free, Tombstone}
      BY <3>1, <2>4, <1>6, EntryFacts DEF Array
    <3> QED
      BY <3>2, <2>4, <1>8
  <2>6. PICK G : G = [fresh EXCEPT ![f] = e]
    OBVIOUS
  <2>7. /\ G \in Array(N)
        /\ G[f] = e
        /\ \A j \in 0..N : j # f => G[j] = fresh[j]
    BY <2>4, <2>6, <1>6, <1>7 DEF Array
  <2>8. Sound(G, N) /\ Used(G) = Used(fresh) \cup {f}
    BY <2>2, <2>3, <2>7, <1>6, <1>7, <1>10, StoreKeepsSound
  <2>9. f \notin Used(fresh)
    BY <2>5 DEF Used
  <2>10. Cardinality(Used(G)) = table.count + 1
    <3>1. PICK U : U = Used(fresh)
      OBVIOUS
    <3>2. IsFiniteSet(U)
      BY <3>1, <1>6, UsedIsFinite
    <3>3. Cardinality(U \cup {f}) = Cardinality(U) + 1
      BY <3>1, <3>2, <2>9, FS_AddElement
    <3> QED
      BY <3>1, <3>3, <2>8, <1>6
  <2>11. /\ fresh' = G
         /\ table' = [count |-> table.count + 1, capacity |-> m, entries |-> E]
    <3>1. fresh' = G
      BY <2>3, <2>6, <1>5, <1>10
    <3>2. PICK c : c = table.count
      OBVIOUS
    <3>3. table = [count |-> c, capacity |-> m, entries |-> E]
      BY <3>2, <1>6
    <3>4. [table EXCEPT !.count = @ + 1] = [count |-> c + 1, capacity |-> m, entries |-> E]
      BY <3>3
    <3> QED
      BY <3>1, <3>2, <3>4, <1>5, <1>10
  <2>12. /\ table'.count = table.count + 1 /\ table'.capacity = m
         /\ table'.entries = E /\ NewMask' = N
    BY <2>11, <1>2, <1>3 DEF NewMask
  <2>13. TypeOK'
    <3>1. table' \in [count : Nat, capacity : Nat \cup {-1},
                     entries : [0..table'.capacity -> Entry]]
      BY <2>11, <2>12, <1>6 DEF Array
    <3>2. scan' \in 0..(table'.capacity + 1)
      BY <2>12, <1>5, <1>6
    <3>3. fresh' \in [0..(GrowSlots(table'.capacity + 1) - 1) -> Entry]
      BY <2>7, <2>11, <2>12 DEF NewMask, Array
    <3> QED
      BY <3>1, <3>2, <3>3, <1>5 DEF IInv, TypeOK
  <2>14. Sized' /\ Sound(table.entries, table.capacity)'
    BY <2>12, <1>1, <1>2, <1>5 DEF IInv, Sized
  <2>15. \A j \in 0..N : G[j] # Tombstone
    BY <2>7, <1>8, <1>10, SpecialEntries
  <2>16. \A j \in 0..N : G[j].key # NULL =>
           \E i \in 0..m : i < scan + 1 /\ E[i] = G[j]
    <3>1. SUFFICES ASSUME NEW j \in 0..N, G[j].key # NULL
                   PROVE  \E i \in 0..m : i < scan + 1 /\ E[i] = G[j]
      OBVIOUS
    <3>2. CASE j = f
      BY <3>2, <2>7, <1>4, <1>6
    <3>3. CASE j # f
      <4>1. PICK i \in 0..m : i < scan /\ E[i] = fresh[j]
        BY <3>1, <3>3, <2>7, <1>8
      <4> QED
        BY <4>1, <3>3, <2>7, <1>6
    <3> QED
      BY <3>2, <3>3
  <2>17. \A i \in 0..m : i < scan + 1 /\ E[i].key # NULL =>
           \E j \in 0..N : G[j] = E[i]
    <3>1. SUFFICES ASSUME NEW i \in 0..m, i < scan + 1, E[i].key # NULL
                   PROVE  \E j \in 0..N : G[j] = E[i]
      OBVIOUS
    <3>2. CASE i = scan
      BY <3>2, <2>4, <2>7, <1>4
    <3>3. CASE i # scan
      <4>1. i < scan
        BY <3>1, <3>3, <1>6
      <4>2. PICK j \in 0..N : fresh[j] = E[i]
        BY <4>1, <3>1, <1>8
      <4>3. j # f
        BY <4>2, <3>1, <2>5, SpecialEntries
      <4> QED
        BY <4>2, <4>3, <2>7
    <3> QED
      BY <3>2, <3>3
  <2>18. Copied'
    <3>1. table'.count <= scan'
      BY <2>12, <1>5, <1>6
    <3>2. Sound(fresh', NewMask') /\ table'.count = Cardinality(Used(fresh'))
      BY <2>8, <2>10, <2>11, <2>12
    <3> QED
      BY <3>1, <3>2, <2>11, <2>12, <2>15, <2>16, <2>17, <1>5 DEF Copied
  <2> QED
    BY <2>12, <2>13, <2>14, <2>18, <1>1, <1>5 DEF IInv
<1> QED
  BY <1>9, <1>10

(* adjustCapacity is over and tableSet stores what it was called with. *)
LEMMA FinishStep ==
  ASSUME IInv, finishSet
  PROVE  /\ IInv'
         /\ call.key \in Key /\ call.value \in Value
         /\ ret' = Result(Lookup(table.entries, call.key) = ABSENT, ABSENT)
         /\ \A q \in Key : Lookup(table'.entries, q) =
              IF q = call.key THEN call.value ELSE Lookup(table.entries, q)
<1>1. PICK m : m = table.capacity
  OBVIOUS
<1>2. PICK N : N = NewMask
  OBVIOUS
<1>3. PICK t : t = [count |-> table.count, capacity |-> N, entries |-> fresh]
  OBVIOUS
<1>4. /\ call # Idle /\ scan > m /\ Store(t, call.key, call.value)
      /\ fresh' = NoEntries /\ scan' = 0 /\ call' = Idle
  BY <1>1, <1>2, <1>3 DEF finishSet, NewMask
<1>5. /\ m \in Nat \cup {-1} /\ N \in Nat /\ scan = m + 1
      /\ table.entries \in Array(m) /\ Sound(table.entries, m)
      /\ fresh \in Array(N) /\ Sound(fresh, N)
      /\ call.key \in Key /\ call.value \in Value
      /\ table.count \in Nat /\ table.count <= scan
      /\ table.count = Cardinality(Used(fresh))
  BY <1>1, <1>2, <1>4, TypeFacts DEF IInv, Copied
<1>6. N + 1 >= MinSlots /\ 4 * (table.count + 1) <= 3 * (N + 1)
  <2>1. m = -1 \/ m + 1 >= MinSlots
    BY <1>1 DEF IInv, Sized
  <2>2. CASE m = -1
    <3>1. N + 1 = MinSlots /\ table.count = 0
      BY <2>2, <1>1, <1>2, <1>5, TableAssumption DEF NewMask, GrowSlots
    <3> QED
      BY <3>1, TableAssumption
  <2>3. CASE m + 1 >= MinSlots
    <3>1. N + 1 = 2 * (m + 1)
      BY <2>3, <1>1, <1>2, <1>5, TableAssumption DEF NewMask, GrowSlots
    <3> QED
      BY <3>1, <2>3, <1>5, TableAssumption
  <2> QED
    BY <2>1, <2>2, <2>3
<1>7. /\ table' \in [count : Nat, capacity : {N}, entries : Array(N)]
      /\ Sound(table'.entries, N)
      /\ table'.count = Cardinality(Used(table'.entries))
      /\ 4 * table'.count <= 3 * (N + 1)
      /\ ret' = Result(Lookup(fresh, call.key) = ABSENT, ABSENT)
      /\ \A q \in Key : Lookup(table'.entries, q) =
                          IF q = call.key THEN call.value ELSE Lookup(fresh, q)
  BY <1>3, <1>4, <1>5, <1>6, StoreStep
<1>8. IInv'
  <2>1. NoEntries \in [0..(-1) -> Entry]
    BY SpecialEntries DEF NoEntries
  <2>2. ret' \in [ok : BOOLEAN, value : Value \cup {ABSENT}]
    BY <1>7 DEF Result
  <2> QED
    BY <2>1, <2>2, <1>4, <1>5, <1>6, <1>7, IdleInvariant
<1>9. ASSUME NEW q \in Key
      PROVE  Lookup(fresh, q) = Lookup(table.entries, q)
  <2>1. /\ \A j \in 0..N : fresh[j].key # NULL =>
             \E i \in 0..m : table.entries[i] = fresh[j]
        /\ \A i \in 0..m : table.entries[i].key # NULL =>
             \E j \in 0..N : fresh[j] = table.entries[i]
    BY <1>1, <1>2, <1>4, <1>5 DEF IInv, Copied
  <2>2. CASE \E j \in 0..N : fresh[j].key = q
    <3>1. PICK j \in 0..N : fresh[j].key = q
      BY <2>2
    <3>2. PICK i \in 0..m : table.entries[i] = fresh[j]
      BY <3>1, <2>1, SpecialEntries
    <3>3. Lookup(fresh, q) = fresh[j].value
      BY <3>1, <1>5, LookupReads DEF Sound
    <3>4. Lookup(table.entries, q) = table.entries[i].value
      BY <3>1, <3>2, <1>5, LookupReads DEF Sound
    <3> QED
      BY <3>2, <3>3, <3>4
  <2>3. CASE \A j \in 0..N : fresh[j].key # q
    <3>1. \A i \in 0..m : table.entries[i].key # q
      BY <2>1, <2>3, SpecialEntries
    <3>2. Lookup(fresh, q) = ABSENT
      BY <2>3, <1>5, LookupReads DEF Sound
    <3>3. Lookup(table.entries, q) = ABSENT
      BY <3>1, <1>5, LookupReads DEF Sound
    <3> QED
      BY <3>2, <3>3
  <2> QED
    BY <2>2, <2>3
<1> QED
  BY <1>5, <1>7, <1>8, <1>9

LEMMA SetStep ==
  ASSUME IInv, NEW k \in Key, NEW v \in Value, tableSet(k, v)
  PROVE  /\ IInv'
         /\ ret' = Result(Lookup(table.entries, k) = ABSENT, ABSENT)
         /\ \A q \in Key : Lookup(table'.entries, q) =
              IF q = k THEN v ELSE Lookup(table.entries, q)
<1>1. PICK m : m = table.capacity
  OBVIOUS
<1>2. call = Idle /\ ~MustGrow /\ Store(table, k, v) /\ UNCHANGED <<fresh, scan, call>>
  BY DEF tableSet
<1>3. /\ m \in Nat /\ m + 1 >= MinSlots
      /\ table.entries \in Array(m) /\ Sound(table.entries, m)
      /\ table.count \in Nat
      /\ table.count = Cardinality(Used(table.entries))
      /\ table = [count |-> table.count, capacity |-> m, entries |-> table.entries]
      /\ scan = 0 /\ fresh \in [0..(-1) -> Entry]
  BY <1>1, <1>2, TypeFacts, IdleHasRoom DEF IInv, Sized
<1>4. 4 * (table.count + 1) <= 3 * (m + 1)
  BY <1>1, <1>2, <1>3 DEF MustGrow
<1>5. /\ table' \in [count : Nat, capacity : {m}, entries : Array(m)]
      /\ Sound(table'.entries, m)
      /\ table'.count = Cardinality(Used(table'.entries))
      /\ 4 * table'.count <= 3 * (m + 1)
      /\ ret' = Result(Lookup(table.entries, k) = ABSENT, ABSENT)
      /\ \A q \in Key : Lookup(table'.entries, q) =
                          IF q = k THEN v ELSE Lookup(table.entries, q)
  BY <1>2, <1>3, <1>4, StoreStep
<1>6. ret' \in [ok : BOOLEAN, value : Value \cup {ABSENT}]
  BY <1>5 DEF Result
<1>7. IInv'
  BY <1>2, <1>3, <1>5, <1>6, IdleInvariant
<1> QED
  BY <1>5, <1>7

----------------------------------------------------------------------------
(* The theorems.                                                           *)

THEOREM InitIInv == Init => IInv
<1> SUFFICES ASSUME Init PROVE IInv
  OBVIOUS
<1>1. /\ call = Idle /\ scan = 0 /\ fresh = NoEntries
      /\ ret = Result(FALSE, ABSENT)
      /\ table = [count |-> 0, capacity |-> -1, entries |-> NoEntries]
  BY DEF Init, initTable
<1>2. NoEntries \in [0..(-1) -> Entry] /\ Slots(NoEntries) = {}
  BY SpecialEntries DEF NoEntries, Slots
<1>3. Used(NoEntries) = {} /\ Sound(NoEntries, -1)
  BY <1>2 DEF Used, Slots, Sound, Unique, Chained
<1>4. TypeOK
  BY <1>1, <1>2 DEF TypeOK, Result
<1>5. Sized
  BY <1>1, <1>3, FS_EmptySet DEF Sized
<1>6. Copied
  BY <1>1 DEF Copied
<1> QED
  BY <1>1, <1>3, <1>4, <1>5, <1>6 DEF IInv

THEOREM IInvIsInductive == IInv /\ [Next]_vars => IInv'
<1> SUFFICES ASSUME IInv, [Next]_vars PROVE IInv'
  OBVIOUS
<1>1. ASSUME NEW k \in Key, tableGet(k) PROVE IInv'
  BY <1>1, GetStep
<1>2. ASSUME NEW k \in Key, tableDelete(k) PROVE IInv'
  BY <1>2, DeleteStep
<1>3. ASSUME NEW k \in Key, NEW v \in Value, tableSet(k, v) PROVE IInv'
  BY <1>3, SetStep
<1>4. ASSUME NEW k \in Key, NEW v \in Value, tableSetGrowing(k, v) PROVE IInv'
  BY <1>4, GrowStep
<1>5. CASE moveEntry
  BY <1>5, MoveStep
<1>6. CASE finishSet
  BY <1>6, FinishStep
<1>7. ASSUME NEW marked \in SUBSET Key, tableRemoveWhite(marked) PROVE IInv'
  BY <1>7, RemoveWhiteStep
<1>8. CASE freeTable
  BY <1>8, FreeStep
<1>9. CASE UNCHANGED vars
  BY <1>9 DEF vars, IInv, TypeOK, Sized, Copied, NewMask
<1> QED
  BY <1>1, <1>2, <1>3, <1>4, <1>5, <1>6, <1>7, <1>8, <1>9 DEF Next, Growing

THEOREM Invariance == Spec => []IInv
<1> QED
  BY InitIInv, IInvIsInductive, PTL DEF Spec

(* The variables of the table keep their types. *)
THEOREM TypeCorrect == Spec => []TypeOK
<1>1. IInv => TypeOK
  BY DEF IInv
<1> QED
  BY <1>1, Invariance, PTL

(* findEntry always has a free slot to stop at, during growth too. *)
THEOREM LoadIsBounded == Spec => []LoadBounded
<1>1. IInv => LoadBounded
  <2> SUFFICES ASSUME IInv PROVE LoadBounded
    OBVIOUS
  <2>1. CASE call = Idle
    <3>1. Cardinality(Slots(table.entries)) = table.capacity + 1
      BY TypeFacts, UsedIsFinite DEF IInv
    <3> QED
      BY <3>1, <2>1 DEF IInv, Sized, LoadBounded
  <2>2. CASE call # Idle
    <3>1. Cardinality(Slots(fresh)) = NewMask + 1
      BY <2>2, TypeFacts, UsedIsFinite DEF IInv
    <3>2. 4 * table.count <= 3 * (NewMask + 1)
      <4>1. table.count <= table.capacity + 1 /\ table.count \in Nat
        BY <2>2, TypeFacts DEF IInv, Copied
      <4>2. CASE table.capacity = -1
        BY <4>1, <4>2, <2>2, TypeFacts DEF IInv
      <4>3. CASE table.capacity + 1 >= MinSlots
        <5>1. NewMask + 1 = 2 * (table.capacity + 1)
          BY <4>3, TypeFacts, TableAssumption DEF IInv, NewMask, GrowSlots
        <5> QED
          BY <5>1, <4>1, TypeFacts DEF IInv
      <4> QED
        BY <4>2, <4>3 DEF IInv, Sized
    <3> QED
      BY <3>1, <3>2, <2>2 DEF IInv, Copied, LoadBounded
  <2> QED
    BY <2>1, <2>2
<1> QED
  BY <1>1, Invariance, PTL

(* A probe finds every stored key, during growth too. *)
THEOREM LookupFinds == Spec => []LookupFindsEveryKey
<1>1. ASSUME NEW m \in Nat \cup {-1}, NEW E \in Array(m), Sound(E, m),
             m \in Nat => \E i \in 0..m : E[i] = Free
      PROVE  Reachable(E, m)
  <2>1. SUFFICES ASSUME NEW i \in 0..m, E[i].key # NULL
                 PROVE  findEntry(E, m, E[i].key) = i
    BY <1>1 DEF Reachable, Slots, Array
  <2>2. m \in Nat /\ E[i].key \in Key
    BY <2>1, EntryFacts DEF Array
  <2> QED
    BY <2>1, <2>2, <1>1, findEntryArrives
<1>2. IInv /\ LoadBounded => LookupFindsEveryKey
  <2> SUFFICES ASSUME IInv, LoadBounded PROVE LookupFindsEveryKey
    OBVIOUS
  <2>1. Reachable(table.entries, table.capacity)
    BY <1>1, TypeFacts DEF IInv, Sized
  <2>2. ASSUME call # Idle PROVE Reachable(fresh, NewMask)
    <3>1. /\ NewMask \in Nat /\ fresh \in Array(NewMask)
          /\ Sound(fresh, NewMask)
          /\ table.count = Cardinality(Used(fresh))
          /\ 4 * table.count <= 3 * Cardinality(Slots(fresh))
      BY <2>2, TypeFacts DEF IInv, Copied, LoadBounded
    <3>2. \E j \in 0..NewMask : fresh[j] = Free
      BY <3>1, UsedIsFinite
    <3> QED
      BY <3>1, <3>2, <1>1
  <2> QED
    BY <2>1, <2>2 DEF LookupFindsEveryKey, NewMask
<1> QED
  BY <1>2, Invariance, LoadIsBounded, PTL

(* The table implements the map: what a client sees of it is a map's doing. *)
THEOREM TableImplementsMap == Spec => ImplementsMap
<1> DEFINE D == [k \in Key |-> Lookup(table.entries, k)]
<1>1. Init => MapOfTable!Init
  <2> SUFFICES ASSUME Init PROVE MapOfTable!Init
    OBVIOUS
  <2>1. \A k \in Key : Lookup(table.entries, k) = ABSENT
    BY DEF Init, initTable, NoEntries, Lookup, Slots
  <2>2. ret = Result(FALSE, ABSENT)
    BY DEF Init
  <2> QED
    BY <2>1, <2>2 DEF MapOfTable!Init, MapOfTable!Result, Result
<1>2. IInv /\ [Next]_vars => [MapOfTable!Next]_(MapOfTable!mapVars)
  <2> SUFFICES ASSUME IInv, [Next]_vars
               PROVE  MapOfTable!Next \/ UNCHANGED <<D, ret>>
    BY DEF MapOfTable!mapVars
  <2>1. ASSUME NEW k \in Key, tableGet(k) PROVE MapOfTable!Get(k)
    <3>1. table' = table
      BY <2>1 DEF tableGet
    <3>2. ret' = Result(D[k] # ABSENT, D[k])
      BY <2>1, GetStep
    <3> QED
      BY <3>1, <3>2 DEF MapOfTable!Get, MapOfTable!Present, MapOfTable!Result, Result
  <2>2. ASSUME NEW k \in Key, tableDelete(k) PROVE MapOfTable!Delete(k)
    <3>1. /\ ret' = Result(D[k] # ABSENT, ABSENT)
          /\ \A q \in Key : Lookup(table'.entries, q) = IF q = k THEN ABSENT ELSE D[q]
      BY <2>2, DeleteStep
    <3>2. D' = [D EXCEPT ![k] = ABSENT]
      BY <3>1
    <3> QED
      BY <3>1, <3>2
         DEF MapOfTable!Delete, MapOfTable!Present, MapOfTable!Result, Result
  <2>3. ASSUME NEW k \in Key, NEW v \in Value, tableSet(k, v)
        PROVE  MapOfTable!Set(k, v)
    <3>1. /\ ret' = Result(~(D[k] # ABSENT), ABSENT)
          /\ \A q \in Key : Lookup(table'.entries, q) = IF q = k THEN v ELSE D[q]
      BY <2>3, SetStep
    <3>2. D' = [D EXCEPT ![k] = v]
      BY <3>1
    <3> QED
      BY <3>1, <3>2
         DEF MapOfTable!Set, MapOfTable!Present, MapOfTable!Result, Result
  <2>4. ASSUME NEW k \in Key, NEW v \in Value, tableSetGrowing(k, v)
        PROVE  UNCHANGED <<D, ret>>
    BY <2>4, GrowStep
  <2>5. ASSUME moveEntry PROVE UNCHANGED <<D, ret>>
    BY <2>5, MoveStep
  <2>6. ASSUME finishSet PROVE MapOfTable!Set(call.key, call.value)
    <3>1. call.key \in Key
      BY <2>6, FinishStep
    <3>2. /\ ret' = Result(~(D[call.key] # ABSENT), ABSENT)
          /\ \A q \in Key : Lookup(table'.entries, q) =
                              IF q = call.key THEN call.value ELSE D[q]
      BY <2>6, <3>1, FinishStep
    <3>3. D' = [D EXCEPT ![call.key] = call.value]
      BY <3>2
    <3> QED
      BY <3>2, <3>3
         DEF MapOfTable!Set, MapOfTable!Present, MapOfTable!Result, Result
  <2>7. ASSUME NEW marked \in SUBSET Key, tableRemoveWhite(marked)
        PROVE  MapOfTable!Retain(marked)
    <3>1. /\ ret' = ret
          /\ \A q \in Key : Lookup(table'.entries, q) =
                              IF q \in marked THEN D[q] ELSE ABSENT
      BY <2>7, RemoveWhiteStep
    <3> QED
      BY <3>1 DEF MapOfTable!Retain
  <2>8. ASSUME freeTable PROVE MapOfTable!Clear
    <3>1. ret' = ret /\ \A q \in Key : Lookup(table'.entries, q) = ABSENT
      BY <2>8, FreeStep
    <3> QED
      BY <3>1 DEF MapOfTable!Clear
  <2>9. ASSUME UNCHANGED vars PROVE UNCHANGED <<D, ret>>
    BY <2>9 DEF vars
  <2>10. finishSet => call.key \in Key /\ call.value \in Value
    BY FinishStep
  <2> QED
    BY <2>1, <2>2, <2>3, <2>4, <2>5, <2>6, <2>7, <2>8, <2>9, <2>10
       DEF Next, Growing, MapOfTable!Next
<1> QED
  BY <1>1, <1>2, Invariance, PTL DEF Spec, ImplementsMap, MapOfTable!Spec

=============================================================================
