------------------------------- MODULE Table -------------------------------
(***************************************************************************)
(* The hash table of table.c: open addressing, linear probing, tombstones, *)
(* growth at three quarters of the array.                                  *)
(*                                                                         *)
(* A slot is free when its key is NULL and its value NIL, a tombstone when *)
(* its key is NULL and its value TRUE_VAL.  As in the source, capacity is  *)
(* the index mask: the number of slots less one, -1 for no array at all.   *)
(*                                                                         *)
(* tableSet runs in several steps when it has to grow: adjustCapacity      *)
(* allocates the new array and then moves one slot of the old one per      *)
(* step.  Every other operation is one step.                               *)
(***************************************************************************)
EXTENDS Integers, FiniteSets

CONSTANTS
  Key,          \* string objects, compared by identity
  Value,        \* values, NIL and TRUE_VAL among them
  NIL, TRUE_VAL,
  NULL,         \* the null key
  ABSENT,       \* result of a lookup that finds nothing
  Hash,         \* hash code of each key
  MinSlots,     \* slots of the first array: 8 in GROW_CAPACITY
  MaxSlots      \* bound of the model: the table does not outgrow this

ASSUME TableAssumption ==
  /\ NULL \notin Key
  /\ {NIL, TRUE_VAL} \subseteq Value
  /\ NIL # TRUE_VAL
  /\ ABSENT \notin Value
  /\ Hash \in [Key -> Nat]
  /\ MinSlots \in Nat /\ MinSlots >= 4
  /\ MaxSlots \in Nat

VARIABLES
  table,   \* the Table structure: count, capacity, entries
  fresh,   \* the array adjustCapacity is filling
  scan,    \* index of the old slot it moves next
  call,    \* the tableSet waiting for it, or Idle
  ret      \* what the last completed call returned

vars == <<table, fresh, scan, call, ret>>

Free      == [key |-> NULL, value |-> NIL]
Tombstone == [key |-> NULL, value |-> TRUE_VAL]
Occupied  == [key : Key, value : Value]
Entry     == Occupied \cup {Free, Tombstone}

Idle          == [busy |-> FALSE]
Setting(k, v) == [busy |-> TRUE, key |-> k, value |-> v]

Result(ok, v) == [ok |-> ok, value |-> v]

Slots(entries) == DOMAIN entries
NoEntries      == [i \in 0..(-1) |-> Free]
EmptyArray(n)  == [i \in 0..(n-1) |-> Free]

Used(entries)  == {i \in Slots(entries) : entries[i] # Free}

GrowSlots(n) == IF n < MinSlots THEN MinSlots ELSE 2 * n

----------------------------------------------------------------------------
(* Probing.                                                                *)

(* The source masks the hash, which is this: the numbers of slots are      *)
(* powers of two.                                                          *)
Home(k, capacity) == Hash[k] % (capacity + 1)

(* Number of probes that lead from the home slot h to slot i.              *)
Distance(h, i, capacity) == IF h <= i THEN i - h ELSE i - h + capacity + 1

(* The member of a set of slots that the probe for k reaches first.        *)
FirstProbed(k, capacity, S) ==
  LET d(i) == Distance(Home(k, capacity), i, capacity)
  IN  CHOOSE i \in S : \A j \in S : d(i) <= d(j)

(* Where the probe loop for k stops: a free slot or the key itself.  With  *)
(* no such slot the loop of the source never ends.                         *)
Stops(entries, k) ==
  {i \in Slots(entries) : entries[i] = Free \/ entries[i].key = k}

(* Variant that gives up at the first tombstone instead of looking on.     *)
findEntryEager(entries, capacity, k) ==
  FirstProbed(k, capacity,
    Stops(entries, k) \cup {i \in Slots(entries) : entries[i] = Tombstone})

(* The slot findEntry returns: the key's, or else the first tombstone that *)
(* the probe passed, or else the free slot that ended it.                  *)
findEntry(entries, capacity, k) ==
  LET h      == Home(k, capacity)
      stop   == FirstProbed(k, capacity, Stops(entries, k))
      passed == {i \in Slots(entries) :
                   /\ entries[i] = Tombstone
                   /\ Distance(h, i, capacity) < Distance(h, stop, capacity)}
  IN  IF entries[stop].key = k \/ passed = {}
      THEN stop
      ELSE FirstProbed(k, capacity, passed)

----------------------------------------------------------------------------
(* Operations.                                                             *)

initTable == [count |-> 0, capacity |-> -1, entries |-> NoEntries]

Init ==
  /\ table = initTable
  /\ fresh = NoEntries
  /\ scan  = 0
  /\ call  = Idle
  /\ ret   = Result(FALSE, ABSENT)

(* Variant that moves on only from a slot that it copied.                  *)
moveEntryStuck ==
  /\ call # Idle
  /\ scan <= table.capacity
  /\ table.entries[scan].key # NULL
  /\ scan' = scan + 1
  /\ LET e == table.entries[scan]
         n == GrowSlots(table.capacity + 1)
     IN  fresh' = [fresh EXCEPT ![findEntry(fresh, n - 1, e.key)] = e]
  /\ table' = [table EXCEPT !.count = @ + 1]
  /\ UNCHANGED <<call, ret>>

(* Variant that installs the number of slots where the mask belongs.       *)
finishSetUnmasked ==
  /\ call # Idle
  /\ scan > table.capacity
  /\ table' = [count    |-> table.count,
               capacity |-> GrowSlots(table.capacity + 1),
               entries  |-> fresh]
  /\ fresh' = NoEntries
  /\ scan'  = 0
  /\ call'  = Idle
  /\ ret'   = Result(TRUE, ABSENT)

(* The table t with a tombstone on each of the slots D.                    *)
Bury(t, D) ==
  [t EXCEPT !.entries =
     [i \in DOMAIN t.entries |-> IF i \in D THEN Tombstone ELSE t.entries[i]]]

(* Variants of tableDelete: one that frees the slot, one that also takes   *)
(* the key off the count.                                                  *)
Burying(k, grave, loss) ==
  /\ call = Idle
  /\ table.count # 0
  /\ LET i == findEntry(table.entries, table.capacity, k)
     IN  /\ table.entries[i].key # NULL
         /\ table' = [table EXCEPT !.entries[i] = grave, !.count = @ - loss]
  /\ ret' = Result(TRUE, ABSENT)
  /\ UNCHANGED <<fresh, scan, call>>

tableDeleteFreeing(k)    == Burying(k, Free, 0)
tableDeleteDiscounted(k) == Burying(k, Tombstone, 1)

(* The end of tableSet: store k and v in t, whose array has room.          *)
Store(t, k, v) ==
  LET i     == findEntry(t.entries, t.capacity, k)
      isNew == t.entries[i].key = NULL
  IN  /\ table' = [count    |-> IF isNew /\ t.entries[i].value = NIL
                               THEN t.count + 1 ELSE t.count,
                   capacity |-> t.capacity,
                   entries  |-> [t.entries EXCEPT ![i] = [key |-> k, value |-> v]]]
      /\ ret'   = Result(isNew, ABSENT)

tableGet(k) ==
  /\ call = Idle
  /\ IF table.count = 0
     THEN ret' = Result(FALSE, ABSENT)
     ELSE LET e == table.entries[findEntry(table.entries, table.capacity, k)]
          IN  ret' = IF e.key = NULL THEN Result(FALSE, ABSENT)
                                     ELSE Result(TRUE, e.value)
  /\ UNCHANGED <<table, fresh, scan, call>>

(* count + 1 > (capacity + 1) * 0.75                                       *)
MustGrow == 4 * (table.count + 1) > 3 * (table.capacity + 1)

tableSet(k, v) ==
  /\ call = Idle
  /\ ~MustGrow
  /\ Store(table, k, v)
  /\ UNCHANGED <<fresh, scan, call>>

(* tableSet calls adjustCapacity: a new array, and the count starts over.  *)
tableSetGrowing(k, v) ==
  /\ call = Idle
  /\ MustGrow
  /\ GrowSlots(table.capacity + 1) <= MaxSlots
  /\ fresh' = EmptyArray(GrowSlots(table.capacity + 1))
  /\ scan'  = 0
  /\ call'  = Setting(k, v)
  /\ table' = [table EXCEPT !.count = 0]
  /\ UNCHANGED ret

(* One turn of adjustCapacity's loop.                                      *)
moveEntry ==
  /\ call # Idle
  /\ scan <= table.capacity
  /\ scan' = scan + 1
  /\ LET e == table.entries[scan]
         n == GrowSlots(table.capacity + 1)
     IN  IF e.key = NULL
         THEN UNCHANGED <<fresh, table>>
         ELSE /\ fresh' = [fresh EXCEPT ![findEntry(fresh, n - 1, e.key)] = e]
              /\ table' = [table EXCEPT !.count = @ + 1]
  /\ UNCHANGED <<call, ret>>

(* adjustCapacity installs the new array and tableSet goes on to store.    *)
finishSet ==
  /\ call # Idle
  /\ scan > table.capacity
  /\ Store([count    |-> table.count,
            capacity |-> GrowSlots(table.capacity + 1) - 1,
            entries  |-> fresh],
           call.key, call.value)
  /\ fresh' = NoEntries
  /\ scan'  = 0
  /\ call'  = Idle

tableDelete(k) ==
  /\ call = Idle
  /\ LET i == findEntry(table.entries, table.capacity, k)
     IN  IF table.count = 0 \/ table.entries[i].key = NULL
         THEN /\ ret' = Result(FALSE, ABSENT)
              /\ UNCHANGED table
         ELSE /\ table' = Bury(table, {i})
              /\ ret'   = Result(TRUE, ABSENT)
  /\ UNCHANGED <<fresh, scan, call>>

(* The garbage collector drops the keys that it has not marked: for each   *)
(* slot that holds one, tableDelete buries the slot that findEntry finds.  *)
tableRemoveWhite(marked) ==
  /\ call = Idle
  /\ LET white == {table.entries[i].key : i \in Slots(table.entries)}
                    \ (marked \cup {NULL})
         dead  == {findEntry(table.entries, table.capacity, k) : k \in white}
     IN  table' = Bury(table, dead)
  /\ UNCHANGED <<fresh, scan, call, ret>>

freeTable ==
  /\ call = Idle
  /\ table' = initTable
  /\ UNCHANGED <<fresh, scan, call, ret>>

Growing == moveEntry \/ finishSet

Next ==
  \/ \E k \in Key : tableGet(k) \/ tableDelete(k)
  \/ \E k \in Key, v \in Value : tableSet(k, v) \/ tableSetGrowing(k, v)
  \/ Growing
  \/ \E marked \in SUBSET Key : tableRemoveWhite(marked)
  \/ freeTable

Spec == Init /\ [][Next]_vars

(* A call that has started runs to its end: nothing can suspend it.        *)
FairSpec == Spec /\ WF_vars(Growing)

----------------------------------------------------------------------------
(* Properties.                                                             *)

(* Every variable has the shape its C declaration gives it; capacity is    *)
(* the mask of the array, and a table that grows already has an array with *)
(* twice the slots in hand.                                                *)
TypeOK ==
  /\ table \in [count : Nat, capacity : Nat \cup {-1},
                entries : [0..table.capacity -> Entry]]
  /\ call \in {Idle} \cup {Setting(k, v) : k \in Key, v \in Value}
  /\ scan \in 0..(table.capacity + 1)
  /\ ret \in [ok : BOOLEAN, value : Value \cup {ABSENT}]
  /\ fresh \in [0..(IF call = Idle THEN -1 ELSE GrowSlots(table.capacity + 1) - 1)
                  -> Entry]

(* Tombstones stay in the count, so a quarter of the array is always free: *)
(* that is the only reason why the loop of findEntry ends.  The array that *)
(* adjustCapacity fills obeys the same bound at every one of its steps.    *)
LoadBounded ==
  LET entries == IF call = Idle THEN table.entries ELSE fresh
  IN  /\ table.count = Cardinality(Used(entries))
      /\ 4 * table.count <= 3 * Cardinality(Slots(entries))

(* A slot that holds a key is the one a probe for that key arrives at,     *)
(* whatever was deleted, buried or moved since the key was stored.  Hence  *)
(* no key is stored twice and none is out of reach behind a free slot.     *)
Reachable(entries, capacity) ==
  \A i \in Slots(entries) :
    entries[i].key # NULL => findEntry(entries, capacity, entries[i].key) = i

LookupFindsEveryKey ==
  /\ Reachable(table.entries, table.capacity)
  /\ call # Idle => Reachable(fresh, GrowSlots(table.capacity + 1) - 1)

(* The map that the slots stand for.                                       *)
Lookup(entries, k) ==
  IF \E i \in Slots(entries) : entries[i].key = k
  THEN entries[CHOOSE i \in Slots(entries) : entries[i].key = k].value
  ELSE ABSENT

MapOfTable == INSTANCE Map WITH dict <- [k \in Key |-> Lookup(table.entries, k)]

(* The table is a map: through collisions, tombstones, growth and the      *)
(* burials of the collector, every call returns what a map would return    *)
(* and changes what a map would change, and the steps inside adjustCapacity *)
(* change nothing that a client can see.                                   *)
ImplementsMap == MapOfTable!Spec

(* Growth ends and the tableSet that asked for it completes.               *)
SetCompletes == call # Idle ~> call = Idle
=============================================================================
