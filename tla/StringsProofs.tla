--------------------------- MODULE StringsProofs ---------------------------
(***************************************************************************)
(* Interning keeps one object for each text.  What it asks of the table is *)
(* what TableProofs shows of its array: no free slot lies between the home *)
(* of a key and the key's own slot.  Equal texts have equal hash codes, so *)
(* a probe by characters takes the same way as a probe by key.             *)
(***************************************************************************)
EXTENDS Strings, TableProofs

----------------------------------------------------------------------------
(* The table as interning uses it.                                         *)

Stored(k) == \E i \in Slots(table.entries) : table.entries[i].key = k

(* A lookup by characters returns a stored key with these characters, if   *)
(* there is one.                                                           *)
LEMMA FindStringFinds ==
  ASSUME IInv, call = Idle, NEW c \in Chars
  PROVE  /\ (\E k \in Key : Stored(k) /\ CharsOf[k] = c) =>
              /\ tableFindString(c) \in Key
              /\ Stored(tableFindString(c))
              /\ CharsOf[tableFindString(c)] = c
         /\ ~(\E k \in Key : Stored(k) /\ CharsOf[k] = c) =>
              tableFindString(c) = NULL
<1>1. PICK E : E = table.entries
  OBVIOUS
<1>2. PICK m : m = table.capacity
  OBVIOUS
<1>3. m \in Nat \cup {-1} /\ E \in Array(m) /\ Slots(E) = 0..m
  BY <1>1, <1>2, TypeFacts DEF IInv, Array, Slots
<1>4. \A i \in 0..m : E[i] \in Entry /\ E[i].key \in Key \cup {NULL}
  BY <1>3, EntryFacts DEF Array
<1>5. CASE table.count = 0
  <2>1. Used(E) = {}
    BY <1>1, <1>3, <1>5, UsedIsFinite, FS_EmptySet DEF IInv, Sized
  <2>2. \A i \in 0..m : E[i] = Free
    BY <2>1, <1>3 DEF Used
  <2>3. \A k \in Key : ~Stored(k)
    BY <2>2, <1>1, <1>3, SpecialEntries DEF Stored
  <2>4. tableFindString(c) = NULL
    BY <1>5 DEF tableFindString, FindAmong
  <2> QED
    BY <2>3, <2>4
<1>6. CASE table.count # 0
  <2> DEFINE S == {i \in Slots(table.entries) :
                     table.entries[i] = Free \/ HasChars(i, c)}
             k == CHOOSE k \in Key : CharsOf[k] = c
             f == FirstProbed(k, m, S)
  <2>1. k \in Key /\ CharsOf[k] = c
    BY StringsAssumption
  <2>2. m \in Nat /\ \E i \in 0..m : E[i] = Free
    BY <1>1, <1>2, <1>6, IdleHasRoom
  <2>3. S \in SUBSET (0..m) /\ S # {}
    BY <1>1, <1>3, <2>2
  <2> HIDE DEF k
  <2>4. /\ f \in S
        /\ \A j \in S : Distance(Home(k, m), f, m) <= Distance(Home(k, m), j, m)
    BY <2>1, <2>2, <2>3, FirstProbedIsFirst
  <2>5. tableFindString(c) = E[f].key
    BY <1>1, <1>2, <1>6 DEF tableFindString, FindAmong, k
  <2>6. ASSUME NEW i \in 0..m, HasChars(i, c) PROVE E[f] # Free
    <3>1. i \in S /\ f \in 0..m
      BY <2>3, <2>4, <2>6, <1>1, <1>3
    <3>2. E[i].key \in Key /\ CharsOf[E[i].key] = c
      BY <2>6, <1>1, <1>4 DEF HasChars
    <3>3. Home(E[i].key, m) = Home(k, m)
      BY <3>2, <2>1, StringsAssumption DEF Home
    <3>4. NoGap(E, m, E[i].key, i)
      BY <1>1, <1>2, <3>2, SpecialEntries DEF IInv, Sound, Chained
    <3>5. E[f] = Free => ~(Distance(Home(k, m), f, m) < Distance(Home(k, m), i, m))
      BY <3>1, <3>3, <3>4 DEF NoGap
    <3>6. E[f] = Free => f # i
      BY <3>2, SpecialEntries
    <3>7. Distance(Home(k, m), f, m) <= Distance(Home(k, m), i, m)
      BY <2>4, <3>1
    <3>8. /\ Distance(Home(k, m), f, m) \in 0..m
          /\ Distance(Home(k, m), i, m) \in 0..m
          /\ Distance(Home(k, m), f, m) = Distance(Home(k, m), i, m) => f = i
      BY <2>1, <2>2, <3>1, HomeInRange, DistanceInjective, SMTT(30)
    <3> QED
      BY <3>5, <3>6, <3>7, <3>8
  <2>7. E[f] = Free \/ (HasChars(f, c) /\ f \in 0..m)
    BY <2>3, <2>4, <1>1
  <2>8. HasChars(f, c) /\ f \in 0..m =>
          /\ E[f].key \in Key /\ CharsOf[E[f].key] = c /\ Stored(E[f].key)
    BY <1>1, <1>3, <1>4 DEF HasChars, Stored
  <2>9. (\E q \in Key : Stored(q) /\ CharsOf[q] = c) <=> \E i \in 0..m : HasChars(i, c)
    BY <1>1, <1>3, <1>4, SpecialEntries DEF HasChars, Stored
  <2> QED
    BY <2>5, <2>6, <2>7, <2>8, <2>9, SpecialEntries
<1> QED
  BY <1>5, <1>6

(* What is stored is what Lookup finds, so that the lemmas on the map that *)
(* the table stands for say what each operation does to the set of keys.   *)
LEMMA StoredIsFound ==
  IInv => \A k \in Key : Stored(k) <=> Lookup(table.entries, k) # ABSENT
<1> SUFFICES ASSUME IInv, NEW k \in Key
             PROVE  Stored(k) <=> Lookup(table.entries, k) # ABSENT
  OBVIOUS
<1>1. /\ table.capacity \in Nat \cup {-1}
      /\ table.entries \in Array(table.capacity) /\ Unique(table.entries)
      /\ Slots(table.entries) = 0..table.capacity
  BY TypeFacts DEF IInv, Sound, Array, Slots
<1> QED
  BY <1>1, LookupReads DEF Stored

LEMMA StoredIsFoundNext ==
  (IInv => \A k \in Key : Stored(k) <=> Lookup(table.entries, k) # ABSENT)'
<1>1. IInv => \A k \in Key : Stored(k) <=> Lookup(table.entries, k) # ABSENT
  BY StoredIsFound
<1> QED
  BY <1>1, PTL

(* Each step of an interning does to the table what some client may do.    *)
LEMMA TableSteps ==
  ASSUME StringsTypeOK, [NextStrings]_<<vars, stringVars>>
  PROVE  [Next]_vars
<1>1. NIL \in Value /\ string \in Key \cup {NULL} /\ held \in SUBSET Key
  BY TableAssumption DEF StringsTypeOK
<1>2. CASE growTable
  BY <1>1, <1>2 DEF growTable, StringsTypeOK, Next, Growing
<1>3. CASE storeString
  BY <1>1, <1>3 DEF storeString, StringsTypeOK, Next, Growing
<1>4. CASE collectGarbage
  BY <1>1, <1>4 DEF collectGarbage, Next
<1>5. ASSUME NEW c \in Chars, copyString(c) \/ takeString(c) PROVE UNCHANGED vars
  BY <1>5 DEF copyString, takeString, FindOrMake
<1>6. ASSUME NEW k \in Key, allocateString(k) \/ drop(k) PROVE UNCHANGED vars
  BY <1>6 DEF allocateString, drop
<1>7. CASE allocateChars
  BY <1>7 DEF allocateChars
<1>8. CASE UNCHANGED <<vars, stringVars>>
  BY <1>8
<1> QED
  BY <1>2, <1>3, <1>4, <1>5, <1>6, <1>7, <1>8 DEF NextStrings

----------------------------------------------------------------------------
(* The inductive invariant.  Neither property is inductive: that there is  *)
(* no other object for the text under way must be known from the lookup on *)
(* (Missing), although the collector may run and the table move before the *)
(* object is stored; and the table has exactly the objects in memory, but  *)
(* for the one that allocateString has just made (Indexed).                *)

Indexed == \A k \in Key : Stored(k) <=> k \in heap /\ k # string

Missing == step \in {"chars", "object"} => \A k \in heap : CharsOf[k] # chars

Rooted == string # NULL => string \in held

Growth == call # Idle => call.key = string

SInv ==
  /\ StringsTypeOK
  /\ IInv
  /\ Indexed
  /\ Missing
  /\ Rooted
  /\ Growth
  /\ OneObjectPerString

(* A step that leaves the table alone, in one conjunct.                    *)
LEMMA SameTable ==
  ASSUME UNCHANGED vars
  PROVE  /\ IInv => IInv'
         /\ TypeOK => TypeOK'
         /\ Idle' = Idle
         /\ \A k \in Key : Stored(k)' <=> Stored(k)
BY DEF vars, IInv, TypeOK, Sized, Copied, NewMask, Stored

LEMMA FindOrMakeStep ==
  ASSUME SInv, NEW c \in Chars, NEW first \in {"chars", "object"}, FindOrMake(c, first)
  PROVE  SInv'
<1> DEFINE found == tableFindString(c)
<1>1. /\ step = "idle" /\ call = Idle /\ string = NULL
      /\ chars' = c /\ UNCHANGED <<vars, heap, string>>
      /\ found # NULL => held' = held \cup {found} /\ step' = step
      /\ found = NULL => held' = held /\ step' = first
  BY DEF FindOrMake, SInv, StringsTypeOK
<1>2. found # NULL => found \in heap
  BY <1>1, FindStringFinds, SpecialEntries DEF SInv, Indexed
<1>3. found = NULL => \A k \in heap : CharsOf[k] # c
  BY <1>1, FindStringFinds, SpecialEntries DEF SInv, Indexed, StringsTypeOK
<1>4. UNCHANGED vars
  BY <1>1
<1> HIDE DEF found
<1>5. StringsTypeOK'
  BY <1>1, <1>2, <1>4, SameTable DEF SInv, StringsTypeOK, Steps, vars
<1>6. Missing'
  BY <1>1, <1>3 DEF SInv, Missing
<1>7. Indexed' /\ Rooted' /\ Growth' /\ OneObjectPerString'
  BY <1>1, <1>4, SameTable DEF SInv, Indexed, Rooted, Growth, OneObjectPerString, vars
<1> QED
  BY <1>4, <1>5, <1>6, <1>7, SameTable DEF SInv

LEMMA AllocateCharsStep == ASSUME SInv, allocateChars PROVE SInv'
<1>1. /\ step = "chars" /\ step' = "object"
      /\ UNCHANGED vars /\ UNCHANGED <<heap, held, chars, string>>
  BY DEF allocateChars
<1>2. StringsTypeOK'
  BY <1>1, SameTable DEF SInv, StringsTypeOK, Steps, vars
<1>3. Indexed' /\ Missing' /\ Rooted' /\ Growth' /\ OneObjectPerString'
  BY <1>1, SameTable
     DEF SInv, Indexed, Missing, Rooted, Growth, OneObjectPerString, vars
<1> QED
  BY <1>1, <1>2, <1>3, SameTable DEF SInv

LEMMA AllocateStringStep ==
  ASSUME SInv, NEW k \in Key, allocateString(k)
  PROVE  SInv'
<1>1. /\ step = "object" /\ step' = "table" /\ string' = k
      /\ k \notin heap /\ CharsOf[k] = chars
      /\ heap' = heap \cup {k} /\ held' = held \cup {k}
      /\ UNCHANGED vars /\ UNCHANGED chars
  BY DEF allocateString
<1>2. call = Idle /\ string = NULL /\ k # NULL
  BY <1>1, SpecialEntries DEF SInv, StringsTypeOK
<1>3. StringsTypeOK'
  BY <1>1, <1>2, SameTable DEF SInv, StringsTypeOK, Steps, vars
<1>4. Indexed'
  BY <1>1, <1>2, SameTable, SpecialEntries DEF SInv, Indexed
<1>5. OneObjectPerString'
  BY <1>1 DEF SInv, Missing, OneObjectPerString
<1>6. Missing' /\ Rooted' /\ Growth'
  BY <1>1, <1>2 DEF Missing, Rooted, Growth, vars
<1> QED
  BY <1>1, <1>3, <1>4, <1>5, <1>6, SameTable DEF SInv

LEMMA DropStep ==
  ASSUME SInv, NEW k \in Key, drop(k)
  PROVE  SInv'
<1>1. /\ step = "idle" /\ held' = held \ {k}
      /\ UNCHANGED vars /\ UNCHANGED <<heap, step, chars, string>>
  BY DEF drop
<1>2. string = NULL
  BY <1>1 DEF SInv, StringsTypeOK
<1>3. StringsTypeOK'
  BY <1>1, SameTable DEF SInv, StringsTypeOK, vars
<1>4. Indexed' /\ Missing' /\ Rooted' /\ Growth' /\ OneObjectPerString'
  BY <1>1, <1>2, SameTable
     DEF SInv, Indexed, Missing, Rooted, Growth, OneObjectPerString, vars
<1> QED
  BY <1>1, <1>3, <1>4, SameTable DEF SInv

(* The array that adjustCapacity fills is nobody's table yet.              *)
LEMMA GrowTableStep == ASSUME SInv, growTable PROVE SInv'
<1>1. /\ step = "table" /\ UNCHANGED <<heap, held, step, chars, string>>
      /\ tableSetGrowing(string, NIL) \/ moveEntry
  BY DEF growTable, stringVars
<1>2. string \in Key /\ NIL \in Value
  BY <1>1, TableAssumption DEF SInv, StringsTypeOK
<1>3. IInv' /\ table'.entries = table.entries
  BY <1>1, <1>2, GrowStep, MoveStep DEF SInv
<1>4. call' # Idle => call'.key = string
  BY <1>1 DEF SInv, Growth, tableSetGrowing, moveEntry, Setting
<1>5. StringsTypeOK'
  BY <1>1, <1>3 DEF SInv, StringsTypeOK, IInv
<1>6. Indexed'
  BY <1>1, <1>3 DEF SInv, Indexed, Stored
<1>7. Missing' /\ Rooted' /\ Growth' /\ OneObjectPerString'
  BY <1>1, <1>4 DEF SInv, Missing, Rooted, Growth, OneObjectPerString, Idle
<1> QED
  BY <1>3, <1>5, <1>6, <1>7 DEF SInv

LEMMA StoreStringStep == ASSUME SInv, storeString PROVE SInv'
<1>1. /\ step = "table" /\ step' = "idle" /\ string' = NULL
      /\ UNCHANGED <<heap, held, chars>>
      /\ tableSet(string, NIL) \/ finishSet
  BY DEF storeString
<1>2. string \in Key /\ NIL \in Value
  BY <1>1, TableAssumption DEF SInv, StringsTypeOK
<1>3. /\ IInv'
      /\ \A q \in Key : Lookup(table'.entries, q) # ABSENT <=>
                          q = string \/ Lookup(table.entries, q) # ABSENT
  <2>1. CASE tableSet(string, NIL)
    BY <2>1, <1>2, SetStep, TableAssumption DEF SInv
  <2>2. CASE finishSet
    <3>1. call.key = string
      BY <2>2 DEF SInv, Growth, finishSet
    <3> QED
      BY <2>2, <3>1, FinishStep, TableAssumption DEF SInv
  <2> QED
    BY <1>1, <2>1, <2>2
<1>4. call' = Idle
  BY <1>1 DEF tableSet, finishSet
<1>5. StringsTypeOK'
  BY <1>1, <1>3, <1>4 DEF SInv, StringsTypeOK, IInv, Steps, Idle
<1>6. \A q \in Key : Stored(q)' <=> q = string \/ Stored(q)
  BY <1>3, StoredIsFound, StoredIsFoundNext DEF SInv
<1>7. Indexed'
  BY <1>1, <1>6, <1>2, SpecialEntries DEF SInv, Indexed, StringsTypeOK
<1>8. Missing' /\ Rooted' /\ Growth' /\ OneObjectPerString'
  BY <1>1, <1>4 DEF SInv, Missing, Rooted, Growth, OneObjectPerString, Idle
<1> QED
  BY <1>3, <1>5, <1>7, <1>8 DEF SInv

(* The collector takes the same strings from memory and from the table.    *)
LEMMA CollectStep == ASSUME SInv, collectGarbage PROVE SInv'
<1>1. /\ call = Idle /\ heap' = held /\ tableRemoveWhite(held)
      /\ UNCHANGED <<held, step, chars, string>>
  BY DEF collectGarbage, Allocates
<1>2. held \in SUBSET Key /\ held \subseteq heap
  BY DEF SInv, StringsTypeOK
<1>3. /\ IInv'
      /\ \A q \in Key : Lookup(table'.entries, q) # ABSENT <=>
                          q \in held /\ Lookup(table.entries, q) # ABSENT
  BY <1>1, <1>2, RemoveWhiteStep DEF SInv
<1>4. call' = Idle
  BY <1>1 DEF tableRemoveWhite
<1>5. StringsTypeOK'
  BY <1>1, <1>2, <1>3, <1>4 DEF SInv, StringsTypeOK, Rooted, IInv, Idle
<1>6. \A q \in Key : Stored(q)' <=> q \in held /\ Stored(q)
  BY <1>3, StoredIsFound, StoredIsFoundNext DEF SInv
<1>7. Indexed'
  BY <1>1, <1>2, <1>6 DEF SInv, Indexed
<1>8. Missing' /\ Rooted' /\ Growth' /\ OneObjectPerString'
  BY <1>1, <1>2, <1>4 DEF SInv, Missing, Rooted, Growth, OneObjectPerString, Idle
<1> QED
  BY <1>3, <1>5, <1>7, <1>8 DEF SInv

LEMMA InitSInv == InitStrings => SInv
<1> SUFFICES ASSUME InitStrings PROVE SInv
  OBVIOUS
<1>1. IInv
  BY InitIInv DEF InitStrings
<1>2. call = Idle /\ \A k \in Key : ~Stored(k)
  BY DEF InitStrings, Init, initTable, NoEntries, Stored, Slots
<1> QED
  BY <1>1, <1>2 DEF InitStrings, SInv, StringsTypeOK, IInv, Steps, Indexed, Missing,
                    Rooted, Growth, OneObjectPerString

LEMMA NextSInv == SInv /\ [NextStrings]_<<vars, stringVars>> => SInv'
<1> SUFFICES ASSUME SInv, [NextStrings]_<<vars, stringVars>> PROVE SInv'
  OBVIOUS
<1>1. ASSUME NEW c \in Chars, copyString(c) \/ takeString(c) PROVE SInv'
  BY <1>1, FindOrMakeStep DEF copyString, takeString
<1>2. ASSUME NEW k \in Key, allocateString(k) \/ drop(k) PROVE SInv'
  BY <1>2, AllocateStringStep, DropStep
<1>3. CASE allocateChars
  BY <1>3, AllocateCharsStep
<1>4. CASE growTable
  BY <1>4, GrowTableStep
<1>5. CASE storeString
  BY <1>5, StoreStringStep
<1>6. CASE collectGarbage
  BY <1>6, CollectStep
<1>7. CASE UNCHANGED <<vars, stringVars>>
  <2>1. UNCHANGED vars /\ UNCHANGED <<heap, held, step, chars, string>>
    BY <1>7 DEF stringVars
  <2>2. StringsTypeOK'
    BY <2>1, SameTable DEF SInv, StringsTypeOK, vars
  <2>3. Indexed' /\ Missing' /\ Rooted' /\ Growth' /\ OneObjectPerString'
    BY <2>1, SameTable
       DEF SInv, Indexed, Missing, Rooted, Growth, OneObjectPerString, vars
  <2> QED
    BY <2>1, <2>2, <2>3, SameTable DEF SInv
<1> QED
  BY <1>1, <1>2, <1>3, <1>4, <1>5, <1>6, <1>7 DEF NextStrings

LEMMA SInvHolds == SpecStrings => []SInv
BY InitSInv, NextSInv, PTL DEF SpecStrings

----------------------------------------------------------------------------
(* The theorems.                                                           *)

(* The table stays well formed under interning and collection, and a new   *)
(* string is in memory until it has been stored.                           *)
THEOREM StringsTypeCorrect == SpecStrings => []StringsTypeOK
<1>1. SInv => StringsTypeOK
  BY DEF SInv
<1> QED
  BY <1>1, SInvHolds, PTL

(* Equal strings are one object, for every hash function that depends on   *)
(* the characters, every set of texts and every number of addresses.       *)
THEOREM StringsAreUnique == SpecStrings => []OneObjectPerString
<1>1. SInv => OneObjectPerString
  BY DEF SInv
<1> QED
  BY <1>1, SInvHolds, PTL

(* Whatever was collected, a lookup by characters finds every string that  *)
(* is in memory and in the table, and no string that was freed.            *)
THEOREM StringsAreFound == SpecStrings => []EveryStringIsFound
<1>1. SInv => EveryStringIsFound
  <2> SUFFICES ASSUME SInv, call = Idle, NEW c \in Chars
               PROVE  LET strings == {k \in heap \ {string} : CharsOf[k] = c}
                      IN  IF strings = {} THEN tableFindString(c) = NULL
                                          ELSE tableFindString(c) \in strings
    BY DEF EveryStringIsFound
  <2>1. IInv /\ heap \subseteq Key
    BY DEF SInv, StringsTypeOK
  <2>2. \A k \in Key : Stored(k) /\ CharsOf[k] = c <=>
                         k \in {q \in heap \ {string} : CharsOf[q] = c}
    BY <2>1 DEF SInv, Indexed
  <2> QED
    BY <2>1, <2>2, FindStringFinds
<1> QED
  BY <1>1, SInvHolds, PTL

(* Interning uses the table as a table may be used, so that what is proved *)
(* of tables is true of vm.strings, at every step of an interning.         *)
THEOREM StringsUseTable == SpecStrings => Spec
<1>1. InitStrings => Init
  BY DEF InitStrings
<1>2. SInv /\ [NextStrings]_<<vars, stringVars>> => [Next]_vars
  BY TableSteps DEF SInv
<1> QED
  BY <1>1, <1>2, SInvHolds, PTL DEF SpecStrings, Spec
=============================================================================
