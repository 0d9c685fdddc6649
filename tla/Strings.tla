------------------------------ MODULE Strings ------------------------------
(***************************************************************************)
(* Interning: copyString and takeString of object.c over vm.strings, the   *)
(* table of table.c, with the collector in between.                        *)
(*                                                                         *)
(* Two strings are equal to the interpreter if they are one object, so     *)
(* there must never be two objects with the same characters.  A string is  *)
(* looked up, then memory is asked for up to three times (characters,      *)
(* object, a larger table), and only then is it in the table; each time    *)
(* the collector may free strings and bury their entries.                  *)
(*                                                                         *)
(* The keys of the table are the addresses of string objects; to keep the  *)
(* hash code a function of the key, an address is reused for the same      *)
(* characters only.                                                        *)
(***************************************************************************)
EXTENDS Table

CONSTANTS
  Chars,   \* sequences of characters
  CharsOf  \* the characters of the string at an address

ASSUME StringsAssumption ==
  /\ CharsOf \in [Key -> Chars]
  /\ \A c \in Chars : \E k \in Key : CharsOf[k] = c
  /\ \A k, l \in Key : CharsOf[k] = CharsOf[l] => Hash[k] = Hash[l]

VARIABLES
  heap,    \* string objects in memory
  held,    \* those that the collector marks: on the stack, constants, names...
  step,    \* what the interning under way does next, or "idle"
  chars,   \* the characters it interns
  string   \* the object it has made for them, or NULL

stringVars == <<heap, held, step, chars, string>>

Steps == {"idle", "chars", "object", "table"}

----------------------------------------------------------------------------
HasChars(i, c) ==
  table.entries[i].key # NULL /\ CharsOf[table.entries[i].key] = c

(* What a probe for the characters c finds if it stops at the slots S.     *)
FindAmong(S, c) ==
  IF table.count = 0
  THEN NULL
  ELSE LET k == CHOOSE k \in Key : CharsOf[k] = c
       IN  table.entries[FirstProbed(k, table.capacity, S)].key

(* Variant that takes a tombstone for the end of the probe. *)
tableFindStringShallow(c) ==
  FindAmong({i \in Slots(table.entries) :
               table.entries[i].key = NULL \/ HasChars(i, c)}, c)

(* The first string with these characters, or NULL if a free slot comes    *)
(* before it.                                                              *)
tableFindString(c) ==
  FindAmong({i \in Slots(table.entries) :
               table.entries[i] = Free \/ HasChars(i, c)}, c)

InitStrings ==
  /\ Init
  /\ heap   = {}
  /\ held   = {}
  /\ step   = "idle"
  /\ chars \in Chars
  /\ string = NULL

(* Return the string that is there, or go on to make one.                  *)
FindOrMake(c, first) ==
  /\ step = "idle"
  /\ chars' = c
  /\ LET found == tableFindString(c)
     IN  IF found # NULL
         THEN held' = held \cup {found} /\ UNCHANGED step
         ELSE step' = first /\ UNCHANGED held
  /\ UNCHANGED <<vars, heap, string>>

(* copyString allocates an array for the characters, takeString has one.   *)
copyString(c) == FindOrMake(c, "chars")
takeString(c) == FindOrMake(c, "object")

allocateChars ==
  /\ step = "chars"
  /\ step' = "object"
  /\ UNCHANGED <<vars, heap, held, chars, string>>

(* allocateString makes the object and pushes it.                          *)
allocateString(k) ==
  /\ step = "object"
  /\ k \in Key \ heap
  /\ CharsOf[k] = chars
  /\ heap'   = heap \cup {k}
  /\ held'   = held \cup {k}
  /\ string' = k
  /\ step'   = "table"
  /\ UNCHANGED <<vars, chars>>

(* Its call of tableSet, in one step or in several.                        *)
growTable ==
  /\ step = "table"
  /\ tableSetGrowing(string, NIL) \/ moveEntry
  /\ UNCHANGED stringVars

storeString ==
  /\ step = "table"
  /\ tableSet(string, NIL) \/ finishSet
  /\ step'   = "idle"
  /\ string' = NULL
  /\ UNCHANGED <<heap, held, chars>>

(* The program lets go of a string.                                        *)
drop(k) ==
  /\ step = "idle"
  /\ k \in held
  /\ held' = held \ {k}
  /\ UNCHANGED <<vars, heap, step, chars, string>>

(* Memory is asked for at any time by the program, and by the interning    *)
(* for the characters, the object and the larger array of the table.       *)
Allocates == call = Idle /\ (step = "table" => MustGrow)

(* Variant that frees the strings before it looks for them in the table.   *)
collectGarbageUnburied ==
  /\ Allocates
  /\ heap' = held
  /\ UNCHANGED <<vars, held, step, chars, string>>

collectGarbage ==
  /\ Allocates
  /\ tableRemoveWhite(held)
  /\ heap' = held
  /\ UNCHANGED <<held, step, chars, string>>

NextStrings ==
  \/ \E c \in Chars : copyString(c) \/ takeString(c)
  \/ \E k \in Key : allocateString(k) \/ drop(k)
  \/ allocateChars \/ growTable \/ storeString \/ collectGarbage

SpecStrings == InitStrings /\ [][NextStrings]_<<vars, stringVars>>

----------------------------------------------------------------------------
(* Properties.                                                             *)

(* The table is well formed, and an interning that is past the lookup      *)
(* knows what it makes.                                                    *)
StringsTypeOK ==
  /\ TypeOK
  /\ held \subseteq heap /\ heap \subseteq Key
  /\ step \in Steps
  /\ chars \in Chars
  /\ string \in heap \cup {NULL}
  /\ (string # NULL) = (step = "table")
  /\ call # Idle => step = "table"

(* No two objects in memory have the same characters, at any step of an    *)
(* interning and whatever the collector did since its lookup: OP_EQUAL     *)
(* and the keys of every table compare strings by address.                 *)
OneObjectPerString ==
  \A k, l \in heap : CharsOf[k] = CharsOf[l] => k = l

(* A lookup finds every string in memory and none that was freed, but for  *)
(* the one that is on its way into the table.                              *)
EveryStringIsFound ==
  call = Idle =>
    \A c \in Chars :
      LET strings == {k \in heap \ {string} : CharsOf[k] = c}
      IN  IF strings = {} THEN tableFindString(c) = NULL
                          ELSE tableFindString(c) \in strings
=============================================================================
