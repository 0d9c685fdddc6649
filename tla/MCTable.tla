------------------------------ MODULE MCTable ------------------------------
(* Instance of Table: four keys.  In an array of 4 slots three of them     *)
(* start at the last slot and one at the first; in one of 8, two start at  *)
(* the last slot, so that probes collide and wrap around in both.          *)
EXTENDS Table, TLC

CONSTANTS k1, k2, k3, k4

MCKey  == {k1, k2, k3, k4}
MCHash == (k1 :> 3) @@ (k2 :> 7) @@ (k3 :> 0) @@ (k4 :> 15)

(* The loop of findEntry as the source runs it, a turn per application:    *)
(* index is the slot it looks at, tombstone the first one it passed or -1. *)
RECURSIVE Probe(_, _, _, _, _)
Probe(entries, capacity, k, index, tombstone) ==
  LET entry == entries[index]
      next  == (index + 1) % (capacity + 1)
  IN  CASE entry = Free      -> IF tombstone # -1 THEN tombstone ELSE index
        [] entry.key = k     -> index
        [] entry = Tombstone ->
             Probe(entries, capacity, k, next,
                   IF tombstone = -1 THEN index ELSE tombstone)
        [] OTHER             -> Probe(entries, capacity, k, next, tombstone)

(* findEntry is defined by what the loop arrives at; here the loop itself  *)
(* runs, on every array that the table or its growth produces, and arrives *)
(* there: at the key if it is anywhere, else at the first reusable slot.   *)
ProbeArrives ==
  \A k \in Key :
    /\ table.capacity # -1 =>
         findEntry(table.entries, table.capacity, k) =
           Probe(table.entries, table.capacity, k, Home(k, table.capacity), -1)
    /\ call # Idle =>
         LET capacity == GrowSlots(table.capacity + 1) - 1
         IN  findEntry(fresh, capacity, k) =
               Probe(fresh, capacity, k, Home(k, capacity), -1)
=============================================================================
