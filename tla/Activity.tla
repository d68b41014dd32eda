------------------------------ MODULE Activity ------------------------------
(***************************************************************************)
(* The activity store of a served session (server/activity.rs): the last   *)
(* entries that fit into a number of bytes.  A reader polls with the       *)
(* position it has seen; the floor tells whether it missed anything.       *)
(***************************************************************************)
EXTENDS Naturals, Sequences, FiniteSetsExt, SequencesExt

CONSTANT Limit  \* activity_bytes

ASSUME LimitAssumption == Limit \in Nat

NewStore == [position |-> 0, floor |-> 0, known |-> {}, entries |-> << >>]

Summed(sum, entry) == sum + entry.size

Bytes(entries) == FoldLeft(Summed, 0, entries)

\* The entries after the first n.
After(entries, n) == SubSeq(entries, n + 1, Len(entries))

\* How many entries leave from the front to make room for size bytes.
Evicted(entries, size) ==
    CHOOSE n \in 0 .. Len(entries) :
        /\ n = Len(entries) \/ Bytes(After(entries, n)) + size <= Limit
        /\ \A m \in 0 .. n - 1 : Bytes(After(entries, m)) + size > Limit

\* Mutation of Floor: an entry that is too large for the store leaves no gap.
FloorOfEvicted(store, size) ==
    LET n == Evicted(store.entries, size)
    IN  IF n = 0 THEN store.floor ELSE store.entries[n].position

\* An entry that never fits is evicted as soon as it is pushed.
Floor(store, size) ==
    LET n == Evicted(store.entries, size)
    IN  IF size > Limit THEN store.position + 1
        ELSE IF n = 0 THEN store.floor ELSE store.entries[n].position

(***************************************************************************)
(* History: with an entry goes what a snapshot at its position says is     *)
(* pending, and the store keeps that of its floor.                         *)
(***************************************************************************)
FloorKnown(store, size, pending) ==
    LET n == Evicted(store.entries, size)
    IN  IF size > Limit THEN pending
        ELSE IF n = 0 THEN store.known ELSE store.entries[n].pending

Push(store, what, size, pending) ==
    [position |-> store.position + 1,
     floor    |-> Floor(store, size),
     known    |-> FloorKnown(store, size, pending),
     entries  |-> LET kept == After(store.entries, Evicted(store.entries, size))
                  IN  IF size > Limit THEN kept
                      ELSE Append(kept, [position |-> store.position + 1, size |-> size,
                                         what |-> what, pending |-> pending])]

IsGap(store, cursor) == cursor < store.floor

\* What poll() returns to a cursor of this session that is no gap.
News(store, cursor) ==
    FoldLeft(LAMBDA news, entry : IF entry.position > cursor THEN Append(news, entry) ELSE news,
             << >>, store.entries)

\* History: what snapshots at the positions that are no gap said.
Snapshots(store) ==
    {[position |-> store.floor, pending |-> store.known]}
      \cup {[position |-> entry.position, pending |-> entry.pending] :
               entry \in Range(store.entries)}
=============================================================================
