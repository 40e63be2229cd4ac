---------------------------- MODULE ReplayBuffer ----------------------------
(***************************************************************************)
(* The per-scene replay ring (packages/server/src/replay-buffer.ts): the   *)
(* last Cap emissions of a scene, kept so that a subscriber that comes     *)
(* back with `since_sequence` can be sent the deltas it missed instead of  *)
(* a snapshot.  The ring is a record of the class's three fields; each     *)
(* operator is a method.  A ReplayRecord is abstracted to its seq: a scene *)
(* emits each seq once, so the seq names the patches.                      *)
(***************************************************************************)
EXTENDS Integers, Sequences

CONSTANT Cap            \* the constructor's capacity (256 in createScene)

\* The constructor replaces a capacity that is not positive by the default.
ASSUME CapAssumption == Cap \in Nat \ {0}

NoRecord == 0           \* an `undefined` slot of the array; seqs start at 1

Slots == 0 .. Cap - 1

Rings == [records : [Slots -> Nat], head : Slots, size : 0 .. Cap]

EmptyRing == [records |-> [i \in Slots |-> NoRecord], head |-> 0, size |-> 0]

\* Fault: size grows past the capacity.
PushedUncapped(ring, seq) ==
    [records |-> [ring.records EXCEPT ![ring.head] = seq],
     head    |-> (ring.head + 1) % Cap,
     size    |-> ring.size + 1]

\* Fault: the record is written one slot past head.
PushedPastHead(ring, seq) ==
    [records |-> [ring.records EXCEPT ![(ring.head + 1) % Cap] = seq],
     head    |-> (ring.head + 1) % Cap,
     size    |-> IF ring.size < Cap THEN ring.size + 1 ELSE ring.size]

\* push(record)
Pushed(ring, seq) ==
    [records |-> [ring.records EXCEPT ![ring.head] = seq],
     head    |-> (ring.head + 1) % Cap,
     size    |-> IF ring.size < Cap THEN ring.size + 1 ELSE ring.size]

\* Index of the oldest retained record.
Oldest(ring) == (ring.head - ring.size + Cap) % Cap

\* The retained records, oldest first: the order in which since() walks them.
Window(ring) ==
    [i \in 1 .. ring.size |-> ring.records[(Oldest(ring) + (i - 1)) % Cap]]

\* Fault: one record too lenient.
CoveredLoosely(ring, sinceSeq) ==
    ring.size = 0 \/ sinceSeq + 2 >= ring.records[Oldest(ring)]

\* Fault: the cursor just before the oldest record is refused.
CoveredStrictly(ring, sinceSeq) ==
    ring.size = 0 \/ sinceSeq >= ring.records[Oldest(ring)]

\* since(sinceSeq).covered: an empty ring says yes, a ring whose oldest record
\* leaves a hole after sinceSeq says no.
Covered(ring, sinceSeq) ==
    ring.size = 0 \/ sinceSeq + 1 >= ring.records[Oldest(ring)]

\* since()'s walk: the retained records numbered past the cursor.
Past(ring, cursor) ==
    LET out[i \in 0 .. ring.size] ==
            IF i = 0 THEN <<>>
            ELSE IF Window(ring)[i] > cursor THEN Append(out[i - 1], Window(ring)[i])
            ELSE out[i - 1]
    IN  out[ring.size]

\* Fault: the cursor's own record is replayed too.
MissedFromCursor(ring, sinceSeq) == Past(ring, sinceSeq - 1)

\* since(sinceSeq).records
Missed(ring, sinceSeq) == IF Covered(ring, sinceSeq) THEN Past(ring, sinceSeq) ELSE <<>>
=============================================================================
