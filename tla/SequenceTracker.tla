-------------------------- MODULE SequenceTracker --------------------------
(***************************************************************************)
(* The receiver-side gap detector (packages/protocol/src/sequence.ts).     *)
(* The tracker's whole state is the number `last` (its field lastSeq),     *)
(* where 0 is the fresh tracker; each operator is one of its methods as a  *)
(* function of that number.  A malformed seq (not an integer, or below 1)  *)
(* is represented by 0.                                                    *)
(***************************************************************************)
EXTENDS Integers

Fresh == 0

\* observe(seq) answers "in-order": a fresh tracker takes any seq >= 1 as its
\* baseline, any other tracker only the successor of the last one.
InOrder(last, seq) == seq >= 1 /\ (last = Fresh \/ seq = last + 1)

\* observe(seq) answers "duplicate": already seen, to be dropped silently.
Duplicate(last, seq) == seq >= 1 /\ last # Fresh /\ seq <= last

\* observe(seq) answers "gap": malformed, or past the successor.
Gap(last, seq) == seq < 1 \/ (last # Fresh /\ seq > last + 1)

\* The tracker after observe(seq): only an in-order frame moves it.
Observed(last, seq) == IF InOrder(last, seq) THEN seq ELSE last

\* Fault: only a fresh tracker takes a snapshot's number.
RebasedOnce(last, seq) == IF seq >= 1 /\ last = Fresh THEN seq ELSE last

\* The tracker after observeSnapshot(seq): rebased whatever it held.
Rebased(last, seq) == IF seq >= 1 THEN seq ELSE last
=============================================================================
