------------------------------- MODULE Scene -------------------------------
(***************************************************************************)
(* The numbering half of createScene (packages/server/src/scene.ts): one   *)
(* scene's seq counter and the replay ring it feeds.  Every applied update *)
(* takes the next number and is recorded before it is fanned out; nothing  *)
(* else moves either.  LsdpServer implements this specification for each   *)
(* of its scenes.                                                          *)
(*                                                                         *)
(* The state of a scene after its n-th number is a function of n (number 1 *)
(* is the initial state, each later one an update), so no leaf values are  *)
(* kept here.                                                              *)
(***************************************************************************)
EXTENDS ReplayBuffer

CONSTANT MaxSeq         \* bound on the seq counter, for model checking

ASSUME MaxSeqAssumption == MaxSeq \in Nat \ {0}

VARIABLES seq, replay

vars == <<seq, replay>>

TypeOK ==
    /\ seq \in Nat \ {0}
    /\ replay \in Rings

\* Pre-seeded to 1, so that the first snapshot ships at seq 1.
Init ==
    /\ seq = 1
    /\ replay = EmptyRing

\* store.apply -> the store listener: seq += 1, then replay.push.
Emit ==
    /\ seq < MaxSeq
    /\ seq' = seq + 1
    /\ replay' = Pushed(replay, seq + 1)

Next == Emit

Spec == Init /\ [][Next]_vars
-----------------------------------------------------------------------------
(***************************************************************************)
(* Properties                                                              *)
(***************************************************************************)

\* The numbers the ring should be holding: the last Cap emissions, or all of
\* them while there are fewer.  Number 1 is the initial state, never emitted.
Retained == IF seq - 1 < Cap THEN seq - 1 ELSE Cap

\* The ring is exactly the run of the last emissions, oldest first, however
\* often the head has wrapped: no stale slot is walked and none is skipped.
WindowIsLatest ==
    /\ replay.size = Retained
    /\ \A i \in 1 .. replay.size : Window(replay)[i] = seq - Retained + i

\* since() never claims coverage it does not have: for a cursor the scene has
\* reached, a covered answer holds every later number and no other.
CoveredMeansComplete ==
    \A since \in 1 .. seq :
        Covered(replay, since) =>
            { Window(replay)[i] : i \in 1 .. replay.size } \ (0 .. since)
                = (since + 1) .. seq

\* What a resuming subscriber is sent is the missed numbers in increasing
\* order, one after the other, ending at the scene's current number.
ResumeIsContiguous ==
    \A since \in 1 .. seq :
        Covered(replay, since) =>
            Missed(replay, since) = [i \in 1 .. seq - since |-> since + i]

\* A cursor still inside the window is never refused, so a client that missed
\* at most Cap updates is resumed rather than sent a snapshot.
RecentIsCovered ==
    \A since \in 1 .. seq : since >= seq - Cap => Covered(replay, since)
=============================================================================
