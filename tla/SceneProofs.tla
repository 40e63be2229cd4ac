---------------------------- MODULE SceneProofs ----------------------------
(***************************************************************************)
(* What the replay ring of a scene holds, for every capacity and however   *)
(* often it has wrapped: the lemmas of CommonProofs along a run of the scene.*)
(***************************************************************************)
EXTENDS Scene, CommonProofs

\* The inductive invariant: the content of every slot, which the properties, all
\* about the window or the walk over it, only see part of.
IInv ==
    /\ seq \in Nat \ {0}
    /\ Holds(replay, seq)

\* The run of the last emissions, closed under every step of the scene.
THEOREM SceneInvariant == Spec => []IInv
<1>1. Init => IInv
    BY EmptyHolds DEF Init, IInv
<1>2. IInv /\ [Next]_vars => IInv'
    <2>1. ASSUME IInv, Next PROVE IInv'
        <3>1. /\ seq \in Nat \ {0} /\ Holds(replay, seq)
              /\ seq' = seq + 1 /\ replay' = Pushed(replay, seq + 1)
            BY <2>1 DEF IInv, Next, Emit
        <3>2. Holds(Pushed(replay, seq + 1), seq + 1)
            BY <3>1, PushedHolds
        <3>3. Holds(replay', seq')
            BY <3>1, <3>2
        <3> QED
            BY <3>1, <3>3 DEF IInv
    <2>2. ASSUME IInv, UNCHANGED vars PROVE IInv'
        BY <2>2 DEF IInv, vars
    <2> QED
        BY <2>1, <2>2
<1> QED
    BY <1>1, <1>2, PTL DEF Spec

\* The ring is always well formed: its head is a slot, its size at most Cap,
\* whatever the number of updates (replay-buffer.ts, push).
THEOREM SceneTypeCorrect == Spec => []TypeOK
<1>1. IInv => TypeOK
    BY DEF IInv, TypeOK, Holds
<1> QED
    BY <1>1, SceneInvariant, PTL

-----------------------------------------------------------------------------
LEMMA WindowFromIInv == IInv => WindowIsLatest
<1> SUFFICES ASSUME IInv PROVE WindowIsLatest
    OBVIOUS
<1>1. Retained = RetainedAt(seq)
    BY DEF Retained, RetainedAt
<1>2. ASSUME NEW i \in 1 .. replay.size
      PROVE  Window(replay)[i] = seq - RetainedAt(seq) + i
    BY WindowContent DEF IInv
<1>3. replay.size = RetainedAt(seq)
    BY DEF IInv, Holds
<1> QED
    BY <1>1, <1>2, <1>3 DEF WindowIsLatest

LEMMA RecentFromIInv == IInv => RecentIsCovered
<1> SUFFICES ASSUME IInv, NEW since \in 1 .. seq, since >= seq - Cap
             PROVE  Covered(replay, since)
    BY DEF RecentIsCovered
<1>1. seq \in Nat /\ Cap \in Nat /\ seq > 0 /\ since \in Nat
    BY CapAssumption DEF IInv
<1>2. replay.size \in Nat
    BY DEF IInv, Holds, Rings
<1>3. CASE replay.size > 0
    <2>1. replay.records[Oldest(replay)] = (seq - RetainedAt(seq)) + 1
        BY <1>3, OldestRecord DEF IInv
    <2>2. since + 1 >= (seq - RetainedAt(seq)) + 1
        BY <1>1 DEF RetainedAt
    <2> QED
        BY <2>1, <2>2 DEF Covered
<1>4. CASE replay.size = 0
    BY <1>4 DEF Covered
<1> QED
    BY <1>2, <1>3, <1>4

LEMMA CompleteFromIInv == IInv => CoveredMeansComplete
<1> SUFFICES ASSUME IInv, NEW since \in 1 .. seq, Covered(replay, since)
             PROVE  { Window(replay)[i] : i \in 1 .. replay.size } \ (0 .. since)
                        = (since + 1) .. seq
    BY DEF CoveredMeansComplete
<1> DEFINE R == RetainedAt(seq)
<1>1. seq \in Nat /\ Cap \in Nat /\ seq > 0 /\ Cap > 0 /\ since \in Nat
      /\ since <= seq
    BY CapAssumption DEF IInv
<1>2. replay.size = R /\ R \in Nat /\ R < seq
    BY CapAssumption, <1>1 DEF IInv, Holds, RetainedAt
<1>3. seq - R <= since
    BY CoveredFromWindow DEF IInv
<1>4. ASSUME NEW i \in 1 .. replay.size
      PROVE  Window(replay)[i] = (seq - R) + i
    BY <1>4, WindowContent DEF IInv
<1> HIDE DEF R
<1>5. ASSUME NEW k \in (since + 1) .. seq
      PROVE  /\ k \in { Window(replay)[i] : i \in 1 .. replay.size }
             /\ k \notin 0 .. since
    <2>1. k - (seq - R) \in 1 .. replay.size
        BY <1>1, <1>2, <1>3
    <2>2. (seq - R) + (k - (seq - R)) = k
        BY <1>1, <1>2
    <2> QED
        BY <1>1, <1>4, <2>1, <2>2
<1>6. ASSUME NEW i \in 1 .. replay.size, Window(replay)[i] \notin 0 .. since
      PROVE  Window(replay)[i] \in (since + 1) .. seq
    <2>1. Window(replay)[i] = (seq - R) + i
        BY <1>4
    <2> QED
        BY <1>1, <1>2, <1>6, <2>1
<1> QED
    BY <1>5, <1>6

LEMMA ContiguousFromIInv == IInv => ResumeIsContiguous
BY MissedContent DEF IInv, ResumeIsContiguous

\* However often the ring has wrapped, it holds the run of the last emissions
\* (replay-buffer.ts, push and the walk of since).
THEOREM SceneWindow == Spec => []WindowIsLatest
BY WindowFromIInv, SceneInvariant, PTL

\* A covered since() misses nothing and adds nothing: the MUST of the class's
\* comment, that an uncovered cursor falls back to a snapshot, is decided
\* correctly for every capacity.
THEOREM SceneCoverage == Spec => []CoveredMeansComplete
BY CompleteFromIInv, SceneInvariant, PTL

\* A client that missed at most Cap updates is never sent back to a snapshot.
THEOREM SceneRecent == Spec => []RecentIsCovered
BY RecentFromIInv, SceneInvariant, PTL

\* What a resuming subscriber is sent is every number it missed, once each and
\* in order, for every capacity (replay-buffer.ts, since).
THEOREM SceneResume == Spec => []ResumeIsContiguous
BY ContiguousFromIInv, SceneInvariant, PTL
=============================================================================
