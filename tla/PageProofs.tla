----------------------------- MODULE PageProofs -----------------------------
(***************************************************************************)
(* What one page holds of the world, for any versions, paths, rooms,       *)
(* peers, nodes and sources.  The mounted runtime fetches a bundle once,   *)
(* its camera leaves follow the stream, it paints nothing after            *)
(* disconnect(), and what it paints is the stream as long as no frame      *)
(* overtakes a snapshot.  The nodes of the page share the streams of the   *)
(* peers and the captured devices, and nothing that an author wrote about  *)
(* one is lost without a word.                                             *)
(***************************************************************************)
EXTENDS Mount, CaptureCache, PeerRooms, RenderedNode, FiniteSetTheorems,
        SequenceTheorems, WellFoundedInduction, TLAPS

(***************************************************************************)
(* The mounted runtime                                                     *)
(***************************************************************************)
\* The fetcher's part of the state: a version is in flight exactly while one
\* request for it is outstanding, and is then not yet cached; who waits, and
\* what was warmed, has such a request or has been served.
FetchInv ==
    /\ requests \in [Versions -> Nat]
    /\ inFlight \cap cached = {}
    /\ \A v \in Versions : requests[v] = IF v \in inFlight THEN 1 ELSE 0
    /\ \E D : waiting \in [Versions -> D]
    /\ \A v \in Versions : waiting[v] # <<>> => v \in inFlight
    /\ warmed \subseteq Versions
    /\ \A v \in warmed : v \in cached \cup inFlight

LEMMA FetchInit == Init => FetchInv
  <1> SUFFICES ASSUME Init PROVE FetchInv
    OBVIOUS
  <1>1. requests \in [Versions -> Nat]
    BY DEF Init
  <1>2. waiting \in [Versions -> {<<>>}]
    BY DEF Init
  <1> QED
    BY <1>1, <1>2 DEF Init, FetchInv

\* get() keeps the fetcher's part, and every version it is called for is
\* cached or in flight afterwards.
LEMMA GetsKeeps ==
  ASSUME FetchInv, NEW W \in SUBSET Versions, Gets(W)
  PROVE  /\ requests' \in [Versions -> Nat]
         /\ inFlight' \cap cached' = {}
         /\ \A v \in Versions : requests'[v] = IF v \in inFlight' THEN 1 ELSE 0
         /\ W \cup inFlight \subseteq cached' \cup inFlight'
         /\ inFlight \subseteq inFlight'
         /\ cached' = cached
         /\ W \cap inFlight' = W \ cached
  BY DEF FetchInv, Gets, Unfetched

\* A request that ends keeps it too, but for those who waited for it.
LEMMA EndsKeeps ==
  ASSUME FetchInv, NEW v \in Versions, Ends(v)
  PROVE  /\ requests' \in [Versions -> Nat]
         /\ inFlight' = inFlight \ {v}
         /\ v \in inFlight
         /\ \A w \in Versions : requests'[w] = IF w \in inFlight' THEN 1 ELSE 0
  BY DEF FetchInv, Ends

LEMMA FetchStep == FetchInv /\ [Next]_vars => FetchInv'
  <1> SUFFICES ASSUME FetchInv, [Next]_vars PROVE FetchInv'
    OBVIOUS
  <1> USE DEF FetchInv
  <1>1. CASE OnSnapshot
    <2> PICK v \in Versions, P \in SUBSET Paths :
          LET state == [p \in P |-> received + 1] IN
          /\ SnapshotHit(v, state) \/ SnapshotMiss(v, state)
          /\ UNCHANGED <<warmed, active>>
      BY <1>1 DEF OnSnapshot
    <2> DEFINE state == [p \in P |-> received + 1]
    <2>1. CASE SnapshotHit(v, state)
      BY <2>1 DEF SnapshotHit, fetcher
    <2>2. CASE SnapshotMiss(v, state)
      <3>1. Gets({v}) /\ v \notin cached /\ UNCHANGED warmed
        BY <2>2 DEF SnapshotMiss
      <3>2. waiting' = [waiting EXCEPT ![v] = Append(@, state)]
        BY <2>2 DEF SnapshotMiss
      <3>3. \E D : waiting' \in [Versions -> D]
        <4> PICK D : waiting \in [Versions -> D]
          OBVIOUS
        <4>1. waiting' \in [Versions -> D \cup {Append(waiting[v], state)}]
          BY <3>2
        <4> QED
          BY <4>1
      <3>4. \A w \in Versions \ {v} : waiting'[w] = waiting[w]
        BY <3>2
      <3>5. /\ requests' \in [Versions -> Nat]
            /\ inFlight' \cap cached' = {}
            /\ \A w \in Versions : requests'[w] = IF w \in inFlight' THEN 1 ELSE 0
            /\ inFlight \subseteq inFlight' /\ v \in inFlight'
            /\ cached' = cached
        <4>1. {v} \in SUBSET Versions
          OBVIOUS
        <4> QED
          BY <3>1, <4>1, GetsKeeps
      <3> QED
        BY <3>1, <3>3, <3>4, <3>5
    <2> QED
      BY <2>1, <2>2
  <1>2. CASE OnDelta
    BY <1>2 DEF OnDelta, fetcher
  <1>3. CASE OnSceneRoster
    <2> PICK roster \in SUBSET Versions :
          WarmRoster(roster) /\ UNCHANGED waiting
      BY <1>3 DEF OnSceneRoster
    <2>1. Fresh(roster) \in SUBSET Versions
      BY DEF Fresh
    <2>2. Gets(Fresh(roster)) /\ warmed' = warmed \cup Fresh(roster)
      BY DEF WarmRoster
    <2> QED
      BY <2>1, <2>2, GetsKeeps
  <1>4. ASSUME NEW v \in Versions, FetchEnds(v) \/ FetchFails(v)
        PROVE  FetchInv'
    <2>1. Ends(v) /\ waiting' = [waiting EXCEPT ![v] = <<>>]
      BY <1>4 DEF FetchEnds, FetchFails
    <2>2. \E D : waiting' \in [Versions -> D]
      <3> PICK D : waiting \in [Versions -> D]
        OBVIOUS
      <3>1. waiting' \in [Versions -> D \cup {<<>>}]
        BY <2>1
      <3> QED
        BY <3>1
    <2>3. \A w \in Versions : waiting'[w] # <<>> => w # v /\ waiting[w] # <<>>
      BY <2>1
    <2>4. \/ cached' = cached \cup {v} /\ warmed' = warmed
          \/ cached' = cached /\ warmed' = warmed \ {v}
      BY <1>4 DEF FetchEnds, FetchFails, Released
    <2>5. /\ requests' \in [Versions -> Nat]
          /\ inFlight' = inFlight \ {v} /\ v \in inFlight
          /\ \A w \in Versions : requests'[w] = IF w \in inFlight' THEN 1 ELSE 0
      BY <2>1, EndsKeeps
    <2>6. inFlight' \cap cached' = {}
      BY <2>4, <2>5
    <2>7. \A w \in Versions : waiting'[w] # <<>> => w \in inFlight'
      BY <2>3, <2>5
    <2>8. warmed' \subseteq Versions /\ \A w \in warmed' : w \in cached' \cup inFlight'
      BY <2>4, <2>5
    <2> QED
      BY <2>2, <2>5, <2>6, <2>7, <2>8
  <1>5. CASE Disconnect
    BY <1>5 DEF Disconnect, fetcher
  <1>6. CASE UNCHANGED vars
    BY <1>6 DEF vars, fetcher
  <1> QED
    BY <1>1, <1>2, <1>3, <1>4, <1>5, <1>6 DEF Next

\* The inductive invariant of the fetcher and of those who wait for it.
THEOREM MountFetchInvariant == Spec => []FetchInv
  <1> QED
    BY FetchInit, FetchStep, PTL DEF Spec

\* However snapshots, rosters, failures and disconnection interleave, there
\* is at most one request for a bundle, and none once it is cached.
THEOREM MountFetchesOnce == Spec => []OneRequestPerBundle
  <1>1. FetchInv => OneRequestPerBundle
    BY DEF FetchInv, OneRequestPerBundle
  <1> QED
    BY <1>1, MountFetchInvariant, PTL

\* No snapshot waits for a request that has ended.
THEOREM MountWaitsAreServed == Spec => []EveryWaitIsServed
  <1>1. FetchInv => EveryWaitIsServed
    BY DEF FetchInv, EveryWaitIsServed
  <1> QED
    BY <1>1, MountFetchInvariant, PTL

\* A version that counts as warmed is cached or on its way.
THEOREM MountWarmedIsUnderWay == Spec => []WarmedIsUnderWay
  <1>1. FetchInv => WarmedIsUnderWay
    BY DEF FetchInv, WarmedIsUnderWay
  <1> QED
    BY <1>1, MountFetchInvariant, PTL
-----------------------------------------------------------------------------
\* The observer's map is the stream's reserved part and the host was told its
\* projection.  The shapes are what the steps need to read the records.
CamInv ==
    /\ raw = [p \in CamPaths |-> stream.values[p]]
    /\ told = Project(raw)
    /\ \E D : stream \in [version : Versions \cup {None}, values : [Paths -> D]]

LEMMA CamInit == Init => CamInv
  <1> SUFFICES ASSUME Init PROVE CamInv
    OBVIOUS
  <1>1. stream \in [version : Versions \cup {None}, values : [Paths -> {None}]]
    BY DEF Init, EmptyStore
  <1>2. raw = [p \in CamPaths |-> stream.values[p]]
    BY MountAssumption DEF Init, EmptyStore
  <1>3. told = Project(raw)
    BY MountAssumption DEF Init, Project
  <1> QED
    BY <1>1, <1>2, <1>3 DEF CamInv

LEMMA CamStep == CamInv /\ [Next]_vars => CamInv'
  <1> SUFFICES ASSUME CamInv, [Next]_vars PROVE CamInv'
    OBVIOUS
  <1>1. CASE OnSnapshot
    <2> PICK v \in Versions, P \in SUBSET Paths :
          LET state == [p \in P |-> received + 1] IN
          /\ Received([version |-> v, values |-> Restored(state)])
          /\ CamSnapshot(state)
      BY <1>1 DEF OnSnapshot
    <2> DEFINE state == [p \in P |-> received + 1]
               L == { Leaf(state, p) : p \in Paths }
    <2>1. stream' = [version |-> v, values |-> [p \in Paths |-> Leaf(state, p)]]
      BY DEF Received, Restored
    <2>2. raw' = [p \in CamPaths |-> Leaf(state, p)] /\ told' = Project(raw')
      BY DEF CamSnapshot, Surfaced
    <2> HIDE DEF state
    <2>3. raw' = [p \in CamPaths |-> stream'.values[p]]
      BY <2>1, <2>2, MountAssumption
    <2>4. stream' \in [version : Versions \cup {None}, values : [Paths -> L]]
      BY <2>1
    <2> QED
      BY <2>2, <2>3, <2>4 DEF CamInv, Project
  <1>2. CASE OnDelta
    <2> PICK patches :
          /\ Received([stream EXCEPT !.values = Written(@, patches)])
          /\ CamDelta(patches)
      BY <1>2 DEF OnDelta
    <2> PICK D : stream \in [version : Versions \cup {None}, values : [Paths -> D]]
      BY DEF CamInv
    <2> DEFINE L == D \cup { patches[p].value : p \in Paths }
    <2>1. stream' = [stream EXCEPT !.values = Written(@, patches)]
      BY DEF Received
    <2>2. stream'.values = [p \in Paths |->
             IF p \in DOMAIN patches THEN patches[p].value ELSE stream.values[p]]
      BY <2>1 DEF Written
    <2>3. raw' = [p \in CamPaths |->
             IF p \in DOMAIN patches THEN patches[p].value ELSE raw[p]]
      BY DEF CamDelta
    <2>4. raw' = [p \in CamPaths |-> stream'.values[p]]
      BY <2>2, <2>3, MountAssumption DEF CamInv
    <2>5. stream'.values \in [Paths -> L]
      BY <2>2
    <2>6. stream' \in [version : Versions \cup {None}, values : [Paths -> L]]
      BY <2>1, <2>5
    <2>7. told' = Project(raw')
      BY DEF CamDelta, Surfaced
    <2> QED
      BY <2>4, <2>6, <2>7 DEF CamInv, Project
  <1>3. CASE UNCHANGED <<cam, stream>>
    BY <1>3 DEF CamInv, cam, Project
  <1>4. CASE OnSceneRoster
    BY <1>3, <1>4 DEF OnSceneRoster, history
  <1>5. ASSUME NEW v \in Versions, FetchEnds(v) \/ FetchFails(v)
        PROVE  UNCHANGED <<cam, stream>>
    BY <1>5 DEF FetchEnds, FetchFails, history
  <1>6. CASE Disconnect
    BY <1>3, <1>6 DEF Disconnect, history
  <1>7. CASE UNCHANGED vars
    BY <1>3, <1>7 DEF vars, history
  <1> QED
    BY <1>1, <1>2, <1>3, <1>4, <1>5, <1>6, <1>7 DEF Next

\* The host's idea of the camera leaves is the stream's, also while a
\* snapshot waits for its bundle.
THEOREM MountCamLeaves == Spec => []CamLeavesFollowStream
  <1>1. CamInv => CamLeavesFollowStream
    BY MountAssumption DEF CamInv, CamLeavesFollowStream, Project
  <1> QED
    BY <1>1, CamInit, CamStep, PTL DEF Spec
-----------------------------------------------------------------------------
\* Nothing is painted, and the host is told nothing, after disconnect(),
\* whatever requests end later.
THEOREM MountQuiet == Spec => QuietAfterDisconnect
  <1>1. [Next]_vars => [~active => UNCHANGED <<view, cam>>]_vars
    <2> SUFFICES ASSUME [Next]_vars, ~active PROVE UNCHANGED <<view, cam>>
      OBVIOUS
    <2>1. ~OnSnapshot /\ ~OnDelta /\ ~OnSceneRoster /\ ~Disconnect
      BY DEF OnSnapshot, OnDelta, OnSceneRoster, Disconnect, Received
    <2>2. ASSUME NEW v \in Versions, FetchEnds(v) \/ FetchFails(v)
          PROVE  UNCHANGED <<view, cam>>
      BY <2>2 DEF FetchEnds, FetchFails, Applied
    <2>3. CASE UNCHANGED vars
      BY <2>3 DEF vars
    <2> QED
      BY <2>1, <2>2, <2>3 DEF Next
  <1> QED
    BY <1>1, PTL DEF Spec, QuietAfterDisconnect
-----------------------------------------------------------------------------
(***************************************************************************)
(* Types: the store, after one state or after several in turn.             *)
(***************************************************************************)
Stores == [values : Leaves(Paths), directives : [Paths -> {Ease, None}]]

LEMMA RestoredType ==
  ASSUME NEW state \in States
  PROVE  Restored(state) \in Leaves(Paths)
  <1>1. PICK P \in SUBSET Paths : state \in [P -> LeafValues]
    BY DEF States
  <1> QED
    BY <1>1 DEF Restored, Leaf, Leaves

LEMMA ResetType ==
  ASSUME NEW old \in Stores, NEW state \in States
  PROVE  Reset(old, state) \in Stores
  <1>2. Restored(state) \in Leaves(Paths)
    BY RestoredType
  <1>3. [p \in Paths |-> IF p \in DOMAIN state THEN None ELSE old.directives[p]]
           \in [Paths -> {Ease, None}]
    BY DEF Stores
  <1> QED
    BY <1>2, <1>3 DEF Reset, Stores

\* A set of numbers that is not empty has a least one.
LEMMA LeastNumber ==
  ASSUME NEW S, S # {}, S \subseteq Nat
  PROVE  \E i \in S : \A j \in S : i <= j
  <1>1. PICK i \in S : \A j \in S : <<j, i>> \notin OpToRel(<, Nat)
    BY NatLessThanWellFounded, WFMin
  <1>2. ASSUME NEW j \in S, ~(i <= j) PROVE FALSE
    <2>1. j \in Nat /\ i \in Nat /\ j < i
      BY <1>2
    <2>2. <<j, i>> \in OpToRel(<, Nat)
      BY <2>1 DEF OpToRel
    <2> QED
      BY <1>1, <2>2
  <1> QED
    BY <1>2

\* What the states leave: the values of the last one, and no directive on any
\* path that one of them named.
LEMMA InTurnContent ==
  ASSUME NEW states, Len(states) \in Nat \ {0}
  PROVE  ResetInTurn(states) =
           [values |-> Restored(states[Len(states)]),
            directives |-> [p \in Paths |->
               IF \E i \in 1 .. Len(states) : p \in DOMAIN states[i]
               THEN None ELSE store.directives[p]]]
  <1> DEFINE m == Len(states)
             Step(f, n) == IF n = 0 THEN store ELSE Reset(f[n - 1], states[n])
             after == CHOOSE f : f = [n \in 0 .. m |-> Step(f, n)]
             D(n) == [p \in Paths |-> IF \E i \in 1 .. n : p \in DOMAIN states[i]
                                      THEN None ELSE store.directives[p]]
             W(n) == IF n = 0 THEN store
                     ELSE [values |-> Restored(states[n]), directives |-> D(n)]
  <1>1. m \in Nat \ {0} /\ ResetInTurn(states) = after[m]
    BY DEF ResetInTurn
  <1> HIDE DEF m, after
  <1>2. ASSUME NEW n \in 1 .. m
        PROVE  D(n) = [p \in Paths |-> IF p \in DOMAIN states[n] THEN None
                                       ELSE W(n - 1).directives[p]]
    <2>1. ASSUME NEW p \in Paths
          PROVE  D(n)[p] = IF p \in DOMAIN states[n] THEN None ELSE W(n - 1).directives[p]
      <3>1. (\E i \in 1 .. n : p \in DOMAIN states[i]) <=>
               p \in DOMAIN states[n] \/ \E i \in 1 .. n - 1 : p \in DOMAIN states[i]
        <4>1. \A i : i \in 1 .. n <=> i = n \/ i \in 1 .. n - 1
          BY <1>1
        <4> QED
          BY <4>1
      <3>2. CASE n = 1
        <4>1. ~\E i \in 1 .. n - 1 : p \in DOMAIN states[i]
          BY <3>2
        <4>2. W(n - 1) = store
          BY <3>2
        <4> QED
          BY <3>1, <4>1, <4>2
      <3>3. CASE n # 1
        <4>1. W(n - 1).directives = D(n - 1)
          BY <3>3
        <4>2. D(n - 1)[p] = IF \E i \in 1 .. n - 1 : p \in DOMAIN states[i]
                            THEN None ELSE store.directives[p]
          OBVIOUS
        <4> QED
          BY <3>1, <4>1, <4>2
      <3> QED
        BY <3>2, <3>3
    <2> HIDE DEF W
    <2> QED
      BY <2>1
  <1>3. ASSUME NEW n \in 1 .. m PROVE W(n) = Reset(W(n - 1), states[n])
    <2>1. W(n) = [values |-> Restored(states[n]), directives |-> D(n)]
      OBVIOUS
    <2> HIDE DEF W, D
    <2> QED
      BY <1>2, <2>1 DEF Reset
  <1>4. W(0) = store
    OBVIOUS
  <1> HIDE DEF W, D
  <1>5. ASSUME NEW f, NEW n \in 0 .. m, n > 0 => f[n - 1] = W(n - 1)
        PROVE  Step(f, n) = W(n)
    <2>1. CASE n = 0
      BY <1>4, <2>1
    <2>2. CASE n \in 1 .. m
      BY <1>3, <1>5, <2>2
    <2> QED
      BY <1>1, <2>1, <2>2
  <1>6. \E f : f = [n \in 0 .. m |-> Step(f, n)]
    <2> DEFINE w == [n \in 0 .. m |-> W(n)]
    <2>1. \A n \in 0 .. m : n > 0 => w[n - 1] = W(n - 1)
      BY <1>1
    <2> HIDE DEF w
    <2>2. \A n \in 0 .. m : Step(w, n) = W(n)
      BY <1>5, <2>1
    <2> HIDE DEF Step
    <2>3. w = [n \in 0 .. m |-> Step(w, n)]
      BY <2>2 DEF w
    <2> QED
      BY <2>3
  <1>7. after = [n \in 0 .. m |-> Step(after, n)]
    BY <1>6 DEF after
  <1>8. \A n \in 0 .. m : after[n] = W(n)
    <2> DEFINE odd == {n \in 0 .. m : after[n] # W(n)}
    <2>1. SUFFICES ASSUME odd # {} PROVE FALSE
      OBVIOUS
    <2>2. PICK n \in odd : \A j \in odd : n <= j
      <3>1. odd # {} /\ odd \subseteq Nat
        BY <2>1
      <3> HIDE DEF odd
      <3> QED
        BY <3>1, LeastNumber
    <2>3. n > 0 => after[n - 1] = W(n - 1)
      BY <1>1, <2>2
    <2>4. Step(after, n) = W(n)
      BY <1>5, <2>2, <2>3
    <2> HIDE DEF Step
    <2>5. after[n] = Step(after, n)
      BY <1>7, <2>2
    <2> QED
      BY <2>2, <2>4, <2>5
  <1>9. W(m) = [values |-> Restored(states[m]), directives |-> D(m)]
    BY <1>1 DEF W
  <1>10. ResetInTurn(states) = [values |-> Restored(states[m]), directives |-> D(m)]
    <2>1. m \in 0 .. m
      BY <1>1
    <2> QED
      BY <1>1, <1>8, <1>9, <2>1
  <1> QED
    BY <1>10 DEF D, m

LEMMA InTurnType ==
  ASSUME store \in Stores, NEW states \in Seq(States), states # <<>>
  PROVE  ResetInTurn(states) \in Stores
  <1>1. Len(states) \in Nat \ {0} /\ states[Len(states)] \in States
    <2>1. Len(states) \in Nat \ {0}
      BY LenProperties
    <2> QED
      BY <2>1, ElementOfSeq
  <1> DEFINE state == states[Len(states)]
             d == [p \in Paths |-> IF \E i \in 1 .. Len(states) : p \in DOMAIN states[i]
                                   THEN None ELSE store.directives[p]]
  <1>2. ResetInTurn(states) = [values |-> Restored(state), directives |-> d]
    <2>1. Len(states) \in Nat \ {0}
      BY <1>1
    <2> HIDE <1>1
    <2> QED
      BY <2>1, InTurnContent
  <1>3. d \in [Paths -> {Ease, None}]
    BY DEF Stores
  <1> HIDE DEF d, state
  <1>4. Restored(state) \in Leaves(Paths)
    BY <1>1, RestoredType DEF state
  <1> QED
    BY <1>2, <1>3, <1>4 DEF Stores

\* One state alone.
LEMMA InTurnOne ==
  ASSUME NEW state
  PROVE  ResetInTurn(<<state>>).values = Restored(state)
  <1> DEFINE states == <<state>>
  <1>1. Len(states) = 1 /\ states[1] = state
    OBVIOUS
  <1> HIDE DEF states
  <1> DEFINE d == [p \in Paths |-> IF \E i \in 1 .. Len(states) : p \in DOMAIN states[i]
                                 THEN None ELSE store.directives[p]]
  <1>2. Len(states) \in Nat \ {0}
    BY <1>1
  <1>3. ResetInTurn(states) = [values |-> Restored(states[Len(states)]), directives |-> d]
    BY <1>2, InTurnContent
  <1> HIDE DEF d
  <1>4. ResetInTurn(states).values = Restored(states[Len(states)])
    BY <1>3
  <1> QED
    BY <1>1, <1>4 DEF states

-----------------------------------------------------------------------------
LEMMA TypesInit == Init => TypeOK
  <1> SUFFICES ASSUME Init PROVE TypeOK
    OBVIOUS
  <1>1. EmptyStore \in Stores /\ EmptyStore.values \in Leaves(Paths)
    BY DEF EmptyStore, Stores, Leaves
  <1>2. /\ raw \in Leaves(CamPaths) /\ told \in Leaves(CamPaths)
    BY DEF Init, Leaves
  <1>3. stream \in [version : Versions \cup {None}, values : Leaves(Paths)]
    BY <1>1 DEF Init
  <1>4. requests \in [Versions -> Nat]
    BY DEF Init
  <1>5. waiting \in [Versions -> Seq(States)]
    BY DEF Init
  <1>6. /\ painted \in Versions \cup {None} /\ active \in BOOLEAN
        /\ disturbed \in BOOLEAN /\ cached \subseteq Versions
        /\ inFlight \subseteq Versions /\ warmed \subseteq Versions
    BY DEF Init
  <1>7. received \in 0 .. MaxFrames
    BY MountAssumption DEF Init
  <1>8. store \in Stores
    BY <1>1 DEF Init
  <1> QED
    BY <1>2, <1>3, <1>4, <1>5, <1>6, <1>7, <1>8 DEF TypeOK, Stores

LEMMA GetsType ==
  ASSUME requests \in [Versions -> Nat], inFlight \subseteq Versions,
         NEW W \in SUBSET Versions, Gets(W)
  PROVE  requests' \in [Versions -> Nat] /\ inFlight' \subseteq Versions /\ cached' = cached
  BY DEF Gets, Unfetched

LEMMA ProjectType ==
  ASSUME NEW leaves \in Leaves(CamPaths)
  PROVE  Project(leaves) \in Leaves(CamPaths)
  BY DEF Project, Leaves

LEMMA TypesStep == TypeOK /\ [Next]_vars => TypeOK'
  <1> SUFFICES ASSUME TypeOK, [Next]_vars PROVE TypeOK'
    OBVIOUS
  <1>1. /\ store \in Stores /\ painted \in Versions \cup {None}
        /\ cached \subseteq Versions /\ inFlight \subseteq Versions
        /\ warmed \subseteq Versions /\ requests \in [Versions -> Nat]
        /\ waiting \in [Versions -> Seq(States)]
        /\ raw \in Leaves(CamPaths) /\ told \in Leaves(CamPaths)
        /\ active \in BOOLEAN
        /\ stream \in [version : Versions \cup {None}, values : Leaves(Paths)]
        /\ received \in 0 .. MaxFrames /\ disturbed \in BOOLEAN
    BY DEF TypeOK, Stores
  <1>2. ASSUME NEW said, Received(said) PROVE
          /\ received + 1 \in LeafValues /\ 0 \in LeafValues
          /\ received' \in 0 .. MaxFrames /\ disturbed' \in BOOLEAN /\ stream' = said
    BY <1>1, <1>2, MountAssumption DEF Received, LeafValues
  <1>3. CASE OnSnapshot
    <2> PICK v \in Versions, P \in SUBSET Paths :
          LET state == [p \in P |-> received + 1] IN
          /\ Received([version |-> v, values |-> Restored(state)])
          /\ CamSnapshot(state)
          /\ SnapshotHit(v, state) \/ SnapshotMiss(v, state)
          /\ UNCHANGED <<warmed, active>>
      BY <1>3 DEF OnSnapshot
    <2> DEFINE state == [p \in P |-> received + 1]
    <2>1. /\ Received([version |-> v, values |-> Restored(state)])
          /\ raw' = [p \in CamPaths |-> Leaf(state, p)] /\ told' = Project(raw')
          /\ warmed' = warmed /\ active' = active
      BY DEF CamSnapshot, Surfaced
    <2>2. /\ received + 1 \in LeafValues
          /\ received' \in 0 .. MaxFrames /\ disturbed' \in BOOLEAN
          /\ stream' = [version |-> v, values |-> Restored(state)]
      BY <1>2, <2>1
    <2>3. state \in States
      <3>1. state \in [P -> LeafValues]
        BY <2>2
      <3> QED
        BY <3>1 DEF States
    <2>4. SnapshotHit(v, state) \/ SnapshotMiss(v, state)
      OBVIOUS
    <2>5. raw' \in Leaves(CamPaths) /\ told' \in Leaves(CamPaths)
      <3>1. \A p \in CamPaths : Leaf(state, p) \in LeafValues \cup {None}
        BY <2>2 DEF Leaf
      <3>2. raw' \in Leaves(CamPaths)
        BY <2>1, <3>1 DEF Leaves
      <3> QED
        BY <2>1, <3>2, ProjectType
    <2> HIDE DEF state
    <2>6. stream' \in [version : Versions \cup {None}, values : Leaves(Paths)]
      BY <2>2, <2>3, RestoredType
    <2>7. CASE SnapshotHit(v, state)
      <3>1. /\ store' = Reset(store, state) /\ painted' = v /\ waiting' = waiting
            /\ cached' = cached /\ inFlight' = inFlight /\ requests' = requests
        BY <2>7 DEF SnapshotHit, fetcher
      <3>2. store' \in Stores
        BY <1>1, <2>3, <3>1, ResetType
      <3> QED
        BY <1>1, <2>1, <2>2, <2>5, <2>6, <3>1, <3>2 DEF TypeOK, Stores
    <2>8. CASE SnapshotMiss(v, state)
      <3>1. /\ store' = store /\ painted' = painted /\ Gets({v})
            /\ waiting' = [waiting EXCEPT ![v] = Append(@, state)]
        BY <2>8 DEF SnapshotMiss, view
      <3>2. waiting' \in [Versions -> Seq(States)]
        BY <1>1, <2>3, <3>1
      <3>3. requests' \in [Versions -> Nat] /\ inFlight' \subseteq Versions /\ cached' = cached
        <4>1. {v} \in SUBSET Versions
          OBVIOUS
        <4> QED
          BY <1>1, <3>1, <4>1, GetsType
      <3> QED
        BY <1>1, <2>1, <2>2, <2>5, <2>6, <3>1, <3>2, <3>3 DEF TypeOK, Stores
    <2> QED
      BY <2>4, <2>7, <2>8
  <1>4. CASE OnDelta
    <2> PICK P \in SUBSET Paths \ {{}}, value \in {0, received + 1}, t \in {Ease, None} :
          LET patches == [p \in P |-> [value |-> value, transition |-> t]] IN
          /\ Received([stream EXCEPT !.values = Written(@, patches)])
          /\ store' = Patched(store, patches)
          /\ CamDelta(patches)
          /\ UNCHANGED <<painted, fetcher, waiting, warmed, active>>
      BY <1>4 DEF OnDelta
    <2> DEFINE patches == [p \in P |-> [value |-> value, transition |-> t]]
    <2>1. /\ Received([stream EXCEPT !.values = Written(@, patches)])
          /\ store' = Patched(store, patches)
          /\ raw' = [p \in CamPaths |->
                        IF p \in DOMAIN patches THEN patches[p].value ELSE raw[p]]
          /\ told' = Project(raw')
          /\ UNCHANGED <<painted, cached, inFlight, requests, waiting, warmed, active>>
      BY DEF CamDelta, Surfaced, fetcher
    <2>2. /\ received + 1 \in LeafValues /\ 0 \in LeafValues
          /\ received' \in 0 .. MaxFrames /\ disturbed' \in BOOLEAN
          /\ stream' = [stream EXCEPT !.values = Written(@, patches)]
      BY <1>2, <2>1
    <2>3. /\ DOMAIN patches = P
          /\ \A p \in P : patches[p].value \in LeafValues /\ patches[p].transition \in {Ease, None}
      BY <2>2
    <2> HIDE DEF patches
    <2>4. ASSUME NEW values \in Leaves(Paths) PROVE Written(values, patches) \in Leaves(Paths)
      BY <2>3, <2>4 DEF Written, Leaves
    <2>5. store' \in Stores
      <3>1. Written(store.values, patches) \in Leaves(Paths)
        BY <1>1, <2>4 DEF Stores
      <3>2. [p \in Paths |-> IF p \in DOMAIN patches /\ patches[p].transition # None
                             THEN patches[p].transition ELSE store.directives[p]]
               \in [Paths -> {Ease, None}]
        BY <1>1, <2>3 DEF Stores
      <3> QED
        BY <2>1, <3>1, <3>2 DEF Patched, Stores
    <2>6. stream' \in [version : Versions \cup {None}, values : Leaves(Paths)]
      <3> DEFINE values == Written(stream.values, patches)
      <3>1. values \in Leaves(Paths) /\ stream' = [stream EXCEPT !.values = values]
        BY <1>1, <2>2, <2>4
      <3> HIDE DEF values
      <3> QED
        BY <1>1, <3>1
    <2>7. raw' \in Leaves(CamPaths) /\ told' \in Leaves(CamPaths)
      <3>1. raw' \in Leaves(CamPaths)
        BY <1>1, <2>1, <2>3 DEF Leaves
      <3> QED
        BY <2>1, <3>1, ProjectType
    <2> QED
      BY <1>1, <2>1, <2>2, <2>5, <2>6, <2>7 DEF TypeOK, Stores
  <1>5. CASE OnSceneRoster
    <2> PICK roster \in SUBSET Versions :
          WarmRoster(roster) /\ UNCHANGED <<view, waiting, cam, active, history>>
      BY <1>5 DEF OnSceneRoster
    <2>1. Fresh(roster) \in SUBSET Versions
      BY DEF Fresh
    <2>2. Gets(Fresh(roster)) /\ warmed' = warmed \cup Fresh(roster)
      BY DEF WarmRoster
    <2>3. requests' \in [Versions -> Nat] /\ inFlight' \subseteq Versions /\ cached' = cached
      BY <1>1, <2>1, <2>2, GetsType
    <2> QED
      BY <1>1, <2>1, <2>2, <2>3 DEF TypeOK, Stores, view, cam, history
  <1>6. ASSUME NEW v \in Versions, FetchEnds(v) \/ FetchFails(v)
        PROVE  TypeOK'
    <2>1. /\ requests' = [requests EXCEPT ![v] = @ - 1] /\ requests[v] > 0
          /\ inFlight' = inFlight \ {v}
          /\ waiting' = [waiting EXCEPT ![v] = <<>>]
          /\ UNCHANGED <<cam, active, stream, received>>
      BY <1>6 DEF FetchEnds, FetchFails, Ends, history
    <2>2. requests' \in [Versions -> Nat]
      BY <1>1, <2>1
    <2>3. waiting' \in [Versions -> Seq(States)]
      <3> DEFINE none == <<>>
      <3>1. none \in Seq(States) /\ waiting' = [waiting EXCEPT ![v] = none]
        BY <2>1
      <3> HIDE DEF none
      <3> QED
        BY <1>1, <3>1
    <2>4. store' \in Stores /\ painted' \in Versions \cup {None}
      <3>1. UNCHANGED view \/ (waiting[v] # <<>> /\ store' = ResetInTurn(waiting[v])
                                /\ painted' = v)
        BY <1>6 DEF FetchEnds, FetchFails, Applied
      <3>2. waiting[v] # <<>> => ResetInTurn(waiting[v]) \in Stores
        BY <1>1, InTurnType
      <3> QED
        BY <1>1, <3>1, <3>2 DEF view
    <2>5. cached' \subseteq Versions /\ warmed' \subseteq Versions /\ disturbed' \in BOOLEAN
      BY <1>1, <1>6 DEF FetchEnds, FetchFails, Released, history
    <2> QED
      BY <1>1, <2>1, <2>2, <2>3, <2>4, <2>5 DEF TypeOK, Stores, cam
  <1>7. CASE Disconnect
    BY <1>1, <1>7 DEF Disconnect, TypeOK, Stores, view, fetcher, cam, history
  <1>8. CASE UNCHANGED vars
    BY <1>1, <1>8 DEF vars, TypeOK, Stores, view, fetcher, cam, history
  <1> QED
    BY <1>3, <1>4, <1>5, <1>6, <1>7, <1>8 DEF Next

\* The state of a mounted runtime stays well formed, for any versions, paths
\* and number of frames.
THEOREM MountTypeCorrect == Spec => []TypeOK
  <1> QED
    BY TypesInit, TypesStep, PTL DEF Spec
-----------------------------------------------------------------------------
(***************************************************************************)
(* The undisturbed view.  While nothing has disturbed the runtime either   *)
(* the screen is the stream's state, or the newest frame is a snapshot     *)
(* that is the only one waiting, and applying it will make it so.          *)
(***************************************************************************)
ViewIsStream == store.values = stream.values /\ painted = stream.version

NewestWaits ==
    \E v \in Versions, state \in States :
        /\ waiting[v] = <<state>>
        /\ Restored(state) = stream.values
        /\ v = stream.version
        /\ \A w \in Versions \ {v} : waiting[w] = <<>>

PaintInv == ~disturbed /\ active => (~Awaited /\ ViewIsStream) \/ NewestWaits

LEMMA PaintInit == Init => PaintInv
  <1> SUFFICES ASSUME Init PROVE PaintInv
    OBVIOUS
  <1>1. ~Awaited
    BY DEF Init, Awaited
  <1>2. ViewIsStream
    BY DEF Init, ViewIsStream, EmptyStore
  <1> QED
    BY <1>1, <1>2 DEF PaintInv

\* A frame that leaves the runtime undisturbed finds no snapshot waiting.
LEMMA FrameUndisturbed ==
  ASSUME NEW said, Received(said), PaintInv, ~disturbed'
  PROVE  ~Awaited /\ ViewIsStream /\ stream' = said
  <1>1. ~disturbed /\ ~Awaited /\ active /\ stream' = said
    BY DEF Received
  <1>2. ~NewestWaits
    <2> SUFFICES ASSUME NewestWaits PROVE FALSE
      OBVIOUS
    <2>1. PICK v \in Versions, state \in States : waiting[v] = <<state>>
      BY DEF NewestWaits
    <2>2. waiting[v] # <<>>
      BY <2>1
    <2> QED
      BY <1>1, <2>2 DEF Awaited
  <1> QED
    BY <1>1, <1>2 DEF PaintInv

LEMMA PaintStep == TypeOK /\ PaintInv /\ [Next]_vars => PaintInv'
  <1> SUFFICES ASSUME TypeOK, PaintInv, [Next]_vars, ~disturbed', active'
               PROVE  (~Awaited' /\ ViewIsStream') \/ NewestWaits'
    BY DEF PaintInv
  <1>1. waiting \in [Versions -> Seq(States)]
    BY DEF TypeOK
  <1>2. CASE OnSnapshot
    <2> PICK v \in Versions, P \in SUBSET Paths :
          LET state == [p \in P |-> received + 1] IN
          /\ Received([version |-> v, values |-> Restored(state)])
          /\ SnapshotHit(v, state) \/ SnapshotMiss(v, state)
      BY <1>2 DEF OnSnapshot
    <2> DEFINE state == [p \in P |-> received + 1]
    <2>1. /\ Received([version |-> v, values |-> Restored(state)])
          /\ SnapshotHit(v, state) \/ SnapshotMiss(v, state)
      OBVIOUS
    <2>2. state \in States
      <3>1. received + 1 \in LeafValues
        BY <2>1, MountAssumption DEF Received, LeafValues, TypeOK
      <3>2. state \in [P -> LeafValues]
        BY <3>1
      <3> QED
        BY <3>2 DEF States
    <2> HIDE DEF state
    <2>3. ~Awaited /\ stream' = [version |-> v, values |-> Restored(state)]
      BY <2>1, FrameUndisturbed
    <2>4. stream'.version = v /\ stream'.values = Restored(state)
      BY <2>3
    <2>5. CASE SnapshotHit(v, state)
      <3>1. waiting' = waiting /\ painted' = v /\ store'.values = Restored(state)
        BY <2>5 DEF SnapshotHit, Reset
      <3> QED
        BY <2>3, <2>4, <3>1 DEF Awaited, ViewIsStream
    <2>6. CASE SnapshotMiss(v, state)
      <3>1. \A w \in Versions : waiting[w] = <<>>
        BY <2>3 DEF Awaited
      <3>2. waiting' = [waiting EXCEPT ![v] = Append(waiting[v], state)]
        BY <2>6 DEF SnapshotMiss
      <3>3. Append(waiting[v], state) = <<state>>
        <4>1. Append(<<>>, state) = <<state>>
          OBVIOUS
        <4> QED
          BY <3>1, <4>1
      <3>4. waiting'[v] = <<state>>
        <4> DEFINE one == Append(waiting[v], state)
        <4>1. waiting' = [waiting EXCEPT ![v] = one]
          BY <3>2
        <4> HIDE DEF one
        <4>2. waiting'[v] = one
          BY <1>1, <4>1
        <4> QED
          BY <3>3, <4>2 DEF one
      <3>5. \A w \in Versions \ {v} : waiting'[w] = <<>>
        <4>1. \A w \in Versions \ {v} : waiting'[w] = waiting[w]
          BY <1>1, <3>2
        <4> QED
          BY <3>1, <4>1
      <3> QED
        BY <2>2, <2>4, <3>4, <3>5 DEF NewestWaits
    <2> QED
      BY <2>1, <2>5, <2>6
  <1>3. CASE OnDelta
    <2> PICK P \in SUBSET Paths \ {{}}, value \in {0, received + 1}, t \in {Ease, None} :
          LET patches == [p \in P |-> [value |-> value, transition |-> t]] IN
          /\ Received([stream EXCEPT !.values = Written(@, patches)])
          /\ store' = Patched(store, patches)
          /\ UNCHANGED <<painted, waiting>>
      BY <1>3 DEF OnDelta
    <2> DEFINE patches == [p \in P |-> [value |-> value, transition |-> t]]
    <2>1. /\ Received([stream EXCEPT !.values = Written(stream.values, patches)])
          /\ store' = Patched(store, patches)
          /\ painted' = painted /\ waiting' = waiting
      OBVIOUS
    <2> HIDE DEF patches
    <2> DEFINE written == Written(stream.values, patches)
    <2>2. /\ ~Awaited /\ ViewIsStream
          /\ stream' = [stream EXCEPT !.values = written]
      BY <2>1, FrameUndisturbed
    <2>3. store'.values = Written(store.values, patches)
      BY <2>1 DEF Patched
    <2>4. store'.values = written
      BY <2>2, <2>3 DEF ViewIsStream
    <2> HIDE DEF written
    <2>5. stream'.values = written /\ stream'.version = stream.version
      BY <2>2 DEF TypeOK
    <2> QED
      BY <2>1, <2>2, <2>4, <2>5 DEF Awaited, ViewIsStream
  <1>4. ASSUME UNCHANGED <<view, waiting, active, history>>
        PROVE  (~Awaited' /\ ViewIsStream') \/ NewestWaits'
    <2>1. /\ store' = store /\ painted' = painted /\ waiting' = waiting
          /\ active' = active /\ stream' = stream /\ disturbed' = disturbed
      BY <1>4 DEF view, history
    <2>2. (~Awaited /\ ViewIsStream) \/ NewestWaits
      BY <2>1 DEF PaintInv
    <2> QED
      BY <2>1, <2>2 DEF Awaited, ViewIsStream, NewestWaits
  <1>5. CASE OnSceneRoster
    BY <1>4, <1>5 DEF OnSceneRoster
  <1>6. ASSUME NEW v \in Versions, FetchEnds(v)
        PROVE  (~Awaited' /\ ViewIsStream') \/ NewestWaits'
    <2>1. /\ waiting' = [waiting EXCEPT ![v] = <<>>]
          /\ active /\ ~disturbed /\ stream' = stream /\ Applied(v)
      BY <1>6 DEF FetchEnds, history
    <2>2. /\ waiting'[v] = <<>>
          /\ \A w \in Versions \ {v} : waiting'[w] = waiting[w]
      <3> DEFINE none == <<>>
      <3>1. waiting' = [waiting EXCEPT ![v] = none]
        BY <2>1
      <3> HIDE DEF none
      <3>2. waiting'[v] = none /\ \A w \in Versions \ {v} : waiting'[w] = waiting[w]
        BY <1>1, <3>1
      <3> QED
        BY <3>2 DEF none
    <2>3. CASE ~Awaited /\ ViewIsStream
      <3>1. \A w \in Versions : waiting[w] = <<>>
        BY <2>3 DEF Awaited
      <3>2. UNCHANGED view
        BY <2>1, <3>1 DEF Applied
      <3>3. ~Awaited'
        BY <2>2, <3>1 DEF Awaited
      <3> QED
        BY <2>1, <2>3, <3>2, <3>3 DEF ViewIsStream, view
    <2>4. CASE NewestWaits
      <3> PICK u \in Versions, state \in States :
                 /\ waiting[u] = <<state>> /\ Restored(state) = stream.values
                 /\ u = stream.version
                 /\ \A w \in Versions \ {u} : waiting[w] = <<>>
        BY <2>4 DEF NewestWaits
      <3>1. CASE u = v
        <4>1. waiting[v] # <<>>
          <5>1. waiting[v] = <<state>>
            BY <3>1
          <5> QED
            BY <5>1
        <4>2. store' = ResetInTurn(<<state>>) /\ painted' = v
          BY <2>1, <3>1, <4>1 DEF Applied
        <4>3. store'.values = stream.values
          BY <4>2, InTurnOne
        <4>4. ~Awaited'
          BY <2>2, <3>1 DEF Awaited
        <4> QED
          BY <2>1, <3>1, <4>2, <4>3, <4>4 DEF ViewIsStream
      <3>2. CASE u # v
        <4>1. waiting'[u] = <<state>> /\ \A w \in Versions \ {u} : waiting'[w] = <<>>
          BY <2>2, <3>2
        <4>2. stream'.version = u /\ stream'.values = Restored(state)
          BY <2>1
        <4> QED
          BY <4>1, <4>2 DEF NewestWaits
      <3> QED
        BY <3>1, <3>2
    <2> QED
      BY <2>1, <2>3, <2>4 DEF PaintInv
  <1>7. ASSUME NEW v \in Versions, FetchFails(v)
        PROVE  (~Awaited' /\ ViewIsStream') \/ NewestWaits'
    <2>1. /\ waiting' = [waiting EXCEPT ![v] = <<>>] /\ waiting[v] = <<>>
          /\ active' = active /\ disturbed' = disturbed
          /\ UNCHANGED <<view, stream, received>>
      <3>1. /\ waiting' = [waiting EXCEPT ![v] = <<>>] /\ active' = active
            /\ UNCHANGED <<view, stream, received>>
        BY <1>7 DEF FetchFails, cam
      <3>2. disturbed' = (disturbed \/ waiting[v] # <<>>)
        BY <1>7 DEF FetchFails
      <3>3. disturbed \in BOOLEAN
        BY DEF TypeOK
      <3>4. ~disturbed /\ ~(waiting[v] # <<>>)
        BY <3>2, <3>3
      <3> QED
        BY <3>1, <3>2, <3>3, <3>4
    <2>2. waiting' = waiting
      <3> DEFINE none == <<>>
      <3>1. waiting' = [waiting EXCEPT ![v] = none] /\ waiting[v] = none
        BY <2>1
      <3> HIDE DEF none
      <3> QED
        BY <1>1, <3>1
    <2> QED
      BY <1>4, <2>1, <2>2 DEF history
  <1>8. CASE Disconnect
    BY <1>8 DEF Disconnect
  <1>9. CASE UNCHANGED vars
    BY <1>4, <1>9 DEF vars
  <1> QED
    BY <1>2, <1>3, <1>5, <1>6, <1>7, <1>8, <1>9 DEF Next

\* As long as every snapshot's bundle is at hand before the next frame comes
\* and no request of a waiting snapshot fails, the screen shows the stream's
\* state whenever no snapshot waits.
THEOREM MountUndisturbedView == Spec => []UndisturbedViewIsStream
  <1>1. PaintInv => UndisturbedViewIsStream
    <2> SUFFICES ASSUME PaintInv, ~disturbed, ~Awaited, active PROVE ViewIsStream
      BY DEF UndisturbedViewIsStream, ViewIsStream
    <2>1. ~NewestWaits
      <3> SUFFICES ASSUME NewestWaits PROVE FALSE
        OBVIOUS
      <3>1. PICK v \in Versions, state \in States : waiting[v] = <<state>>
        BY DEF NewestWaits
      <3>2. waiting[v] # <<>>
        BY <3>1
      <3> QED
        BY <3>2 DEF Awaited
    <2> QED
      BY <2>1 DEF PaintInv
  <1> QED
    BY <1>1, PaintInit, PaintStep, TypesInit, TypesStep, PTL DEF Spec

-----------------------------------------------------------------------------
(***************************************************************************)
(* The streams and devices the page's nodes share                          *)
(***************************************************************************)
ViewerStates == {"joining", "open", "leaving", "closed"}
Viewers == [room : Rooms, at : ViewerStates]

\* The live connections to peers of label l.
Live(l) == {c \in remotes : viewers[c[1]].at = "open" /\ labelKey(c[2]) = l}
Labels == {labelKey(p) : p \in Peers}

\* A viewer that may still feed the registry is one a room is open with.
RoomsInv ==
    /\ viewers \in Seq(Viewers)
    /\ \A v \in DOMAIN viewers : viewers[v].at \in {"joining", "open"} =>
          \E r \in DOMAIN meshes : meshes[r] = v
    /\ remotes \subseteq (DOMAIN viewers) \X Peers
    /\ \A c \in remotes : viewers[c[1]].at \in {"open", "leaving"}
    /\ \A l \in DOMAIN registry : l \in DOMAIN owners /\ owners[l] = registry[l][1]
    /\ \A l \in Labels \ disputed :
          IF Live(l) = {} THEN l \notin DOMAIN registry \cup DOMAIN owners
          ELSE l \in DOMAIN registry /\ Live(l) = {registry[l]}

LEMMA RoomsInvInit == RoomsInit => RoomsInv
  <1> SUFFICES ASSUME RoomsInit PROVE RoomsInv
    OBVIOUS
  <1>1. viewers \in Seq(Viewers) /\ DOMAIN viewers = {}
    BY DEF RoomsInit
  <1>2. DOMAIN registry = {} /\ DOMAIN owners = {} /\ remotes = {}
    BY DEF RoomsInit
  <1> QED
    BY <1>1, <1>2 DEF RoomsInv, Live

\* What leaving makes of the viewers: none that is gone joins or is open.
LEMMA LeftViewers ==
  ASSUME viewers \in Seq(Viewers), NEW gone
  PROVE  /\ Left(gone) \in Seq(Viewers) /\ Len(Left(gone)) = Len(viewers)
         /\ DOMAIN Left(gone) = DOMAIN viewers
         /\ \A v \in DOMAIN viewers :
              /\ v \notin gone => Left(gone)[v] = viewers[v]
              /\ v \in gone => Left(gone)[v].at \in {"leaving", "closed"}
              /\ viewers[v].at \in {"open", "leaving"} =>
                   Left(gone)[v].at \in {"open", "leaving"}
  <1>1. \A v \in DOMAIN viewers : viewers[v] \in Viewers
    BY ElementOfSeq, LenProperties
  <1>2. \A s \in ViewerStates : /\ AfterLeave[s] \in {"leaving", "closed"}
                                /\ s \in {"open", "leaving"} => AfterLeave[s] = "leaving"
    BY DEF AfterLeave, ViewerStates
  <1>3. \A v \in DOMAIN viewers :
              /\ v \notin gone => Left(gone)[v] = viewers[v]
              /\ v \in gone => /\ Left(gone)[v] \in Viewers
                               /\ Left(gone)[v].at = AfterLeave[viewers[v].at]
    BY <1>1, <1>2 DEF Left, Viewers, ViewerStates
  <1>4. /\ DOMAIN Left(gone) = 1 .. Len(viewers) /\ DOMAIN viewers = 1 .. Len(viewers)
        /\ Left(gone) = [v \in 1 .. Len(viewers) |-> Left(gone)[v]]
    BY LenProperties DEF Left
  <1>5. Left(gone) \in Seq(Viewers) /\ Len(Left(gone)) = Len(viewers)
    BY <1>1, <1>3, <1>4, LenProperties
  <1> QED
    BY <1>1, <1>2, <1>3, <1>4, <1>5 DEF Viewers

\* A step that leaves the viewers' states alone but for closing, and takes from the
\* registry and the owners the labels of the viewers that go.
LEMMA LiveAfterLeaving ==
  ASSUME RoomsInv, NEW gone, NEW l \in Labels \ disputed,
         remotes' = remotes,
         \A v \in DOMAIN viewers :
              /\ v \notin gone => viewers'[v] = viewers[v]
              /\ v \in gone => viewers'[v].at # "open"
  PROVE  Live(l)' = {c \in Live(l) : c[1] \notin gone}
  BY DEF RoomsInv, Live

LEMMA SetRoomsKeeps ==
  ASSUME RoomsInv, NEW next \in SUBSET Rooms, SetRooms(next)
  PROVE  RoomsInv'
  <1> DEFINE new == next \ DOMAIN meshes
             gone == {meshes[r] : r \in DOMAIN meshes \ next}
             N == Cardinality(new)
  <1>1. PICK added \in [1 .. N -> new] :
          /\ IsInjective(added)
          /\ viewers' = Left(gone) \o [i \in DOMAIN added |-> [room |-> added[i], at |-> "joining"]]
          /\ meshes' = [r \in next |-> IF r \in DOMAIN meshes THEN meshes[r]
                                       ELSE Len(viewers) + CHOOSE i \in DOMAIN added : added[i] = r]
          /\ registry' = Without(registry, OwnedBy(gone))
          /\ owners' = Without(owners, OwnedBy(gone))
          /\ UNCHANGED <<present, remotes, disputed>>
    BY DEF SetRooms
  <1> DEFINE fresh == [i \in DOMAIN added |-> [room |-> added[i], at |-> "joining"]]
  <1>2. N \in Nat /\ new \subseteq Rooms
    BY RoomsAssumption, FS_Subset, FS_CardinalityType
  <1>3. fresh \in Seq(Viewers) /\ Len(fresh) = N /\ \A i \in 1 .. N : fresh[i].at = "joining"
    <2>1. fresh = [i \in 1 .. N |-> [room |-> added[i], at |-> "joining"]]
      OBVIOUS
    <2>2. fresh \in [1 .. N -> Viewers]
      BY <1>2, <2>1 DEF Viewers, ViewerStates
    <2>3. \A i \in 1 .. N : fresh[i].at = "joining"
      BY <2>1
    <2> HIDE DEF fresh, N
    <2>4. fresh \in Seq(Viewers) /\ Len(fresh) = N
      BY <1>2, <2>2
    <2> QED
      BY <2>3, <2>4
  <1>4. viewers \in Seq(Viewers) /\ Len(viewers) \in Nat /\ DOMAIN viewers = 1 .. Len(viewers)
    BY LenProperties DEF RoomsInv
  <1> HIDE DEF fresh, gone
  <1>5. /\ Left(gone) \in Seq(Viewers) /\ Len(Left(gone)) = Len(viewers)
        /\ DOMAIN Left(gone) = DOMAIN viewers
        /\ \A v \in DOMAIN viewers :
              /\ v \notin gone => Left(gone)[v] = viewers[v]
              /\ v \in gone => Left(gone)[v].at \in {"leaving", "closed"}
              /\ viewers[v].at \in {"open", "leaving"} =>
                   Left(gone)[v].at \in {"open", "leaving"}
    BY <1>4, LeftViewers
  <1>6. viewers' = Left(gone) \o fresh
    BY <1>1 DEF fresh
  <1>7. /\ viewers' \in Seq(Viewers) /\ DOMAIN viewers' = 1 .. Len(viewers) + N
        /\ \A v \in 1 .. Len(viewers) : viewers'[v] = Left(gone)[v]
        /\ \A i \in 1 .. N : viewers'[Len(viewers) + i] = fresh[i]
    <2> DEFINE u == Left(gone)
    <2> HIDE DEF u, N
    <2>1. /\ viewers' \in Seq(Viewers) /\ Len(viewers') = Len(viewers) + N
          /\ \A v \in 1 .. Len(viewers) + N :
                viewers'[v] = IF v <= Len(viewers) THEN u[v] ELSE fresh[v - Len(viewers)]
      <3>1. u \in Seq(Viewers) /\ Len(u) = Len(viewers) /\ viewers' = u \o fresh
        BY <1>5, <1>6 DEF u
      <3>2. /\ u \o fresh \in Seq(Viewers)
            /\ Len(u \o fresh) = Len(u) + Len(fresh)
            /\ \A v \in 1 .. Len(u) + Len(fresh) :
                  (u \o fresh)[v] = IF v <= Len(u) THEN u[v] ELSE fresh[v - Len(u)]
        BY <1>3, <3>1, ConcatProperties
      <3> QED
        BY <1>3, <3>1, <3>2
    <2>2. DOMAIN viewers' = 1 .. Len(viewers) + N
      BY <2>1, LenProperties
    <2>3. \A v \in 1 .. Len(viewers) : viewers'[v] = u[v]
      BY <1>2, <1>4, <2>1
    <2>4. \A i \in 1 .. N : viewers'[Len(viewers) + i] = fresh[i]
      BY <1>2, <1>4, <2>1
    <2> QED
      BY <2>1, <2>2, <2>3, <2>4 DEF u
  <1>8. \A v \in DOMAIN viewers' : viewers'[v].at \in {"joining", "open"} =>
            \E r \in DOMAIN meshes' : meshes'[r] = v
    <2> SUFFICES ASSUME NEW v \in DOMAIN viewers', viewers'[v].at \in {"joining", "open"}
                 PROVE  \E r \in next : meshes'[r] = v
      BY <1>1
    <2>1. CASE v \in DOMAIN viewers
      <3>1. v \notin gone /\ viewers[v].at \in {"joining", "open"}
        BY <1>4, <1>5, <1>7, <2>1
      <3>2. PICK r \in DOMAIN meshes : meshes[r] = v
        BY <2>1, <3>1 DEF RoomsInv
      <3>3. r \in next
        BY <3>1, <3>2 DEF gone
      <3> QED
        BY <1>1, <3>2, <3>3
    <2>2. CASE v \notin DOMAIN viewers
      <3> DEFINE i == v - Len(viewers)
      <3>1. i \in 1 .. N /\ v = Len(viewers) + i
        BY <1>2, <1>4, <1>7, <2>2
      <3>2. (CHOOSE j \in DOMAIN added : added[j] = added[i]) = i
        BY <1>1, <3>1 DEF IsInjective
      <3>3. added[i] \in next /\ added[i] \notin DOMAIN meshes
        BY <3>1
      <3> QED
        BY <1>1, <3>1, <3>2, <3>3
    <2> QED
      BY <2>1, <2>2
  <1>9. remotes' \subseteq (DOMAIN viewers') \X Peers
    BY <1>1, <1>2, <1>4, <1>7 DEF RoomsInv
  <1>10. \A c \in remotes' : viewers'[c[1]].at \in {"open", "leaving"}
    BY <1>1, <1>4, <1>5, <1>7 DEF RoomsInv
  <1>11. \A l \in DOMAIN registry' : l \in DOMAIN owners' /\ owners'[l] = registry'[l][1]
    BY <1>1 DEF RoomsInv, Without, Restrict
  <1>12. ASSUME NEW l \in Labels \ disputed'
         PROVE  IF Live(l)' = {} THEN l \notin DOMAIN registry' \cup DOMAIN owners'
                ELSE l \in DOMAIN registry' /\ Live(l)' = {registry'[l]}
    <2>1. Live(l)' = {c \in Live(l) : c[1] \notin gone}
      <3>1. \A v \in DOMAIN viewers :
              /\ v \notin gone => viewers'[v] = viewers[v]
              /\ v \in gone => viewers'[v].at # "open"
        BY <1>4, <1>5, <1>7
      <3> QED
        BY <1>1, <1>12, <3>1, LiveAfterLeaving
    <2>2. l \in Labels \ disputed
      BY <1>1, <1>12
    <2>3. CASE Live(l) = {}
      BY <1>1, <2>1, <2>2, <2>3 DEF RoomsInv, Without, Restrict
    <2>4. CASE Live(l) # {}
      <3>1. l \in DOMAIN registry /\ Live(l) = {registry[l]} /\ owners[l] = registry[l][1]
            /\ l \in DOMAIN owners
        BY <2>2, <2>4 DEF RoomsInv
      <3>2. CASE owners[l] \in gone
        BY <1>1, <2>1, <3>1, <3>2 DEF OwnedBy, Without, Restrict
      <3>3. CASE owners[l] \notin gone
        BY <1>1, <2>1, <3>1, <3>3 DEF OwnedBy, Without, Restrict
      <3> QED
        BY <3>2, <3>3
    <2> QED
      BY <2>3, <2>4
  <1> QED
    BY <1>7, <1>8, <1>9, <1>10, <1>11, <1>12 DEF RoomsInv

LEMMA LeaveRoomsKeeps == RoomsInv /\ LeaveRooms => RoomsInv'
  <1> SUFFICES ASSUME RoomsInv, LeaveRooms PROVE RoomsInv'
    OBVIOUS
  <1> DEFINE gone == {meshes[r] : r \in DOMAIN meshes}
  <1>1. /\ viewers' = Left(gone) /\ DOMAIN registry' = {}
        /\ owners' = Without(owners, OwnedBy(gone)) /\ UNCHANGED <<present, remotes, disputed>>
    BY DEF LeaveRooms, Range
  <1>2. \A v \in DOMAIN viewers : viewers[v].at \in {"joining", "open"} => v \in gone
    BY DEF RoomsInv
  <1>3. viewers \in Seq(Viewers)
    BY DEF RoomsInv
  <1> HIDE DEF gone
  <1>4. /\ Left(gone) \in Seq(Viewers) /\ Len(Left(gone)) = Len(viewers)
        /\ DOMAIN Left(gone) = DOMAIN viewers
        /\ \A v \in DOMAIN viewers :
              /\ v \notin gone => Left(gone)[v] = viewers[v]
              /\ v \in gone => Left(gone)[v].at \in {"leaving", "closed"}
              /\ viewers[v].at \in {"open", "leaving"} =>
                   Left(gone)[v].at \in {"open", "leaving"}
    BY <1>3, LeftViewers
  <1>5. \A v \in DOMAIN viewers : viewers'[v].at \notin {"joining", "open"}
    BY <1>1, <1>2, <1>4
  <1>6. ASSUME NEW l \in Labels \ disputed'
        PROVE  Live(l)' = {} /\ l \notin DOMAIN owners'
    <2>1. Live(l)' = {}
      BY <1>1, <1>5 DEF Live, RoomsInv
    <2>2. l \in DOMAIN owners => owners[l] \in gone
      <3> SUFFICES ASSUME l \in DOMAIN owners PROVE owners[l] \in gone
        OBVIOUS
      <3>1. Live(l) = {registry[l]} /\ owners[l] = registry[l][1]
        BY <1>1, <1>6 DEF RoomsInv
      <3>2. viewers[owners[l]].at = "open" /\ owners[l] \in DOMAIN viewers
        BY <3>1 DEF Live, RoomsInv
      <3> QED
        BY <1>2, <3>2
    <2> QED
      BY <1>1, <2>1, <2>2 DEF OwnedBy, Without, Restrict
  <1>7. \A c \in remotes' : viewers'[c[1]].at \in {"open", "leaving"}
    BY <1>1, <1>4 DEF RoomsInv
  <1> QED
    BY <1>1, <1>4, <1>5, <1>6, <1>7 DEF RoomsInv

\* A viewer is changed in place.
LEMMA ViewerSet ==
  ASSUME RoomsInv, NEW v \in DOMAIN viewers, NEW s \in ViewerStates,
         viewers' = [viewers EXCEPT ![v].at = s]
  PROVE  /\ viewers' \in Seq(Viewers) /\ DOMAIN viewers' = DOMAIN viewers
         /\ \A w \in DOMAIN viewers : viewers'[w].at = IF w = v THEN s ELSE viewers[w].at
  <1> DEFINE x == [viewers[v] EXCEPT !.at = s]
  <1>1. /\ viewers \in Seq(Viewers) /\ DOMAIN viewers = 1 .. Len(viewers)
        /\ \A w \in DOMAIN viewers : viewers[w] \in Viewers
    BY ElementOfSeq, LenProperties DEF RoomsInv
  <1>2. x \in Viewers /\ x.at = s
    BY <1>1 DEF Viewers
  <1>3. viewers' = [viewers EXCEPT ![v] = x]
    OBVIOUS
  <1> HIDE DEF x
  <1>4. viewers' \in Seq(Viewers) /\ DOMAIN viewers' = DOMAIN viewers
    BY <1>1, <1>2, <1>3, ExceptSeq
  <1> QED
    BY <1>1, <1>2, <1>3, <1>4

LEMMA MeshOpensKeeps ==
  ASSUME RoomsInv, NEW v \in DOMAIN viewers, MeshOpens(v)
  PROVE  RoomsInv'
  <1>1. /\ viewers[v].at = "joining" /\ viewers' = [viewers EXCEPT ![v].at = "open"]
        /\ UNCHANGED <<meshes, present, remotes, registry, owners, disputed>>
    BY DEF MeshOpens
  <1>2. /\ viewers' \in Seq(Viewers) /\ DOMAIN viewers' = DOMAIN viewers
        /\ \A w \in DOMAIN viewers : viewers'[w].at = IF w = v THEN "open" ELSE viewers[w].at
    BY <1>1, ViewerSet DEF ViewerStates
  <1>3. \A c \in remotes : c[1] \in DOMAIN viewers /\ c[1] # v
    BY <1>1 DEF RoomsInv
  <1>4. \A l : Live(l)' = Live(l)
    BY <1>1, <1>2, <1>3 DEF Live
  <1>5. \A w \in DOMAIN viewers' : viewers'[w].at \in {"joining", "open"} =>
            \E r \in DOMAIN meshes' : meshes'[r] = w
    BY <1>1, <1>2 DEF RoomsInv
  <1>6. \A c \in remotes' : viewers'[c[1]].at \in {"open", "leaving"}
    BY <1>1, <1>2, <1>3 DEF RoomsInv
  <1> QED
    BY <1>1, <1>2, <1>4, <1>5, <1>6 DEF RoomsInv

LEMMA SocketEndsKeeps ==
  ASSUME RoomsInv, NEW v \in DOMAIN viewers, SocketEnds(v)
  PROVE  RoomsInv'
  <1>1. /\ viewers' = [viewers EXCEPT ![v].at = "closed"]
        /\ remotes' = {c \in remotes : c[1] # v}
        /\ disputed' = disputed \cup OwnedBy({v})
        /\ UNCHANGED <<meshes, present, registry, owners>>
    BY DEF SocketEnds
  <1>2. /\ viewers' \in Seq(Viewers) /\ DOMAIN viewers' = DOMAIN viewers
        /\ \A w \in DOMAIN viewers : viewers'[w].at = IF w = v THEN "closed" ELSE viewers[w].at
    BY <1>1, ViewerSet DEF ViewerStates
  <1>3. \A c \in remotes : c[1] \in DOMAIN viewers
    BY DEF RoomsInv
  <1>4. \A l : Live(l)' = {c \in Live(l) : c[1] # v}
    BY <1>1, <1>2, <1>3 DEF Live
  <1>5. \A w \in DOMAIN viewers' : viewers'[w].at \in {"joining", "open"} =>
            \E r \in DOMAIN meshes' : meshes'[r] = w
    BY <1>1, <1>2 DEF RoomsInv
  <1>6. \A c \in remotes' : viewers'[c[1]].at \in {"open", "leaving"}
    BY <1>1, <1>2, <1>3 DEF RoomsInv
  <1>7. ASSUME NEW l \in Labels \ disputed'
        PROVE  IF Live(l)' = {} THEN l \notin DOMAIN registry' \cup DOMAIN owners'
               ELSE l \in DOMAIN registry' /\ Live(l)' = {registry'[l]}
    <2>1. l \in Labels \ disputed /\ (l \in DOMAIN owners => owners[l] # v)
      BY <1>1, <1>7 DEF OwnedBy
    <2>2. CASE Live(l) = {}
      BY <1>1, <1>4, <2>1, <2>2 DEF RoomsInv
    <2>3. CASE Live(l) # {}
      BY <1>1, <1>4, <2>1, <2>3 DEF RoomsInv
    <2> QED
      BY <2>2, <2>3
  <1> QED
    BY <1>1, <1>2, <1>3, <1>5, <1>6, <1>7 DEF RoomsInv

\* What another peer of the name would be.
LEMMA LiveIsOwn ==
  ASSUME RoomsInv, NEW v, NEW p \in Peers, labelKey(p) \notin disputed,
         labelKey(p) \in DOMAIN owners, owners[labelKey(p)] = v, ~Namesakes(v, p)
  PROVE  Live(labelKey(p)) = {<<v, p>>}
  <1> DEFINE l == labelKey(p)
  <1>1. l \in Labels
    BY DEF Labels
  <1>2. Live(l) = {registry[l]} /\ registry[l][1] = v
    BY <1>1 DEF RoomsInv
  <1>3. registry[l] \in remotes /\ labelKey(registry[l][2]) = l
    BY <1>2 DEF Live
  <1>4. registry[l][2] = p
    BY <1>2, <1>3 DEF Namesakes
  <1>5. registry[l] = <<registry[l][1], registry[l][2]>>
    BY <1>3 DEF RoomsInv
  <1> QED
    BY <1>2, <1>4, <1>5

LEMMA RemoteTrackKeeps ==
  ASSUME RoomsInv, NEW v \in DOMAIN viewers, NEW p \in Peers, RemoteTrack(v, p)
  PROVE  RoomsInv'
  <1> DEFINE k == labelKey(p)
  <1>1. /\ viewers[v].at \in {"open", "leaving"}
        /\ remotes' = remotes \cup {<<v, p>>}
        /\ IF Acquires(k, v)
           THEN registry' = With(registry, k, <<v, p>>) /\ owners' = With(owners, k, v)
           ELSE UNCHANGED <<registry, owners>>
        /\ disputed' = IF ~Acquires(k, v) \/ Namesakes(v, p) \/ viewers[v].at = "leaving"
                       THEN disputed \cup {k} ELSE disputed
        /\ UNCHANGED <<viewers, meshes, present>>
    BY DEF RemoteTrack
  <1> HIDE DEF k
  <1>2. remotes' \subseteq (DOMAIN viewers') \X Peers
    BY <1>1 DEF RoomsInv
  <1>3. \A c \in remotes' : viewers'[c[1]].at \in {"open", "leaving"}
    BY <1>1 DEF RoomsInv
  <1>4. \A l \in DOMAIN registry' : l \in DOMAIN owners' /\ owners'[l] = registry'[l][1]
    BY <1>1 DEF RoomsInv, With
  <1>5. ASSUME NEW l \in Labels \ disputed'
        PROVE  IF Live(l)' = {} THEN l \notin DOMAIN registry' \cup DOMAIN owners'
               ELSE l \in DOMAIN registry' /\ Live(l)' = {registry'[l]}
    <2>1. l \in Labels \ disputed
      BY <1>1, <1>5
    <2>2. CASE l # k
      <3>1. Live(l)' = Live(l)
        BY <1>1, <2>2 DEF Live, k
      <3> QED
        BY <1>1, <2>1, <2>2, <3>1 DEF RoomsInv, With
    <2>3. CASE l = k
      <3>1. Acquires(k, v) /\ ~Namesakes(v, p) /\ viewers[v].at = "open"
        BY <1>1, <1>5, <2>3
      <3>2. Live(k)' = Live(k) \cup {<<v, p>>}
        BY <1>1, <3>1 DEF Live, k
      <3>3. Live(k) \in {{}, {<<v, p>>}}
        <4>1. CASE k \in DOMAIN owners
          BY <2>1, <2>3, <3>1, <4>1, LiveIsOwn DEF Acquires, k
        <4>2. CASE k \notin DOMAIN owners
          BY <2>1, <2>3, <4>2 DEF RoomsInv
        <4> QED
          BY <4>1, <4>2
      <3>4. k \in DOMAIN registry' /\ registry'[k] = <<v, p>>
        BY <1>1, <3>1 DEF With
      <3> QED
        BY <2>3, <3>2, <3>3, <3>4
    <2> QED
      BY <2>2, <2>3
  <1> QED
    BY <1>1, <1>2, <1>3, <1>4, <1>5 DEF RoomsInv

LEMMA PeerLeftKeeps ==
  ASSUME RoomsInv, NEW v \in DOMAIN viewers, NEW p \in Peers, PeerLeft(v, p)
  PROVE  RoomsInv'
  <1> DEFINE k == labelKey(p)
  <1>1. /\ remotes' = remotes \ {<<v, p>>}
        /\ IF Acquires(k, v)
           THEN registry' = Without(registry, {k}) /\ owners' = Without(owners, {k})
           ELSE UNCHANGED <<registry, owners>>
        /\ disputed' = IF Namesakes(v, p) THEN disputed \cup {k} ELSE disputed
        /\ UNCHANGED <<viewers, meshes, present>>
    BY DEF PeerLeft, Gone
  <1> HIDE DEF k
  <1>2. remotes' \subseteq (DOMAIN viewers') \X Peers
    BY <1>1 DEF RoomsInv
  <1>3. \A c \in remotes' : viewers'[c[1]].at \in {"open", "leaving"}
    BY <1>1 DEF RoomsInv
  <1>4. \A l \in DOMAIN registry' : l \in DOMAIN owners' /\ owners'[l] = registry'[l][1]
    BY <1>1 DEF RoomsInv, Without, Restrict
  <1>5. ASSUME NEW l \in Labels \ disputed'
        PROVE  IF Live(l)' = {} THEN l \notin DOMAIN registry' \cup DOMAIN owners'
               ELSE l \in DOMAIN registry' /\ Live(l)' = {registry'[l]}
    <2>1. l \in Labels \ disputed
      BY <1>1, <1>5
    <2>2. Live(l)' = Live(l) \ {<<v, p>>}
      BY <1>1 DEF Live
    <2>3. CASE l # k
      <3>1. <<v, p>> \notin Live(l)
        BY <2>3 DEF Live, k
      <3> QED
        BY <1>1, <2>1, <2>2, <2>3, <3>1 DEF RoomsInv, Without, Restrict
    <2>4. CASE l = k /\ Acquires(k, v)
      <3>1. ~Namesakes(v, p)
        BY <1>1, <1>5, <2>4
      <3>2. Live(k) \in {{}, {<<v, p>>}}
        <4>1. CASE k \in DOMAIN owners
          BY <2>1, <2>4, <3>1, <4>1, LiveIsOwn DEF Acquires, k
        <4>2. CASE k \notin DOMAIN owners
          BY <2>1, <2>4, <4>2 DEF RoomsInv
        <4> QED
          BY <4>1, <4>2
      <3> QED
        BY <1>1, <2>2, <2>4, <3>2 DEF Without, Restrict
    <2>5. CASE l = k /\ ~Acquires(k, v)
      <3>1. Live(l) = {registry[l]} /\ registry[l][1] # v /\ l \in DOMAIN registry
        BY <2>1, <2>5 DEF RoomsInv, Acquires
      <3>2. <<v, p>> \notin Live(l)
        BY <3>1
      <3> QED
        BY <1>1, <2>2, <2>5, <3>1, <3>2
    <2> QED
      BY <2>3, <2>4, <2>5
  <1> QED
    BY <1>1, <1>2, <1>3, <1>4, <1>5 DEF RoomsInv

LEMMA RoomsInvStep == RoomsInv /\ [RoomsNext]_roomVars => RoomsInv'
  <1> SUFFICES ASSUME RoomsInv, [RoomsNext]_roomVars PROVE RoomsInv'
    OBVIOUS
  <1>1. ASSUME UNCHANGED <<viewers, meshes, remotes, registry, owners, disputed>>
        PROVE  RoomsInv'
    BY <1>1 DEF RoomsInv, Live
  <1> QED
    BY <1>1, SetRoomsKeeps, LeaveRoomsKeeps, MeshOpensKeeps, SocketEndsKeeps,
       RemoteTrackKeeps, PeerLeftKeeps DEF RoomsNext, PeerMoves, roomVars

\* However rooms close and are re-opened while peers connect, fail and move, a label
\* resolves to the stream of the one live peer of that name in an open room, but for
\* the labels whose case is known to go wrong.
THEOREM PageLabelsFollowPeers == RoomsSpec => []LabelsFollowPeers
  <1>1. RoomsInv => LabelsFollowPeers
    BY DEF RoomsInv, LabelsFollowPeers, Live, Labels
  <1> QED
    BY <1>1, RoomsInvInit, RoomsInvStep, PTL DEF RoomsSpec
-----------------------------------------------------------------------------
(***************************************************************************)
(* The shared devices.                                                     *)
(***************************************************************************)

CaptureKeys ==
    {Unresolved} \cup {KeyOf(s, d) : s \in CaptureSources \cup {Unresolved},
                                     d \in Devices \cup {Unresolved}}
Claims ==
    [source : CaptureSources \cup {Unresolved},
     at : {"resolving", "waiting", "holding", "done"},
     cancelled : BOOLEAN, key : CaptureKeys, acq : Nat]
Acquisitions == [key : CaptureKeys, is : {"pending", "live", "failed", "stopped"}]

\* The claims that count, and those of them on acquisition a.
Counting(q) == {i \in DOMAIN q : q[i].at \in {"waiting", "holding"}}
On(q, a) == {i \in Counting(q) : q[i].acq = a}

Active(as, a) == a \in DOMAIN as /\ as[a].is \in {"pending", "live"}

\* An entry is of an active acquisition of its key, and knows its claims.
Entry(k, e, q, as) ==
    /\ e \in [acq : Nat, refs : Nat]
    /\ Active(as, e.acq) /\ as[e.acq].key = k
    /\ e.refs = Cardinality(On(q, e.acq)) /\ e.refs # 0

\* A claim that counts is on an active acquisition of its key.
Claimed(m, as) ==
    /\ Active(as, m.acq) /\ as[m.acq].key = m.key
    /\ m.at = "holding" => ~m.cancelled /\ as[m.acq].is = "live"

\* A mounted node has a claim.
Placed(cur, q) ==
    cur \in [CaptureNodes -> Nat] /\ \A n \in CaptureNodes : cur[n] # 0 => cur[n] \in DOMAIN q

CaptureInv ==
    /\ claims \in Seq(Claims) /\ acqs \in Seq(Acquisitions) /\ Placed(current, claims)
    /\ \A k \in DOMAIN cache : Entry(k, cache[k], claims, acqs)
    /\ \A a \in DOMAIN acqs : Active(acqs, a) =>
          acqs[a].key \in DOMAIN cache /\ cache[acqs[a].key].acq = a
    /\ \A i \in Counting(claims) : Claimed(claims[i], acqs)

LEMMA CaptureInvInit == CaptureInit => CaptureInv
  <1> SUFFICES ASSUME CaptureInit PROVE CaptureInv
    OBVIOUS
  <1>1. /\ claims \in Seq(Claims) /\ acqs \in Seq(Acquisitions)
        /\ DOMAIN claims = {} /\ DOMAIN acqs = {} /\ DOMAIN cache = {}
    BY DEF CaptureInit
  <1>2. Placed(current, claims)
    BY DEF CaptureInit, Placed
  <1> QED
    BY <1>1, <1>2 DEF CaptureInv, Counting

LEMMA OnFinite ==
  ASSUME NEW q \in Seq(Claims), NEW a
  PROVE  IsFiniteSet(On(q, a)) /\ Cardinality(On(q, a)) \in Nat
  <1>1. On(q, a) \subseteq 1 .. Len(q) /\ Len(q) \in Nat
    BY LenProperties DEF On, Counting
  <1>2. IsFiniteSet(1 .. Len(q))
    BY <1>1, FS_Interval
  <1> QED
    BY <1>1, <1>2, FS_Subset, FS_CardinalityType

\* A step on which no claim begins or ceases to count.
LEMMA QuietKeeps ==
  ASSUME CaptureInv, claims' \in Seq(Claims), Counting(claims') = Counting(claims),
         \A i \in Counting(claims) :
            /\ claims'[i].acq = claims[i].acq /\ claims'[i].key = claims[i].key
            /\ claims'[i].at = "holding" =>
                 ~claims'[i].cancelled /\ acqs[claims[i].acq].is = "live",
         Placed(current', claims'),
         UNCHANGED <<cache, acqs>>
  PROVE  CaptureInv'
  <1>1. \A a : On(claims', a) = On(claims, a)
    BY DEF On
  <1>2. \A k \in DOMAIN cache' : Entry(k, cache'[k], claims', acqs')
    BY <1>1 DEF CaptureInv, Entry
  <1>3. \A i \in Counting(claims') : Claimed(claims'[i], acqs')
    BY DEF CaptureInv, Claimed
  <1> QED
    BY <1>2, <1>3 DEF CaptureInv

\* Claim i ceases to count, and what it held is released.
LEMMA DropKeeps ==
  ASSUME CaptureInv, claims' \in Seq(Claims), NEW i \in Counting(claims),
         Counting(claims') = Counting(claims) \ {i},
         \A j \in Counting(claims') : claims'[j] = claims[j],
         acqs[claims[i].acq].is = "live", Release(claims[i].key),
         Placed(current', claims')
  PROVE  CaptureInv'
  <1> DEFINE a == claims[i].acq
             k == claims[i].key
  <1>1. /\ a \in DOMAIN acqs /\ acqs[a].key = k /\ k \in DOMAIN cache /\ cache[k].acq = a
        /\ acqs[a].is = "live" /\ Entry(k, cache[k], claims, acqs)
    BY DEF CaptureInv, Claimed, Active
  <1>2. i \in On(claims, a) /\ On(claims', a) = On(claims, a) \ {i}
    BY DEF On
  <1>3. \A b : b # a => On(claims', b) = On(claims, b)
    BY DEF On
  <1>4. IsFiniteSet(On(claims, a)) /\ Cardinality(On(claims, a)) \in Nat
    BY OnFinite DEF CaptureInv
  <1>5. Cardinality(On(claims', a)) = Cardinality(On(claims, a)) - 1
    BY <1>2, <1>4, FS_RemoveElement
  <1>6. /\ cache[k] \in [acq : Nat, refs : Nat] /\ cache[k].refs # 0
        /\ cache[k].refs = Cardinality(On(claims, a))
    BY <1>1 DEF Entry
  <1>7. \A l \in DOMAIN cache : l # k => cache[l].acq # a
    BY <1>1 DEF CaptureInv, Entry
  <1>8. \A b \in DOMAIN acqs : Active(acqs, b) /\ b # a => acqs[b].key # k
    BY <1>1 DEF CaptureInv
  <1> HIDE DEF a, k
  <1>9. CASE cache[k].refs > 1
    <2>1. cache' = [cache EXCEPT ![k].refs = cache[k].refs - 1] /\ UNCHANGED acqs
      BY <1>1, <1>9 DEF Release, k
    <2>2. /\ DOMAIN cache' = DOMAIN cache
          /\ cache'[k] \in [acq : Nat, refs : Nat]
          /\ cache'[k].acq = a /\ cache'[k].refs = cache[k].refs - 1
          /\ \A l \in DOMAIN cache : l # k => cache'[l] = cache[l]
      BY <1>1, <1>6, <1>9, <2>1
    <2>3. \A l \in DOMAIN cache' : Entry(l, cache'[l], claims', acqs')
      <3>1. Entry(k, cache'[k], claims', acqs')
        <4>1. Active(acqs', a) /\ acqs'[a].key = k
          BY <1>1, <2>1 DEF Active
        <4>2. cache'[k].refs = Cardinality(On(claims', a)) /\ cache'[k].refs # 0
          BY <1>5, <1>6, <1>9, <2>2
        <4> QED
          BY <2>2, <4>1, <4>2 DEF Entry
      <3>2. ASSUME NEW l \in DOMAIN cache, l # k
            PROVE  Entry(l, cache'[l], claims', acqs')
        <4>1. cache'[l] = cache[l] /\ Entry(l, cache[l], claims, acqs)
          BY <2>2, <3>2 DEF CaptureInv
        <4>2. On(claims', cache[l].acq) = On(claims, cache[l].acq)
          BY <1>3, <1>7, <3>2
        <4> QED
          BY <2>1, <4>1, <4>2 DEF Entry
      <3> QED
        BY <2>2, <3>1, <3>2
    <2>4. \A b \in DOMAIN acqs' : Active(acqs', b) =>
              acqs'[b].key \in DOMAIN cache' /\ cache'[acqs'[b].key].acq = b
      BY <1>1, <2>1, <2>2 DEF CaptureInv
    <2>5. \A j \in Counting(claims') : Claimed(claims'[j], acqs')
      BY <2>1 DEF CaptureInv
    <2> QED
      BY <2>1, <2>3, <2>4, <2>5 DEF CaptureInv
  <1>10. CASE ~(cache[k].refs > 1)
    <2>1. /\ cache' = Restrict(cache, DOMAIN cache \ {k})
          /\ acqs' = [acqs EXCEPT ![a].is = IF @ = "live" THEN "stopped" ELSE @]
      BY <1>1, <1>10 DEF Release, k
    <2>2. /\ DOMAIN cache' = DOMAIN cache \ {k}
          /\ \A l \in DOMAIN cache' : cache'[l] = cache[l]
      BY <2>1 DEF Restrict
    <2>3. Cardinality(On(claims', a)) = 0
      BY <1>4, <1>5, <1>6, <1>10
    <2>4. On(claims', a) = {}
      <3>1. IsFiniteSet(On(claims', a))
        BY <1>2, <1>4, FS_RemoveElement
      <3> QED
        BY <2>3, <3>1, FS_EmptySet
    <2>5. /\ acqs' \in Seq(Acquisitions) /\ DOMAIN acqs' = DOMAIN acqs
          /\ acqs'[a].is = "stopped" /\ \A b \in DOMAIN acqs : b # a => acqs'[b] = acqs[b]
      <3> DEFINE x == [acqs[a] EXCEPT !.is = "stopped"]
      <3>1. acqs \in Seq(Acquisitions) /\ DOMAIN acqs = 1 .. Len(acqs)
        BY LenProperties DEF CaptureInv
      <3>2. acqs[a] \in Acquisitions
        BY <1>1, <3>1, ElementOfSeq
      <3>3. x \in Acquisitions /\ x.is = "stopped"
        BY <3>2 DEF Acquisitions
      <3>4. acqs' = [acqs EXCEPT ![a] = x]
        BY <1>1, <2>1
      <3> HIDE DEF x
      <3>5. acqs' \in Seq(Acquisitions)
        BY <1>1, <3>1, <3>3, <3>4, ExceptSeq
      <3> QED
        BY <1>1, <3>1, <3>3, <3>4, <3>5
    <2>6. \A l \in DOMAIN cache' : Entry(l, cache'[l], claims', acqs')
      <3> SUFFICES ASSUME NEW l \in DOMAIN cache' PROVE Entry(l, cache'[l], claims', acqs')
        OBVIOUS
      <3> DEFINE b == cache[l].acq
      <3>1. cache'[l] = cache[l] /\ b # a /\ Entry(l, cache[l], claims, acqs)
        BY <1>7, <2>2 DEF CaptureInv
      <3>2. On(claims', b) = On(claims, b) /\ b \in DOMAIN acqs /\ acqs'[b] = acqs[b]
        BY <1>3, <2>5, <3>1 DEF Entry, Active
      <3> QED
        BY <2>5, <3>1, <3>2 DEF Entry, Active
    <2>7. \A b \in DOMAIN acqs' : Active(acqs', b) =>
              acqs'[b].key \in DOMAIN cache' /\ cache'[acqs'[b].key].acq = b
      BY <1>8, <2>2, <2>5 DEF CaptureInv, Active
    <2>8. \A j \in Counting(claims') : Claimed(claims'[j], acqs')
      BY <2>4, <2>5 DEF CaptureInv, Claimed, Active, On
    <2> QED
      BY <2>5, <2>6, <2>7, <2>8 DEF CaptureInv
  <1> QED
    BY <1>9, <1>10

LEMMA ClaimsSeq ==
  ASSUME CaptureInv
  PROVE  /\ DOMAIN claims = 1 .. Len(claims) /\ Len(claims) \in Nat
         /\ \A i \in DOMAIN claims : claims[i] \in Claims
  BY LenProperties, ElementOfSeq DEF CaptureInv

\* A claim is changed in place.
LEMMA ClaimSet ==
  ASSUME CaptureInv, NEW i \in DOMAIN claims, NEW m \in Claims
  PROVE  /\ [claims EXCEPT ![i] = m] \in Seq(Claims)
         /\ DOMAIN [claims EXCEPT ![i] = m] = DOMAIN claims
         /\ Counting([claims EXCEPT ![i] = m])
              = IF m.at \in {"waiting", "holding"} THEN Counting(claims) \cup {i}
                ELSE Counting(claims) \ {i}
  <1> DEFINE q == [claims EXCEPT ![i] = m]
  <1>1. q \in Seq(Claims)
    BY ClaimsSeq, ExceptSeq DEF CaptureInv
  <1>2. DOMAIN q = DOMAIN claims /\ \A j \in DOMAIN claims : q[j] = IF j = i THEN m ELSE claims[j]
    BY ClaimsSeq
  <1> HIDE DEF q
  <1>3. Counting(q) = IF m.at \in {"waiting", "holding"} THEN Counting(claims) \cup {i}
                      ELSE Counting(claims) \ {i}
    BY <1>2 DEF Counting
  <1> QED
    BY <1>1, <1>2, <1>3 DEF q

LEMMA NewClaimType ==
  ASSUME NEW s \in CaptureSources
  PROVE  NewClaim(s) \in Claims
  BY DEF NewClaim, Claims, CaptureKeys

LEMMA OverType == Over \in Claims
  BY DEF Over, Claims, CaptureKeys

\* A new claim does not count.
LEMMA ClaimAdded ==
  ASSUME NEW q \in Seq(Claims), NEW s \in CaptureSources
  PROVE  /\ Append(q, NewClaim(s)) \in Seq(Claims)
         /\ Counting(Append(q, NewClaim(s))) = Counting(q)
         /\ \A i \in DOMAIN q : Append(q, NewClaim(s))[i] = q[i]
         /\ DOMAIN q \subseteq DOMAIN Append(q, NewClaim(s))
         /\ Len(Append(q, NewClaim(s))) \in DOMAIN Append(q, NewClaim(s))
         /\ Len(Append(q, NewClaim(s))) \in Nat
  <1> DEFINE m == NewClaim(s)
             r == Append(q, m)
  <1>1. m \in Claims /\ m.at = "resolving"
    BY NewClaimType DEF NewClaim
  <1> HIDE DEF m
  <1>2. r \in Seq(Claims) /\ Len(r) = Len(q) + 1 /\ Len(q) \in Nat
    BY <1>1, LenProperties
  <1>3. \A i \in 1 .. Len(q) : r[i] = q[i]
    BY <1>1, <1>2
  <1>4. r[Len(q) + 1] = m
    BY <1>1, <1>2
  <1>5. DOMAIN q = 1 .. Len(q) /\ DOMAIN r = 1 .. Len(q) + 1
    BY <1>2, LenProperties
  <1> HIDE DEF r
  <1>6. Counting(r) = Counting(q)
    BY <1>1, <1>2, <1>3, <1>4, <1>5 DEF Counting
  <1>7. DOMAIN q \subseteq DOMAIN r /\ Len(r) \in DOMAIN r
    BY <1>2, <1>5
  <1> QED
    BY <1>2, <1>3, <1>5, <1>6, <1>7 DEF r, m

\* The cleanup of claim i: it is over if it held a stream, and cancelled otherwise.
LEMMA CancelledClaim ==
  ASSUME CaptureInv, NEW i \in DOMAIN claims
  PROVE  /\ Cancelled(i) \in Seq(Claims) /\ DOMAIN Cancelled(i) = DOMAIN claims
         /\ Counting(Cancelled(i))
              = IF claims[i].at = "holding" THEN Counting(claims) \ {i} ELSE Counting(claims)
         /\ \A j \in DOMAIN claims \ {i} : Cancelled(i)[j] = claims[j]
         /\ claims[i].at = "waiting" =>
              /\ Cancelled(i)[i].at = "waiting"
              /\ Cancelled(i)[i].key = claims[i].key /\ Cancelled(i)[i].acq = claims[i].acq
  <1> DEFINE m == IF claims[i].at \in {"holding", "done"} THEN Over
                  ELSE [claims[i] EXCEPT !.cancelled = TRUE]
  <1>1. claims[i] \in Claims
    BY ClaimsSeq
  <1>2. /\ m \in Claims
        /\ m.at = IF claims[i].at \in {"holding", "done"} THEN "done" ELSE claims[i].at
        /\ claims[i].at = "waiting" => m.key = claims[i].key /\ m.acq = claims[i].acq
    BY <1>1, OverType DEF Claims, Over
  <1>3. Cancelled(i) = [claims EXCEPT ![i] = m]
    BY DEF Cancelled
  <1> HIDE DEF m
  <1>4. /\ Cancelled(i) \in Seq(Claims) /\ DOMAIN Cancelled(i) = DOMAIN claims
        /\ Counting(Cancelled(i))
             = IF m.at \in {"waiting", "holding"} THEN Counting(claims) \cup {i}
               ELSE Counting(claims) \ {i}
    BY <1>2, <1>3, ClaimSet
  <1>5. Cancelled(i)[i] = m /\ \A j \in DOMAIN claims \ {i} : Cancelled(i)[j] = claims[j]
    BY <1>3
  <1>6. Counting(Cancelled(i))
          = IF claims[i].at = "holding" THEN Counting(claims) \ {i} ELSE Counting(claims)
    BY <1>2, <1>4 DEF Counting
  <1> QED
    BY <1>2, <1>4, <1>5, <1>6

\* The old effect's cleanup, and the new effect's claim if there is one.
LEMMA CancelKeeps ==
  ASSUME CaptureInv, NEW i \in DOMAIN claims, Cleanup(i), Placed(current', claims'),
         \/ claims' = Cancelled(i)
         \/ \E s \in CaptureSources : claims' = Append(Cancelled(i), NewClaim(s))
  PROVE  CaptureInv'
  <1> DEFINE q == Cancelled(i)
  <1>1. /\ q \in Seq(Claims) /\ DOMAIN q = DOMAIN claims
        /\ Counting(q) = IF claims[i].at = "holding" THEN Counting(claims) \ {i}
                         ELSE Counting(claims)
        /\ \A j \in DOMAIN claims \ {i} : q[j] = claims[j]
        /\ claims[i].at = "waiting" =>
              q[i].at = "waiting" /\ q[i].key = claims[i].key /\ q[i].acq = claims[i].acq
    BY CancelledClaim
  <1>2. claims' = q \/ \E s \in CaptureSources : claims' = Append(q, NewClaim(s))
    OBVIOUS
  <1> HIDE DEF q
  <1>3. /\ claims' \in Seq(Claims) /\ Counting(claims') = Counting(q)
        /\ \A j \in DOMAIN claims : claims'[j] = q[j]
    <2>1. ASSUME NEW s \in CaptureSources, claims' = Append(q, NewClaim(s))
          PROVE  /\ claims' \in Seq(Claims) /\ Counting(claims') = Counting(q)
                 /\ \A j \in DOMAIN claims : claims'[j] = q[j]
      BY <1>1, <2>1, ClaimAdded
    <2> QED
      BY <1>1, <1>2, <2>1
  <1>4. CASE claims[i].at = "holding"
    <2>1. i \in Counting(claims)
      BY <1>4 DEF Counting
    <2>2. acqs[claims[i].acq].is = "live"
      BY <1>4, <2>1 DEF CaptureInv, Claimed
    <2>3. \A j \in Counting(claims') : claims'[j] = claims[j]
      BY <1>1, <1>3, <1>4 DEF Counting
    <2> QED
      BY <1>1, <1>3, <1>4, <2>1, <2>2, <2>3, DropKeeps DEF Cleanup
  <1>5. CASE claims[i].at # "holding"
    <2>1. Counting(claims') = Counting(claims)
      BY <1>1, <1>3, <1>5
    <2>2. ASSUME NEW j \in Counting(claims)
          PROVE  /\ claims'[j].acq = claims[j].acq /\ claims'[j].key = claims[j].key
                 /\ claims'[j].at = "holding" =>
                      ~claims'[j].cancelled /\ acqs[claims[j].acq].is = "live"
      <3>1. CASE j = i
        BY <1>1, <1>3, <1>5, <3>1 DEF Counting
      <3>2. CASE j # i
        BY <1>1, <1>3, <3>2 DEF Counting, CaptureInv, Claimed
      <3> QED
        BY <3>1, <3>2
    <2> QED
      BY <1>3, <1>5, <2>1, <2>2, QuietKeeps DEF Cleanup
  <1> QED
    BY <1>4, <1>5

LEMMA MountKeeps ==
  ASSUME CaptureInv, NEW n \in CaptureNodes, NEW s \in CaptureSources, MountCapture(n, s)
  PROVE  CaptureInv'
  <1> DEFINE q == Append(claims, NewClaim(s))
  <1>1. claims' = q /\ current' = [current EXCEPT ![n] = Len(q)] /\ UNCHANGED <<cache, acqs>>
    BY DEF MountCapture
  <1>2. /\ q \in Seq(Claims) /\ Counting(q) = Counting(claims)
        /\ \A i \in DOMAIN claims : q[i] = claims[i]
        /\ DOMAIN claims \subseteq DOMAIN q /\ Len(q) \in DOMAIN q /\ Len(q) \in Nat
    BY ClaimAdded DEF CaptureInv
  <1> HIDE DEF q
  <1>3. Placed(current', claims')
    BY <1>1, <1>2 DEF CaptureInv, Placed
  <1>4. \A i \in Counting(claims) :
            /\ claims'[i].acq = claims[i].acq /\ claims'[i].key = claims[i].key
            /\ claims'[i].at = "holding" =>
                 ~claims'[i].cancelled /\ acqs[claims[i].acq].is = "live"
    BY <1>1, <1>2 DEF Counting, CaptureInv, Claimed
  <1> QED
    BY <1>1, <1>2, <1>3, <1>4, QuietKeeps

LEMMA ChangeSourceKeeps ==
  ASSUME CaptureInv, NEW n \in CaptureNodes, NEW s \in CaptureSources, ChangeSource(n, s)
  PROVE  CaptureInv'
  <1> DEFINE i == current[n]
             q == Cancelled(i)
             r == Append(q, NewClaim(s))
  <1>1. /\ i \in DOMAIN claims /\ Cleanup(i)
        /\ claims' = r /\ current' = [current EXCEPT ![n] = Len(r)]
    BY DEF ChangeSource, CaptureInv, Placed
  <1>2. q \in Seq(Claims) /\ DOMAIN q = DOMAIN claims
    BY <1>1, CancelledClaim
  <1>3. DOMAIN q \subseteq DOMAIN r /\ Len(r) \in DOMAIN r /\ Len(r) \in Nat
    BY <1>2, ClaimAdded
  <1> HIDE DEF r
  <1>4. Placed(current', claims')
    BY <1>1, <1>2, <1>3 DEF CaptureInv, Placed
  <1> QED
    BY <1>1, <1>4, CancelKeeps DEF r

LEMMA UnmountKeeps ==
  ASSUME CaptureInv, NEW n \in CaptureNodes, UnmountCapture(n)
  PROVE  CaptureInv'
  <1> DEFINE i == current[n]
  <1>1. /\ i \in DOMAIN claims /\ Cleanup(i)
        /\ claims' = Cancelled(i) /\ current' = [current EXCEPT ![n] = 0]
    BY DEF UnmountCapture, CaptureInv, Placed
  <1>2. DOMAIN Cancelled(i) = DOMAIN claims
    BY <1>1, CancelledClaim
  <1>3. Placed(current', claims')
    BY <1>1, <1>2 DEF CaptureInv, Placed
  <1> QED
    BY <1>1, <1>3, CancelKeeps

\* Claim i comes to wait on acquisition a of key k.
Waiting(i, k, a) == [claims EXCEPT ![i].at = "waiting", ![i].key = k, ![i].acq = a]

LEMMA WaitingClaim ==
  ASSUME CaptureInv, NEW i \in DOMAIN claims, claims[i].at = "resolving",
         NEW k \in CaptureKeys, NEW a \in Nat, claims' = Waiting(i, k, a)
  PROVE  /\ claims' \in Seq(Claims) /\ DOMAIN claims' = DOMAIN claims
         /\ Counting(claims') = Counting(claims) \cup {i} /\ i \notin Counting(claims)
         /\ \A j \in Counting(claims) : claims'[j] = claims[j]
         /\ claims'[i].at = "waiting" /\ claims'[i].key = k /\ claims'[i].acq = a
         /\ On(claims', a) = On(claims, a) \cup {i} /\ i \notin On(claims, a)
         /\ \A b : b # a => On(claims', b) = On(claims, b)
  <1> DEFINE m == [claims[i] EXCEPT !.at = "waiting", !.key = k, !.acq = a]
  <1>1. claims[i] \in Claims /\ DOMAIN claims = 1 .. Len(claims)
    BY ClaimsSeq
  <1>2. m \in Claims /\ m.at = "waiting" /\ m.key = k /\ m.acq = a
    BY <1>1 DEF Claims
  <1>3. claims' = [claims EXCEPT ![i] = m]
    BY <1>1 DEF Waiting
  <1> HIDE DEF m
  <1>4. /\ claims' \in Seq(Claims) /\ DOMAIN claims' = DOMAIN claims
        /\ Counting(claims') = Counting(claims) \cup {i}
    <2>1. /\ [claims EXCEPT ![i] = m] \in Seq(Claims)
          /\ DOMAIN [claims EXCEPT ![i] = m] = DOMAIN claims
          /\ Counting([claims EXCEPT ![i] = m])
               = IF m.at \in {"waiting", "holding"} THEN Counting(claims) \cup {i}
                 ELSE Counting(claims) \ {i}
      BY <1>2, ClaimSet
    <2> QED
      BY <1>2, <1>3, <2>1
  <1>5. claims'[i] = m /\ \A j \in DOMAIN claims : j # i => claims'[j] = claims[j]
    BY <1>1, <1>3
  <1>6. i \notin Counting(claims) /\ \A j \in Counting(claims) : claims'[j] = claims[j]
    BY <1>5 DEF Counting
  <1>7. /\ On(claims', a) = On(claims, a) \cup {i} /\ i \notin On(claims, a)
        /\ \A b : b # a => On(claims', b) = On(claims, b)
    <2>1. i \notin On(claims, a)
      BY <1>6 DEF On
    <2>2. On(claims', a) = On(claims, a) \cup {i}
      BY <1>2, <1>4, <1>5, <1>6 DEF On
    <2>3. ASSUME NEW b, b # a PROVE On(claims', b) = On(claims, b)
      BY <1>2, <1>4, <1>5, <1>6, <2>3 DEF On
    <2> QED
      BY <2>1, <2>2, <2>3
  <1> QED
    BY <1>2, <1>4, <1>5, <1>6, <1>7

\* Claim i's key has an entry: it counts one claim more.
LEMMA JoinKeeps ==
  ASSUME CaptureInv, NEW i \in DOMAIN claims, claims[i].at = "resolving",
         NEW k \in CaptureKeys, k \in DOMAIN cache,
         claims' = Waiting(i, k, cache[k].acq),
         cache' = [cache EXCEPT ![k].refs = @ + 1], UNCHANGED <<acqs, current>>
  PROVE  CaptureInv'
  <1> DEFINE a == cache[k].acq
  <1>1. /\ Entry(k, cache[k], claims, acqs) /\ cache[k] \in [acq : Nat, refs : Nat]
        /\ a \in Nat /\ a \in DOMAIN acqs /\ acqs[a].is \in {"pending", "live"} /\ acqs[a].key = k
    BY DEF CaptureInv, Entry, Active
  <1>2. /\ claims' \in Seq(Claims) /\ DOMAIN claims' = DOMAIN claims
        /\ Counting(claims') = Counting(claims) \cup {i} /\ i \notin Counting(claims)
        /\ \A j \in Counting(claims) : claims'[j] = claims[j]
        /\ claims'[i].at = "waiting" /\ claims'[i].key = k /\ claims'[i].acq = a
        /\ On(claims', a) = On(claims, a) \cup {i} /\ i \notin On(claims, a)
        /\ \A b : b # a => On(claims', b) = On(claims, b)
    <2>1. claims' = Waiting(i, k, a)
      OBVIOUS
    <2>2. a \in Nat
      BY <1>1
    <2> HIDE DEF a
    <2> QED
      BY <2>1, <2>2, WaitingClaim
  <1>3. IsFiniteSet(On(claims, a)) /\ Cardinality(On(claims, a)) \in Nat
    BY OnFinite DEF CaptureInv
  <1>4. Cardinality(On(claims', a)) = Cardinality(On(claims, a)) + 1
    BY <1>2, <1>3, FS_AddElement
  <1>5. /\ DOMAIN cache' = DOMAIN cache
        /\ cache'[k] \in [acq : Nat, refs : Nat]
        /\ cache'[k].acq = a /\ cache'[k].refs = cache[k].refs + 1
        /\ \A l \in DOMAIN cache : l # k => cache'[l] = cache[l]
    BY <1>1
  <1>6. \A l \in DOMAIN cache : l # k => cache[l].acq # a
    BY <1>1 DEF CaptureInv, Entry
  <1> HIDE DEF a
  <1>7. ASSUME NEW l \in DOMAIN cache' PROVE Entry(l, cache'[l], claims', acqs')
    <2>1. CASE l = k
      BY <1>1, <1>3, <1>4, <1>5, <2>1 DEF Entry, Active, a
    <2>2. CASE l # k
      <3> DEFINE b == cache[l].acq
      <3>1. l \in DOMAIN cache /\ cache'[l] = cache[l] /\ Entry(l, cache[l], claims, acqs)
        BY <1>5, <1>7, <2>2 DEF CaptureInv
      <3>2. On(claims', b) = On(claims, b)
        BY <1>2, <1>6, <2>2, <3>1
      <3> QED
        BY <3>1, <3>2 DEF Entry
    <2> QED
      BY <2>1, <2>2
  <1>8. \A b \in DOMAIN acqs' : Active(acqs', b) =>
            acqs'[b].key \in DOMAIN cache' /\ cache'[acqs'[b].key].acq = b
    BY <1>5 DEF CaptureInv, a
  <1>9. \A j \in Counting(claims') : Claimed(claims'[j], acqs')
    <2> SUFFICES ASSUME NEW j \in Counting(claims') PROVE Claimed(claims'[j], acqs)
      OBVIOUS
    <2>1. CASE j = i
      BY <1>1, <1>2, <2>1 DEF Claimed, Active
    <2>2. CASE j # i
      BY <1>2, <2>2 DEF CaptureInv
    <2> QED
      BY <2>1, <2>2
  <1>10. Placed(current', claims')
    BY <1>2 DEF CaptureInv, Placed
  <1> QED
    BY <1>2, <1>7, <1>8, <1>9, <1>10 DEF CaptureInv

\* It has none: the acquisition starts.
LEMMA AcquireKeeps ==
  ASSUME CaptureInv, NEW i \in DOMAIN claims, claims[i].at = "resolving",
         NEW k \in CaptureKeys, k \notin DOMAIN cache,
         acqs' = Append(acqs, [key |-> k, is |-> "pending"]),
         claims' = Waiting(i, k, Len(acqs')),
         cache' = Entered(k, Len(acqs')), UNCHANGED current
  PROVE  CaptureInv'
  <1> DEFINE m == [key |-> k, is |-> "pending"]
             a == Len(acqs')
  <1>1. acqs \in Seq(Acquisitions) /\ Len(acqs) \in Nat /\ DOMAIN acqs = 1 .. Len(acqs)
    BY LenProperties DEF CaptureInv
  <1>2. m \in Acquisitions /\ m.key = k /\ m.is = "pending" /\ acqs' = Append(acqs, m)
    BY DEF Acquisitions
  <1> HIDE DEF m
  <1>3. /\ acqs' \in Seq(Acquisitions) /\ a = Len(acqs) + 1
        /\ acqs'[a] = m /\ \A b \in 1 .. Len(acqs) : acqs'[b] = acqs[b]
    BY <1>1, <1>2
  <1>4. DOMAIN acqs' = 1 .. a /\ a \in Nat
    BY <1>1, <1>3, LenProperties
  <1> HIDE DEF a
  <1>5. /\ a \in DOMAIN acqs' /\ a \notin DOMAIN acqs /\ DOMAIN acqs' = DOMAIN acqs \cup {a}
        /\ acqs'[a].key = k /\ acqs'[a].is = "pending"
        /\ \A b \in DOMAIN acqs : acqs'[b] = acqs[b]
    BY <1>1, <1>2, <1>3, <1>4
  <1>6. /\ claims' \in Seq(Claims) /\ DOMAIN claims' = DOMAIN claims
        /\ Counting(claims') = Counting(claims) \cup {i} /\ i \notin Counting(claims)
        /\ \A j \in Counting(claims) : claims'[j] = claims[j]
        /\ claims'[i].at = "waiting" /\ claims'[i].key = k /\ claims'[i].acq = a
        /\ On(claims', a) = On(claims, a) \cup {i} /\ i \notin On(claims, a)
        /\ \A b : b # a => On(claims', b) = On(claims, b)
    <2>1. claims' = Waiting(i, k, a)
      BY DEF a
    <2> QED
      BY <1>4, <2>1, WaitingClaim
  <1>7. On(claims', a) = {i}
    BY <1>5, <1>6 DEF CaptureInv, Claimed, Active, On
  <1>8. Cardinality(On(claims', a)) = 1
    BY <1>7, FS_Singleton
  <1>9. /\ DOMAIN cache' = DOMAIN cache \cup {k} /\ cache'[k] = [acq |-> a, refs |-> 1]
        /\ \A l \in DOMAIN cache : cache'[l] = cache[l]
    BY DEF Entered, a
  <1>10. ASSUME NEW l \in DOMAIN cache' PROVE Entry(l, cache'[l], claims', acqs')
    <2>1. CASE l = k
      BY <1>4, <1>5, <1>8, <1>9, <2>1 DEF Entry, Active
    <2>2. CASE l # k
      <3> DEFINE b == cache[l].acq
      <3>1. l \in DOMAIN cache /\ cache'[l] = cache[l] /\ Entry(l, cache[l], claims, acqs)
        BY <1>9, <1>10, <2>2 DEF CaptureInv
      <3>2. b \in DOMAIN acqs /\ b # a
        BY <1>5, <3>1 DEF Entry, Active
      <3>3. On(claims', b) = On(claims, b)
        BY <1>6, <3>2
      <3> QED
        BY <1>5, <3>1, <3>2, <3>3 DEF Entry, Active
    <2> QED
      BY <2>1, <2>2
  <1>11. \A b \in DOMAIN acqs' : Active(acqs', b) =>
            acqs'[b].key \in DOMAIN cache' /\ cache'[acqs'[b].key].acq = b
    BY <1>5, <1>9 DEF CaptureInv, Active
  <1>12. \A j \in Counting(claims') : Claimed(claims'[j], acqs')
    <2> SUFFICES ASSUME NEW j \in Counting(claims') PROVE Claimed(claims'[j], acqs')
      OBVIOUS
    <2>1. CASE j = i
      BY <1>5, <1>6, <2>1 DEF Claimed, Active
    <2>2. CASE j # i
      <3> DEFINE b == claims[j].acq
      <3>1. claims'[j] = claims[j] /\ Claimed(claims[j], acqs)
        BY <1>6, <2>2 DEF CaptureInv
      <3>2. b \in DOMAIN acqs' /\ acqs'[b] = acqs[b]
        BY <1>5, <3>1 DEF Claimed, Active
      <3> QED
        BY <3>1, <3>2 DEF Claimed, Active
    <2> QED
      BY <2>1, <2>2
  <1>13. Placed(current', claims')
    BY <1>6 DEF CaptureInv, Placed
  <1> QED
    BY <1>3, <1>6, <1>10, <1>11, <1>12, <1>13 DEF CaptureInv

\* Claim i ends without a stream.
LEMMA DoneClaim ==
  ASSUME CaptureInv, NEW i \in DOMAIN claims
  PROVE  /\ Done(i) \in Seq(Claims) /\ DOMAIN Done(i) = DOMAIN claims
         /\ Counting(Done(i)) = Counting(claims) \ {i}
         /\ \A j \in DOMAIN claims : j # i => Done(i)[j] = claims[j]
         /\ Done(i)[i] \in Claims /\ Done(i)[i].at = "done"
  <1> DEFINE m == IF claims[i].cancelled THEN Over
                  ELSE [claims[i] EXCEPT !.at = "done", !.key = Unresolved, !.acq = 0]
  <1>1. claims[i] \in Claims
    BY ClaimsSeq
  <1>2. m \in Claims /\ m.at = "done"
    <2>1. CASE claims[i].cancelled
      BY <2>1, OverType DEF Over
    <2>2. CASE ~claims[i].cancelled
      <3>1. Unresolved \in CaptureKeys
        BY DEF CaptureKeys
      <3> QED
        BY <1>1, <2>2, <3>1 DEF Claims
    <2> QED
      BY <2>1, <2>2
  <1>3. Done(i) = [claims EXCEPT ![i] = m]
    BY DEF Done
  <1> HIDE DEF m
  <1>4. /\ [claims EXCEPT ![i] = m] \in Seq(Claims)
        /\ DOMAIN [claims EXCEPT ![i] = m] = DOMAIN claims
        /\ Counting([claims EXCEPT ![i] = m])
             = IF m.at \in {"waiting", "holding"} THEN Counting(claims) \cup {i}
               ELSE Counting(claims) \ {i}
    BY <1>2, ClaimSet
  <1>5. Done(i)[i] = m /\ \A j \in DOMAIN claims : j # i => Done(i)[j] = claims[j]
    BY <1>3
  <1> QED
    BY <1>2, <1>3, <1>4, <1>5

LEMMA ResolverAnswersKeeps ==
  ASSUME CaptureInv, NEW i \in DOMAIN claims, NEW d \in Devices \cup {Unresolved},
         ResolverAnswers(i, d)
  PROVE  CaptureInv'
  <1> DEFINE k == KeyOf(claims[i].source, d)
  <1>1. claims[i].at = "resolving" /\ UNCHANGED current
    BY DEF ResolverAnswers
  <1>2. k \in CaptureKeys
    <2>1. claims[i].source \in CaptureSources \cup {Unresolved}
      BY ClaimsSeq DEF Claims
    <2> QED
      BY <2>1 DEF CaptureKeys
  <1>3. \/ k = Unresolved /\ claims' = Done(i) /\ UNCHANGED <<cache, acqs>>
        \/ /\ k \in DOMAIN cache /\ claims' = Waiting(i, k, cache[k].acq)
           /\ cache' = [cache EXCEPT ![k].refs = @ + 1] /\ UNCHANGED acqs
        \/ /\ k \notin DOMAIN cache /\ acqs' = Append(acqs, [key |-> k, is |-> "pending"])
           /\ claims' = Waiting(i, k, Len(acqs')) /\ cache' = Entered(k, Len(acqs'))
    BY DEF ResolverAnswers, Waiting
  <1> HIDE DEF k
  <1>4. CASE claims' = Done(i) /\ UNCHANGED <<cache, acqs>>
    <2>1. /\ claims' \in Seq(Claims) /\ DOMAIN claims' = DOMAIN claims
          /\ Counting(claims') = Counting(claims) \ {i}
          /\ \A j \in DOMAIN claims : j # i => claims'[j] = claims[j]
      BY <1>4, DoneClaim
    <2>2. i \notin Counting(claims)
      BY <1>1 DEF Counting
    <2>3. \A j \in Counting(claims) : claims'[j] = claims[j]
      BY <2>1, <2>2 DEF Counting
    <2>4. Placed(current', claims')
      BY <1>1, <2>1 DEF CaptureInv, Placed
    <2>5. Counting(claims') = Counting(claims)
      BY <2>1, <2>2
    <2>6. \A j \in Counting(claims) :
            /\ claims'[j].acq = claims[j].acq /\ claims'[j].key = claims[j].key
            /\ claims'[j].at = "holding" =>
                 ~claims'[j].cancelled /\ acqs[claims[j].acq].is = "live"
      BY <2>3 DEF CaptureInv, Claimed
    <2> QED
      BY <1>4, <2>1, <2>4, <2>5, <2>6, QuietKeeps
  <1>5. CASE /\ k \in DOMAIN cache /\ claims' = Waiting(i, k, cache[k].acq)
             /\ cache' = [cache EXCEPT ![k].refs = @ + 1] /\ UNCHANGED acqs
    BY <1>1, <1>2, <1>5, JoinKeeps
  <1>6. CASE /\ k \notin DOMAIN cache /\ acqs' = Append(acqs, [key |-> k, is |-> "pending"])
             /\ claims' = Waiting(i, k, Len(acqs')) /\ cache' = Entered(k, Len(acqs'))
    BY <1>1, <1>2, <1>6, AcquireKeeps
  <1> QED
    BY <1>3, <1>4, <1>5, <1>6

LEMMA ContinueKeeps ==
  ASSUME CaptureInv, NEW i \in DOMAIN claims, Continue(i)
  PROVE  CaptureInv'
  <1> DEFINE a == claims[i].acq
  <1>1. /\ claims[i].at = "waiting" /\ acqs[a].is \in {"live", "stopped"} /\ UNCHANGED current
    BY DEF Continue
  <1>2. i \in Counting(claims) /\ acqs[a].is = "live"
    BY <1>1 DEF Counting, CaptureInv, Claimed, Active
  <1>3. CASE claims[i].cancelled
    <2>1. Release(claims[i].key) /\ claims' = Done(i)
      BY <1>3 DEF Continue
    <2>2. /\ claims' \in Seq(Claims) /\ DOMAIN claims' = DOMAIN claims
          /\ Counting(claims') = Counting(claims) \ {i}
          /\ \A j \in DOMAIN claims : j # i => claims'[j] = claims[j]
      BY <2>1, DoneClaim
    <2>3. Placed(current', claims')
      BY <1>1, <2>2 DEF CaptureInv, Placed
    <2>4. \A j \in Counting(claims') : claims'[j] = claims[j]
      BY <2>2 DEF Counting
    <2> QED
      BY <1>2, <2>1, <2>2, <2>3, <2>4, DropKeeps
  <1>4. CASE ~claims[i].cancelled
    <2> DEFINE m == [claims[i] EXCEPT !.at = "holding"]
    <2>1. claims[i] \in Claims
      BY ClaimsSeq
    <2>2. /\ m \in Claims /\ m.at = "holding" /\ m.key = claims[i].key /\ m.acq = a
          /\ ~m.cancelled
      BY <1>4, <2>1 DEF Claims
    <2>3. claims' = [claims EXCEPT ![i] = m] /\ UNCHANGED <<cache, acqs>>
      BY <1>4 DEF Continue
    <2> HIDE DEF m
    <2>4. /\ [claims EXCEPT ![i] = m] \in Seq(Claims)
          /\ DOMAIN [claims EXCEPT ![i] = m] = DOMAIN claims
          /\ Counting([claims EXCEPT ![i] = m])
               = IF m.at \in {"waiting", "holding"} THEN Counting(claims) \cup {i}
                 ELSE Counting(claims) \ {i}
      BY <2>2, ClaimSet
    <2>5. /\ claims' \in Seq(Claims) /\ DOMAIN claims' = DOMAIN claims
          /\ Counting(claims') = Counting(claims)
      BY <1>2, <2>2, <2>3, <2>4
    <2>6. claims'[i] = m /\ \A j \in DOMAIN claims : j # i => claims'[j] = claims[j]
      BY <2>3
    <2>7. \A j \in Counting(claims) :
            /\ claims'[j].acq = claims[j].acq /\ claims'[j].key = claims[j].key
            /\ claims'[j].at = "holding" =>
                 ~claims'[j].cancelled /\ acqs[claims[j].acq].is = "live"
      BY <1>2, <2>2, <2>6 DEF Counting, CaptureInv, Claimed
    <2>8. Placed(current', claims')
      BY <1>1, <2>5 DEF CaptureInv, Placed
    <2> QED
      BY <2>3, <2>5, <2>7, <2>8, QuietKeeps
  <1> QED
    BY <1>3, <1>4

\* An acquisition is changed in place.
LEMMA AcquisitionSet ==
  ASSUME CaptureInv, NEW a \in DOMAIN acqs, NEW s \in {"pending", "live", "failed", "stopped"},
         acqs' = [acqs EXCEPT ![a].is = s]
  PROVE  /\ acqs' \in Seq(Acquisitions) /\ DOMAIN acqs' = DOMAIN acqs
         /\ acqs'[a].is = s /\ acqs'[a].key = acqs[a].key
         /\ \A b \in DOMAIN acqs : b # a => acqs'[b] = acqs[b]
  <1> DEFINE x == [acqs[a] EXCEPT !.is = s]
  <1>1. acqs \in Seq(Acquisitions) /\ DOMAIN acqs = 1 .. Len(acqs)
    BY LenProperties DEF CaptureInv
  <1>2. acqs[a] \in Acquisitions
    BY <1>1, ElementOfSeq
  <1>3. x \in Acquisitions /\ x.is = s /\ x.key = acqs[a].key
    BY <1>2 DEF Acquisitions
  <1>4. acqs' = [acqs EXCEPT ![a] = x]
    OBVIOUS
  <1> HIDE DEF x
  <1>5. acqs' \in Seq(Acquisitions)
    BY <1>1, <1>3, <1>4, ExceptSeq
  <1> QED
    BY <1>1, <1>3, <1>4, <1>5

LEMMA DeviceOpensKeeps ==
  ASSUME CaptureInv, NEW a \in DOMAIN acqs, DeviceOpens(a)
  PROVE  CaptureInv'
  <1>1. /\ acqs[a].is = "pending" /\ acqs' = [acqs EXCEPT ![a].is = "live"]
        /\ UNCHANGED <<claims, current, cache>>
    BY DEF DeviceOpens
  <1>2. /\ acqs' \in Seq(Acquisitions) /\ DOMAIN acqs' = DOMAIN acqs
        /\ acqs'[a].is = "live" /\ acqs'[a].key = acqs[a].key
        /\ \A b \in DOMAIN acqs : b # a => acqs'[b] = acqs[b]
    BY <1>1, AcquisitionSet
  <1>3. \A b : /\ Active(acqs', b) <=> Active(acqs, b)
               /\ Active(acqs, b) => acqs'[b].key = acqs[b].key
               /\ Active(acqs, b) /\ acqs[b].is = "live" => acqs'[b].is = "live"
    BY <1>1, <1>2 DEF Active
  <1>4. \A k \in DOMAIN cache' : Entry(k, cache'[k], claims', acqs')
    BY <1>1, <1>3 DEF CaptureInv, Entry
  <1>5. \A b \in DOMAIN acqs' : Active(acqs', b) =>
            acqs'[b].key \in DOMAIN cache' /\ cache'[acqs'[b].key].acq = b
    BY <1>1, <1>2, <1>3 DEF CaptureInv
  <1>6. \A i \in Counting(claims') : Claimed(claims'[i], acqs')
    <2> SUFFICES ASSUME NEW i \in Counting(claims) PROVE Claimed(claims[i], acqs')
      BY <1>1
    <2>1. Claimed(claims[i], acqs)
      BY DEF CaptureInv
    <2> QED
      BY <1>3, <2>1 DEF Claimed, Active
  <1> QED
    BY <1>1, <1>2, <1>4, <1>5, <1>6 DEF CaptureInv

LEMMA DeviceFailsKeeps ==
  ASSUME CaptureInv, NEW a \in DOMAIN acqs, DeviceFails(a)
  PROVE  CaptureInv'
  <1> DEFINE k == acqs[a].key
  <1>1. /\ acqs[a].is = "pending" /\ acqs' = [acqs EXCEPT ![a].is = "failed"]
        /\ cache' = Restrict(cache, DOMAIN cache \ {k}) /\ UNCHANGED current
        /\ claims' = [i \in DOMAIN claims |->
                        IF claims[i].at = "waiting" /\ claims[i].acq = a
                        THEN Done(i)[i] ELSE claims[i]]
    BY DEF DeviceFails
  <1>2. /\ acqs' \in Seq(Acquisitions) /\ DOMAIN acqs' = DOMAIN acqs
        /\ acqs'[a].is = "failed" /\ acqs'[a].key = acqs[a].key
        /\ \A b \in DOMAIN acqs : b # a => acqs'[b] = acqs[b]
    BY <1>1, AcquisitionSet
  <1>3. DOMAIN cache' = DOMAIN cache \ {k} /\ \A l \in DOMAIN cache' : cache'[l] = cache[l]
    BY <1>1 DEF Restrict
  <1>4. k \in DOMAIN cache /\ cache[k].acq = a
    BY <1>1 DEF CaptureInv, Active
  <1>5. \A l \in DOMAIN cache : l # k => cache[l].acq # a
    BY DEF CaptureInv, Entry
  <1> HIDE DEF k
  <1>6. \A i \in Counting(claims) : claims[i].acq = a => claims[i].at = "waiting"
    BY <1>1 DEF CaptureInv, Claimed, Counting
  <1>7. /\ DOMAIN claims' = DOMAIN claims
        /\ \A i \in DOMAIN claims : /\ claims'[i] \in Claims
                                    /\ claims'[i] = claims[i] \/ claims'[i].at = "done"
                                    /\ claims[i].acq # a => claims'[i] = claims[i]
                                    /\ claims[i].at = "waiting" /\ claims[i].acq = a =>
                                         claims'[i].at = "done"
    BY <1>1, DoneClaim, ClaimsSeq
  <1>8. claims' \in Seq(Claims)
    <2>1. DOMAIN claims' = 1 .. Len(claims) /\ Len(claims) \in Nat
      BY <1>7, ClaimsSeq
    <2>2. claims' = [i \in 1 .. Len(claims) |-> claims'[i]]
      BY <1>1, <2>1
    <2> QED
      BY <1>7, <2>1, <2>2
  <1>9. /\ On(claims', a) = {} /\ \A b : b # a => On(claims', b) = On(claims, b)
    <2>1. On(claims', a) = {}
      BY <1>6, <1>7 DEF On, Counting
    <2>2. ASSUME NEW b, b # a PROVE On(claims', b) = On(claims, b)
      BY <1>7, <2>2 DEF On, Counting
    <2> QED
      BY <2>1, <2>2
  <1>10. ASSUME NEW l \in DOMAIN cache' PROVE Entry(l, cache'[l], claims', acqs')
    <2> DEFINE b == cache[l].acq
    <2>1. cache'[l] = cache[l] /\ b # a /\ Entry(l, cache[l], claims, acqs)
      BY <1>3, <1>5 DEF CaptureInv
    <2>2. On(claims', b) = On(claims, b) /\ b \in DOMAIN acqs /\ acqs'[b] = acqs[b]
      BY <1>2, <1>9, <2>1 DEF Entry, Active
    <2> QED
      BY <1>2, <2>1, <2>2 DEF Entry, Active
  <1>11. \A b \in DOMAIN acqs' : Active(acqs', b) =>
            acqs'[b].key \in DOMAIN cache' /\ cache'[acqs'[b].key].acq = b
    BY <1>2, <1>3, <1>4 DEF CaptureInv, Active
  <1>12. ASSUME NEW i \in Counting(claims') PROVE Claimed(claims'[i], acqs')
    <2> DEFINE b == claims[i].acq
    <2>1. claims'[i] = claims[i] /\ i \in Counting(claims) /\ b # a
      BY <1>7, <1>9 DEF Counting, On
    <2>2. Claimed(claims[i], acqs)
      BY <2>1 DEF CaptureInv
    <2>3. b \in DOMAIN acqs /\ acqs'[b] = acqs[b]
      BY <1>2, <2>1, <2>2 DEF Claimed, Active
    <2> QED
      BY <1>2, <2>1, <2>2, <2>3 DEF Claimed, Active
  <1>13. Placed(current', claims')
    BY <1>1, <1>7 DEF CaptureInv, Placed
  <1> QED
    BY <1>2, <1>8, <1>10, <1>11, <1>12, <1>13 DEF CaptureInv

LEMMA CaptureInvStep == CaptureInv /\ [CaptureNext]_captureVars => CaptureInv'
  <1> SUFFICES ASSUME CaptureInv, [CaptureNext]_captureVars PROVE CaptureInv'
    OBVIOUS
  <1>1. CASE UNCHANGED captureVars
    BY <1>1 DEF captureVars, CaptureInv
  <1> QED
    BY <1>1, MountKeeps, ChangeSourceKeeps, UnmountKeeps, ResolverAnswersKeeps,
       ContinueKeeps, DeviceOpensKeeps, DeviceFailsKeeps DEF CaptureNext

\* What a node paints from: its claim was not cleaned up, no other node has it, and
\* when it holds a stream that is the node's; its <video> plays nothing else, and only
\* for a visual kind; every claim that was not cleaned up is that of a node.
NodesInv ==
    /\ nodeStream \in [CaptureNodes -> Nat] /\ nodeVideo \in [CaptureNodes -> Nat]
    /\ \A n \in CaptureNodes : current[n] # 0 =>
          /\ ~claims[current[n]].cancelled
          /\ claims[current[n]].at = "holding" => nodeStream[n] = claims[current[n]].acq
    /\ \A n \in CaptureNodes : nodeVideo[n] # 0 =>
          current[n] # 0 /\ nodeVideo[n] = nodeStream[n] /\ Visual(claims[current[n]].source)
    /\ \A n, m \in CaptureNodes : current[n] # 0 /\ current[n] = current[m] => n = m
    /\ \A i \in DOMAIN claims : ~claims[i].cancelled => \E n \in CaptureNodes : current[n] = i

LEMMA NodesInvInit == CaptureInit => NodesInv
  BY DEF CaptureInit, NodesInv

LEMMA CurrentClaim ==
  ASSUME CaptureInv, NEW n \in CaptureNodes, current[n] # 0
  PROVE  current[n] \in DOMAIN claims /\ claims[current[n]] \in Claims
  BY ClaimsSeq DEF CaptureInv, Placed

\* Effects go on, and no node's state is set: no claim comes to hold a stream.
LEMMA EffectsGoOn ==
  ASSUME CaptureInv, NodesInv, DOMAIN claims' = DOMAIN claims,
         \A i \in DOMAIN claims :
            /\ claims'[i].cancelled = claims[i].cancelled
            /\ ~claims[i].cancelled => claims'[i].source = claims[i].source
            /\ claims'[i].at = "holding" => claims'[i] = claims[i],
         UNCHANGED <<current, nodeState>>
  PROVE  NodesInv'
  <1>1. /\ current' = current /\ nodeStream' = nodeStream /\ nodeVideo' = nodeVideo
    BY DEF nodeState
  <1>2. ASSUME NEW n \in CaptureNodes, current[n] # 0
        PROVE  /\ ~claims'[current[n]].cancelled
               /\ claims'[current[n]].source = claims[current[n]].source
               /\ claims'[current[n]].at = "holding" => nodeStream[n] = claims'[current[n]].acq
    BY <1>2, CurrentClaim DEF NodesInv
  <1>3. \A i \in DOMAIN claims' : ~claims'[i].cancelled => \E n \in CaptureNodes : current[n] = i
    BY DEF NodesInv
  <1>4. \A n \in CaptureNodes : nodeVideo[n] # 0 =>
          /\ current[n] # 0 /\ nodeVideo[n] = nodeStream[n]
          /\ Visual(claims'[current[n]].source)
    BY <1>2 DEF NodesInv, Visual
  <1> QED
    BY <1>1, <1>2, <1>3, <1>4 DEF NodesInv

LEMMA DoneGoesOn ==
  ASSUME CaptureInv, NEW i \in DOMAIN claims
  PROVE  /\ Done(i)[i].cancelled = claims[i].cancelled /\ Done(i)[i].at = "done"
         /\ ~claims[i].cancelled => Done(i)[i].source = claims[i].source
  <1>1. claims[i] \in Claims
    BY ClaimsSeq
  <1>2. CASE claims[i].cancelled
    <2>1. Done(i)[i] = Over
      BY <1>2 DEF Done
    <2> QED
      BY <1>1, <1>2, <2>1 DEF Over, Claims
  <1>3. CASE ~claims[i].cancelled
    <2>1. Done(i)[i] = [claims[i] EXCEPT !.at = "done", !.key = Unresolved, !.acq = 0]
      BY <1>3 DEF Done
    <2> QED
      BY <1>1, <1>3, <2>1 DEF Claims
  <1> QED
    BY <1>2, <1>3

\* One effect ends without a stream.
LEMMA DoneKeepsNodes ==
  ASSUME CaptureInv, NodesInv, NEW i \in DOMAIN claims, claims' = Done(i),
         UNCHANGED <<current, nodeState>>
  PROVE  NodesInv'
  <1>1. /\ DOMAIN claims' = DOMAIN claims
        /\ \A j \in DOMAIN claims : j # i => claims'[j] = claims[j]
    BY DoneClaim
  <1>2. /\ claims'[i].cancelled = claims[i].cancelled /\ claims'[i].at = "done"
        /\ ~claims[i].cancelled => claims'[i].source = claims[i].source
    BY DoneGoesOn
  <1> QED
    BY <1>1, <1>2, EffectsGoOn

LEMMA ResolverAnswersNodes ==
  ASSUME CaptureInv, NodesInv, NEW i \in DOMAIN claims, NEW d \in Devices \cup {Unresolved},
         ResolverAnswers(i, d)
  PROVE  NodesInv'
  <1>1. UNCHANGED <<current, nodeState>>
    BY DEF ResolverAnswers
  <1>2. claims' = Done(i) \/ \E k, a : claims' = Waiting(i, k, a)
    <2> DEFINE k == KeyOf(claims[i].source, d)
    <2>1. \/ claims' = Done(i)
          \/ claims' = Waiting(i, k, cache[k].acq)
          \/ claims' = Waiting(i, k, Len(acqs'))
      BY DEF ResolverAnswers, Waiting
    <2> QED
      BY <2>1
  <1>3. CASE claims' = Done(i)
    BY <1>1, <1>3, DoneKeepsNodes
  <1>4. ASSUME NEW k, NEW a, claims' = Waiting(i, k, a) PROVE NodesInv'
    <2> DEFINE m == [claims[i] EXCEPT !.at = "waiting", !.key = k, !.acq = a]
    <2>1. claims[i] \in Claims /\ DOMAIN claims = 1 .. Len(claims)
      BY ClaimsSeq
    <2>2. claims' = [claims EXCEPT ![i] = m]
      BY <1>4, <2>1 DEF Waiting
    <2>3. m.at = "waiting" /\ m.cancelled = claims[i].cancelled /\ m.source = claims[i].source
      BY <2>1 DEF Claims
    <2> HIDE DEF m
    <2>4. /\ DOMAIN claims' = DOMAIN claims /\ claims'[i] = m
          /\ \A j \in DOMAIN claims : j # i => claims'[j] = claims[j]
      BY <2>1, <2>2
    <2> QED
      BY <1>1, <2>3, <2>4, EffectsGoOn
  <1> QED
    BY <1>2, <1>3, <1>4

LEMMA DeviceFailsNodes ==
  ASSUME CaptureInv, NodesInv, NEW a \in DOMAIN acqs, DeviceFails(a)
  PROVE  NodesInv'
  <1>1. /\ UNCHANGED <<current, nodeState>> /\ DOMAIN claims' = DOMAIN claims
        /\ \A i \in DOMAIN claims : claims'[i] = claims[i] \/ claims'[i] = Done(i)[i]
    BY DEF DeviceFails
  <1>2. \A i \in DOMAIN claims :
            /\ claims'[i].cancelled = claims[i].cancelled
            /\ ~claims[i].cancelled => claims'[i].source = claims[i].source
            /\ claims'[i].at = "holding" => claims'[i] = claims[i]
    BY <1>1, DoneGoesOn
  <1> QED
    BY <1>1, <1>2, EffectsGoOn

LEMMA DeviceOpensNodes ==
  ASSUME CaptureInv, NodesInv, NEW a \in DOMAIN acqs, DeviceOpens(a)
  PROVE  NodesInv'
  BY EffectsGoOn DEF DeviceOpens

\* The effect of a mounted node gets its stream, and the node's state is set to it.
LEMMA ContinueNodes ==
  ASSUME CaptureInv, NodesInv, NEW i \in DOMAIN claims, Continue(i)
  PROVE  NodesInv'
  <1> DEFINE a == claims[i].acq
  <1>1. claims[i] \in Claims /\ claims[i].at = "waiting" /\ current' = current
    BY ClaimsSeq DEF Continue
  <1>2. CASE claims[i].cancelled
    BY <1>1, <1>2, DoneKeepsNodes DEF Continue
  <1>3. CASE ~claims[i].cancelled
    <2> DEFINE m == [claims[i] EXCEPT !.at = "holding"]
    <2>1. claims' = [claims EXCEPT ![i] = m] /\ SetStream(i)
      BY <1>3 DEF Continue
    <2>2. /\ m.at = "holding" /\ ~m.cancelled /\ m.source = claims[i].source /\ m.acq = a
          /\ a \in Nat
      BY <1>1, <1>3 DEF Claims
    <2> HIDE DEF m
    <2>3. /\ DOMAIN claims' = DOMAIN claims /\ claims'[i] = m
          /\ \A j \in DOMAIN claims : j # i => claims'[j] = claims[j]
      BY <2>1, ClaimsSeq
    <2>4. \A n \in CaptureNodes :
            /\ nodeStream'[n] = IF current[n] = i THEN a ELSE nodeStream[n]
            /\ nodeVideo'[n] = IF nodeStream'[n] # nodeStream[n] /\ Visual(claims[i].source)
                               THEN nodeStream'[n] ELSE nodeVideo[n]
      BY <2>1 DEF SetStream
    <2>5. /\ nodeStream' \in [CaptureNodes -> Nat] /\ nodeVideo' \in [CaptureNodes -> Nat]
      BY <2>1, <2>2 DEF SetStream, NodesInv
    <2>6. i # 0
      BY ClaimsSeq
    <2>7. ASSUME NEW n \in CaptureNodes, current[n] # 0
          PROVE  /\ ~claims'[current[n]].cancelled
                 /\ claims'[current[n]].at = "holding" =>
                      nodeStream'[n] = claims'[current[n]].acq
                 /\ claims'[current[n]].source = claims[current[n]].source
      BY <2>2, <2>3, <2>4, <2>7, CurrentClaim DEF NodesInv
    <2>8. ASSUME NEW n \in CaptureNodes, nodeVideo'[n] # 0
          PROVE  /\ current[n] # 0 /\ nodeVideo'[n] = nodeStream'[n]
                 /\ Visual(claims'[current[n]].source)
      <3>1. CASE current[n] = i /\ nodeStream'[n] # nodeStream[n]
        <4>1. Visual(claims[i].source) /\ nodeVideo'[n] = nodeStream'[n]
          <5>1. CASE Visual(claims[i].source)
            BY <2>4, <3>1, <5>1
          <5>2. CASE ~Visual(claims[i].source)
            <6>1. nodeVideo'[n] = nodeVideo[n]
              BY <2>4, <5>2
            <6> QED
              BY <2>8, <3>1, <5>2, <6>1 DEF NodesInv
          <5> QED
            BY <5>1, <5>2
        <4> QED
          BY <2>2, <2>3, <2>6, <3>1, <4>1
      <3>2. CASE nodeStream'[n] = nodeStream[n]
        <4>1. nodeVideo'[n] = nodeVideo[n]
          BY <2>4, <3>2
        <4>2. /\ current[n] # 0 /\ nodeVideo[n] = nodeStream[n]
              /\ Visual(claims[current[n]].source)
          BY <2>8, <4>1 DEF NodesInv
        <4> QED
          BY <2>7, <3>2, <4>1, <4>2
      <3> QED
        BY <2>4, <3>1, <3>2
    <2>9. \A j \in DOMAIN claims' : ~claims'[j].cancelled =>
            \E n \in CaptureNodes : current[n] = j
      BY <1>3, <2>3 DEF NodesInv
    <2> QED
      BY <1>1, <2>5, <2>7, <2>8, <2>9 DEF NodesInv
  <1> QED
    BY <1>2, <1>3

\* Sequence r is q with the new claim of source s, at position k.
Appended(q, r, k, s) ==
    /\ k # 0 /\ k \notin DOMAIN q /\ DOMAIN r = DOMAIN q \cup {k} /\ k = Len(r) /\ 0 \notin DOMAIN q
    /\ \A i \in DOMAIN q : r[i] = q[i]
    /\ r[k].at = "resolving" /\ ~r[k].cancelled /\ r[k].source = s

LEMMA AppendsClaim ==
  ASSUME NEW q \in Seq(Claims), NEW s \in CaptureSources
  PROVE  Appended(q, Append(q, NewClaim(s)), Len(q) + 1, s)
  <1> DEFINE m == NewClaim(s)
             r == Append(q, m)
  <1>1. m \in Claims /\ m.at = "resolving" /\ ~m.cancelled /\ m.source = s
    BY NewClaimType DEF NewClaim
  <1> HIDE DEF m
  <1>2. r \in Seq(Claims) /\ Len(r) = Len(q) + 1 /\ Len(q) \in Nat
    BY <1>1, LenProperties
  <1>3. r[Len(q) + 1] = m /\ \A i \in 1 .. Len(q) : r[i] = q[i]
    BY <1>1, <1>2
  <1>4. DOMAIN q = 1 .. Len(q) /\ DOMAIN r = 1 .. Len(q) + 1
    BY <1>2, LenProperties
  <1> HIDE DEF r
  <1>5. Appended(q, r, Len(q) + 1, s)
    BY <1>1, <1>2, <1>3, <1>4 DEF Appended
  <1> QED
    BY <1>5 DEF r, m

\* A node is mounted: its state is null, and its claim is new.
LEMMA MountNodes ==
  ASSUME CaptureInv, NodesInv, NEW n \in CaptureNodes, NEW s \in CaptureSources,
         MountCapture(n, s)
  PROVE  NodesInv'
  <1> DEFINE k == Len(claims) + 1
  <1>1. /\ claims' = Append(claims, NewClaim(s)) /\ current[n] = 0
        /\ current' = [current EXCEPT ![n] = Len(claims')]
        /\ nodeStream' = nodeStream /\ nodeVideo' = nodeVideo
    BY DEF MountCapture, nodeState
  <1>2. Appended(claims, claims', k, s)
    BY <1>1, AppendsClaim DEF CaptureInv
  <1>3. /\ current'[n] = k
        /\ \A m \in CaptureNodes : m # n =>
              current'[m] = current[m] /\ (current[m] # 0 => current[m] \in DOMAIN claims)
    BY <1>1, <1>2 DEF CaptureInv, Placed, Appended
  <1> HIDE DEF k
  <1>4. ASSUME NEW m \in CaptureNodes, m # n, current[m] # 0
        PROVE  current[m] # k /\ claims'[current[m]] = claims[current[m]]
    BY <1>2, <1>3, <1>4 DEF Appended
  <1>5. nodeVideo[n] = 0
    BY <1>1 DEF NodesInv
  <1>6. ASSUME NEW m \in CaptureNodes, current'[m] # 0
        PROVE  /\ ~claims'[current'[m]].cancelled
               /\ claims'[current'[m]].at = "holding" =>
                    nodeStream[m] = claims'[current'[m]].acq
    <2>1. CASE m = n
      BY <1>2, <1>3, <2>1 DEF Appended
    <2>2. CASE m # n
      BY <1>3, <1>4, <1>6, <2>2 DEF NodesInv
    <2> QED
      BY <2>1, <2>2
  <1>7. \A m \in CaptureNodes : nodeVideo[m] # 0 =>
          /\ current'[m] # 0 /\ nodeVideo[m] = nodeStream[m]
          /\ Visual(claims'[current'[m]].source)
    BY <1>3, <1>4, <1>5 DEF NodesInv
  <1>8. \A l, m \in CaptureNodes : current'[l] # 0 /\ current'[l] = current'[m] => l = m
    BY <1>3, <1>4 DEF NodesInv
  <1>9. ASSUME NEW i \in DOMAIN claims', ~claims'[i].cancelled
        PROVE  \E m \in CaptureNodes : current'[m] = i
    <2>1. CASE i = k
      BY <1>3, <2>1
    <2>2. CASE i # k
      <3>1. i \in DOMAIN claims /\ i # 0 /\ ~claims[i].cancelled
        BY <1>2, <1>9, <2>2 DEF Appended
      <3> QED
        BY <1>1, <1>3, <3>1 DEF NodesInv
    <2> QED
      BY <2>1, <2>2
  <1> QED
    BY <1>1, <1>6, <1>7, <1>8, <1>9 DEF NodesInv

\* The cleanup of claim i of node n.
LEMMA CleanedNode ==
  ASSUME CaptureInv, NodesInv, NEW n \in CaptureNodes, current[n] # 0
  PROVE  LET q == Cancelled(current[n])
         IN  /\ q \in Seq(Claims) /\ DOMAIN q = DOMAIN claims
             /\ q[current[n]].cancelled
             /\ \A j \in DOMAIN claims : j # current[n] => q[j] = claims[j]
  <1> DEFINE i == current[n]
  <1>1. i \in DOMAIN claims /\ claims[i] \in Claims
    BY CurrentClaim
  <1>2. /\ Cancelled(i) \in Seq(Claims) /\ DOMAIN Cancelled(i) = DOMAIN claims
        /\ \A j \in DOMAIN claims \ {i} : Cancelled(i)[j] = claims[j]
    BY <1>1, CancelledClaim
  <1>3. Cancelled(i)[i].cancelled
    BY <1>1 DEF Cancelled, Over, Claims
  <1> QED
    BY <1>2, <1>3

\* What the other nodes have when node n's claim is cleaned up, and n takes claim k,
\* a new one, or none (k = 0).
LEMMA OtherNodes ==
  ASSUME CaptureInv, NodesInv, NEW n \in CaptureNodes, current[n] # 0,
         NEW k \in Nat, k \notin DOMAIN claims, current' = [current EXCEPT ![n] = k],
         DOMAIN claims' = DOMAIN claims \cup ({k} \ {0}), claims'[current[n]].cancelled,
         \A j \in DOMAIN claims : j # current[n] => claims'[j] = claims[j],
         nodeStream' \in [CaptureNodes -> Nat], nodeVideo' \in [CaptureNodes -> Nat],
         \A m \in CaptureNodes : m # n =>
            nodeStream'[m] = nodeStream[m] /\ nodeVideo'[m] = nodeVideo[m],
         k # 0 => ~claims'[k].cancelled /\ claims'[k].at = "resolving",
         nodeVideo'[n] # 0 =>
            k # 0 /\ nodeVideo'[n] = nodeStream'[n] /\ Visual(claims'[k].source)
  PROVE  NodesInv'
  <1>1. /\ current'[n] = k /\ \A m \in CaptureNodes : m # n => current'[m] = current[m]
        /\ \A m \in CaptureNodes : current[m] # 0 => current[m] \in DOMAIN claims
    BY DEF CaptureInv, Placed
  <1>2. \A m \in CaptureNodes : m # n /\ current[m] # 0 =>
          current[m] # k /\ claims'[current[m]] = claims[current[m]]
    BY <1>1 DEF NodesInv
  <1>3. ASSUME NEW m \in CaptureNodes, current'[m] # 0
        PROVE  /\ ~claims'[current'[m]].cancelled
               /\ claims'[current'[m]].at = "holding" =>
                    nodeStream'[m] = claims'[current'[m]].acq
    <2>1. CASE m = n
      BY <1>1, <1>3, <2>1
    <2>2. CASE m # n
      BY <1>1, <1>2, <1>3, <2>2 DEF NodesInv
    <2> QED
      BY <2>1, <2>2
  <1>4. ASSUME NEW m \in CaptureNodes, nodeVideo'[m] # 0
        PROVE  /\ current'[m] # 0 /\ nodeVideo'[m] = nodeStream'[m]
               /\ Visual(claims'[current'[m]].source)
    <2>1. CASE m = n
      BY <1>1, <1>4, <2>1
    <2>2. CASE m # n
      BY <1>1, <1>2, <1>4, <2>2 DEF NodesInv
    <2> QED
      BY <2>1, <2>2
  <1>5. \A l, m \in CaptureNodes : current'[l] # 0 /\ current'[l] = current'[m] => l = m
    BY <1>1, <1>2 DEF NodesInv
  <1>6. ASSUME NEW i \in DOMAIN claims', ~claims'[i].cancelled
        PROVE  \E m \in CaptureNodes : current'[m] = i
    <2>1. CASE i = k
      BY <1>1, <2>1
    <2>2. CASE i # k
      <3>1. i \in DOMAIN claims /\ i # current[n] /\ ~claims[i].cancelled
        BY <1>6, <2>2
      <3>2. PICK m \in CaptureNodes : current[m] = i
        BY <3>1 DEF NodesInv
      <3> QED
        BY <1>1, <3>1, <3>2
    <2> QED
      BY <2>1, <2>2
  <1> QED
    BY <1>3, <1>4, <1>5, <1>6 DEF NodesInv

LEMMA ChangeSourceNodes ==
  ASSUME CaptureInv, NodesInv, NEW n \in CaptureNodes, NEW s \in CaptureSources,
         ChangeSource(n, s)
  PROVE  NodesInv'
  <1> DEFINE q == Cancelled(current[n])
             k == Len(q) + 1
  <1>1. /\ current[n] # 0 /\ claims' = Append(q, NewClaim(s))
        /\ current' = [current EXCEPT ![n] = Len(claims')] /\ nodeStream' = nodeStream
        /\ nodeVideo' = [nodeVideo EXCEPT ![n] =
                            IF Visual(claims[current[n]].source) /\ Visual(s) THEN @ ELSE 0]
    BY DEF ChangeSource
  <1>2. /\ q \in Seq(Claims) /\ DOMAIN q = DOMAIN claims /\ q[current[n]].cancelled
        /\ \A j \in DOMAIN claims : j # current[n] => q[j] = claims[j]
    BY <1>1, CleanedNode
  <1>3. current[n] \in DOMAIN claims
    BY <1>1, CurrentClaim
  <1> HIDE DEF q
  <1>4. Appended(q, claims', k, s) /\ k \in Nat
    BY <1>1, <1>2, AppendsClaim, LenProperties
  <1> HIDE DEF k
  <1>5. current' = [current EXCEPT ![n] = k]
    BY <1>1, <1>4 DEF Appended
  <1>6. /\ k \notin DOMAIN claims /\ k # 0 /\ DOMAIN claims' = DOMAIN claims \cup ({k} \ {0})
        /\ claims'[current[n]].cancelled
        /\ \A j \in DOMAIN claims : j # current[n] => claims'[j] = claims[j]
        /\ ~claims'[k].cancelled /\ claims'[k].at = "resolving" /\ claims'[k].source = s
    BY <1>2, <1>3, <1>4 DEF Appended
  <1>7. /\ nodeStream' \in [CaptureNodes -> Nat] /\ nodeVideo' \in [CaptureNodes -> Nat]
        /\ \A m \in CaptureNodes : m # n =>
              nodeStream'[m] = nodeStream[m] /\ nodeVideo'[m] = nodeVideo[m]
    BY <1>1 DEF NodesInv
  <1>8. nodeVideo'[n] # 0 => nodeVideo'[n] = nodeStream'[n] /\ Visual(s)
    BY <1>1 DEF NodesInv
  <1> QED
    BY <1>1, <1>4, <1>5, <1>6, <1>7, <1>8, OtherNodes

LEMMA UnmountNodes ==
  ASSUME CaptureInv, NodesInv, NEW n \in CaptureNodes, UnmountCapture(n)
  PROVE  NodesInv'
  <1>1. /\ current[n] # 0 /\ claims' = Cancelled(current[n])
        /\ current' = [current EXCEPT ![n] = 0]
        /\ nodeStream' = [nodeStream EXCEPT ![n] = 0] /\ nodeVideo' = [nodeVideo EXCEPT ![n] = 0]
    BY DEF UnmountCapture
  <1>2. /\ DOMAIN claims' = DOMAIN claims /\ claims'[current[n]].cancelled
        /\ \A j \in DOMAIN claims : j # current[n] => claims'[j] = claims[j]
    BY <1>1, CleanedNode
  <1>3. 0 \notin DOMAIN claims
    BY ClaimsSeq
  <1>4. /\ nodeStream' \in [CaptureNodes -> Nat] /\ nodeVideo' \in [CaptureNodes -> Nat]
        /\ nodeVideo'[n] = 0
        /\ \A m \in CaptureNodes : m # n =>
              nodeStream'[m] = nodeStream[m] /\ nodeVideo'[m] = nodeVideo[m]
    BY <1>1 DEF NodesInv
  <1>5. DOMAIN claims' = DOMAIN claims \cup ({0} \ {0})
    BY <1>2
  <1> QED
    BY <1>1, <1>2, <1>3, <1>4, <1>5, OtherNodes

LEMMA NodesInvStep == CaptureInv /\ NodesInv /\ [CaptureNext]_captureVars => NodesInv'
  <1> SUFFICES ASSUME CaptureInv, NodesInv, [CaptureNext]_captureVars PROVE NodesInv'
    OBVIOUS
  <1>1. CASE UNCHANGED captureVars
    BY <1>1 DEF captureVars, NodesInv
  <1> QED
    BY <1>1, MountNodes, ChangeSourceNodes, UnmountNodes, ResolverAnswersNodes,
       ContinueNodes, DeviceOpensNodes, DeviceFailsNodes DEF CaptureNext

\* A device is open exactly for its holders, a claim that holds is that of a mounted node
\* whose state is that live stream, and the counts of the cache are right, however
\* effects, the resolver and the devices interleave.
THEOREM PageStreamsFollowHolders == CaptureSpec => []StreamsFollowHolders
  <1>1. CaptureInv /\ NodesInv => StreamsFollowHolders
    <2> SUFFICES ASSUME CaptureInv, NodesInv PROVE StreamsFollowHolders
      OBVIOUS
    <2>1. \A i \in DOMAIN claims : Counts(i) <=> i \in Counting(claims)
      BY DEF CaptureInv, Counts, Counting, Claimed
    <2>2. \A a : {i \in DOMAIN claims : Counts(i) /\ claims[i].acq = a} = On(claims, a)
      BY <2>1 DEF On, Counting
    <2>3. ASSUME NEW a \in DOMAIN acqs, acqs[a].is = "live"
          PROVE  \E i \in DOMAIN claims : Counts(i) /\ claims[i].acq = a
      <3>1. Cardinality(On(claims, a)) # 0
        BY <2>3 DEF CaptureInv, Active, Entry
      <3>2. On(claims, a) # {}
        BY <3>1, FS_EmptySet
      <3> QED
        BY <2>2, <3>2
    <2>4. ASSUME NEW i \in DOMAIN claims, claims[i].at = "holding", ~claims[i].cancelled
          PROVE  \E n \in CaptureNodes : /\ current[n] = i /\ nodeStream[n] = claims[i].acq
                                         /\ acqs[nodeStream[n]].is = "live"
      <3>1. i # 0 /\ i \in Counting(claims) /\ acqs[claims[i].acq].is = "live"
        BY <2>4, ClaimsSeq DEF CaptureInv, Counting, Claimed
      <3>2. PICK n \in CaptureNodes : current[n] = i
        BY <2>4 DEF NodesInv
      <3> QED
        BY <2>4, <3>1, <3>2 DEF NodesInv
    <2>5. ASSUME NEW a \in DOMAIN acqs, NEW b \in DOMAIN acqs,
                 {acqs[a].is, acqs[b].is} \subseteq {"pending", "live"}, acqs[a].key = acqs[b].key
          PROVE  a = b
      BY <2>5 DEF CaptureInv, Active
    <2>6. ASSUME NEW k \in DOMAIN cache
          PROVE  cache[k].refs = Cardinality({i \in DOMAIN claims :
                                    Counts(i) /\ claims[i].acq = cache[k].acq})
      <3>1. cache[k].refs = Cardinality(On(claims, cache[k].acq))
        BY DEF CaptureInv, Entry
      <3>2. {i \in DOMAIN claims : Counts(i) /\ claims[i].acq = cache[k].acq}
              = On(claims, cache[k].acq)
        BY <2>2
      <3> QED
        BY <3>1, <3>2
    <2>7. \A n \in CaptureNodes : nodeVideo[n] # 0 =>
            current[n] # 0 /\ nodeVideo[n] = nodeStream[n] /\ Visual(claims[current[n]].source)
      BY DEF NodesInv
    <2> QED
      BY <2>3, <2>4, <2>5, <2>6, <2>7 DEF StreamsFollowHolders
  <1> QED
    BY <1>1, CaptureInvInit, CaptureInvStep, NodesInvInit, NodesInvStep, PTL DEF CaptureSpec

(***************************************************************************)
(* The authored node                                                       *)
(***************************************************************************)
\* A key the audit lets through, and that is not part of a node's structure,
\* is lowered: KIND_NODE_KEYS promises nothing the switch does not do.
LEMMA AuditedIsLowered ==
  ASSUME NEW kind \in Kinds, NEW key \in Audited(kind) \ (EXEMPT_KEYS \cup StructuralKeys)
  PROVE  key \in DOMAIN Emits(kind)
  <1>1. DOMAIN Emits(kind) = KindLowers(kind) \cup (IF kind = "repeat" THEN {} ELSE UniversalLowers)
    BY DEF Emits
  <1>2. CASE kind = "repeat"
    BY <1>1, <1>2 DEF Audited, REPEAT_NODE_KEYS, EXEMPT_KEYS, StructuralKeys, KindLowers
  <1>3. CASE kind # "repeat"
    <2>1. key \in COMMON_NODE_KEYS \cup KIND_NODE_KEYS(kind)
      BY <1>3 DEF Audited
    <2>2. key \in COMMON_NODE_KEYS => key \in UniversalLowers
      BY DEF COMMON_NODE_KEYS, StructuralKeys, UniversalLowers
    <2>3. key \in KIND_NODE_KEYS(kind) => key \in KindLowers(kind)
      <3> SUFFICES ASSUME key \in KIND_NODE_KEYS(kind) PROVE key \in KindLowers(kind)
        OBVIOUS
      <3> USE DEF KIND_NODE_KEYS, KindLowers
      <3>1. CASE kind = "stack"
        BY <3>1
      <3>2. CASE kind = "grid"
        BY <3>2
      <3>3. CASE kind = "frame"
        BY <3>3
      <3>4. CASE kind = "text"
        BY <3>4 DEF TEXT_STYLE_KEYS
      <3>5. CASE kind = "image"
        BY <3>5
      <3>6. CASE kind = "shape"
        BY <3>6
      <3>7. CASE kind = "media"
        BY <3>7
      <3>8. CASE kind = "instance"
        BY <3>8 DEF StructuralKeys
      <3>9. CASE kind = "x-zab.capture"
        BY <3>9
      <3>10. CASE kind = "x-zab.meet-peer"
        BY <3>10
      <3> QED
        BY <1>3, <3>1, <3>2, <3>3, <3>4, <3>5, <3>6, <3>7, <3>8, <3>9, <3>10 DEF Kinds
    <2> QED
      BY <1>1, <1>3, <2>1, <2>2, <2>3
  <1> QED
    BY <1>2, <1>3

\* The props a universal key becomes are read around every primitive, or the
\* mounted audit reports them, or their loss is known.
LEMMA UniversalHeard ==
  ASSUME NEW kind \in Kinds \ {"repeat"}, NEW key \in UniversalLowers, ~KnownSilent(kind, key),
         NEW props, NEW p \in PropsOf(key)
  PROVE  p \in Reads(kind, props) \/ ~isAllowed(kind, p)
  <1>1. CASE key = "position"
    <2>1. PropsOf(key) = {"x", "y"}
      BY <1>1 DEF PropsOf
    <2> QED
      BY <2>1 DEF Reads, TreeReads, PrimitiveReads, FrameReads
  <1>2. CASE key # "position"
    <2>1. p = key
      BY <1>2 DEF PropsOf, mapTextStyle, UniversalLowers
    <2>2. CASE key \in {"opacity", "shadow"}
      BY <2>1, <2>2 DEF KnownSilent, Reads, PrimitiveReads, FrameReads, TextReads, ImageReads, ShapeReads
    <2>3. CASE key \in {"rotation", "flipY"}
      BY <2>1, <2>3 DEF Reads, TreeReads, PrimitiveReads, FrameReads
    <2>4. CASE key \notin {"opacity", "shadow", "rotation", "flipY"}
      BY <1>2, <2>1, <2>4 DEF UniversalLowers, Reads, TreeReads
    <2> QED
      BY <2>2, <2>3, <2>4
  <1> QED
    BY <1>1, <1>2

\* The props a key of one kind becomes: the kind's component reads them, or
\* the mounted audit reports them, or their loss is known.
LEMMA KindHeard ==
  ASSUME NEW kind \in Kinds \ {"repeat"}, NEW key \in KindLowers(kind), ~KnownSilent(kind, key),
         NEW props, NEW p \in PropsOf(key)
  PROVE  p \in Reads(kind, props) \/ ~isAllowed(kind, p)
  <1>0. /\ Reads(kind, props) = TreeReads(kind, props) \cup PrimitiveReads(kind)
        /\ isAllowed(kind, p) => \/ p \in UNIVERSAL_PROPS \cup PRIMITIVE_PROP_ALLOWLIST(kind)
                                 \/ kind = "instance" /\ p = "params"
    BY DEF Reads, isAllowed
  <1>1. CASE kind = "stack"
    <2>1. p = key
      BY <1>1 DEF PropsOf, mapTextStyle, KindLowers
    <2> QED
      BY <1>0, <1>1, <2>1 DEF KindLowers, PrimitiveReads, StackReads, UNIVERSAL_PROPS, PRIMITIVE_PROP_ALLOWLIST
  <1>2. CASE kind = "grid"
    <2>1. p = key
      BY <1>2 DEF PropsOf, mapTextStyle, KindLowers
    <2> QED
      BY <1>0, <1>2, <2>1 DEF KindLowers, PrimitiveReads, GridReads, UNIVERSAL_PROPS, PRIMITIVE_PROP_ALLOWLIST
  <1>3. CASE kind = "frame"
    <2>1. p \in {"width", "height", "x", "y", "background", "backgrounds", "clipsContent", "radius"}
      BY <1>3 DEF PropsOf, mapTextStyle, KindLowers
    <2> QED
      BY <1>0, <1>3, <2>1 DEF PrimitiveReads, FrameReads
  <1>4. CASE kind = "text"
    <2>1. p \in {"format"} \cup TextReads
      BY <1>4 DEF PropsOf, mapTextStyle, KindLowers, TextReads
    <2> QED
      BY <1>0, <1>4, <2>1 DEF PrimitiveReads, UNIVERSAL_PROPS, PRIMITIVE_PROP_ALLOWLIST
  <1>5. CASE kind = "image"
    <2>1. p \in {"alt", "width", "height", "fit"}
      BY <1>5 DEF PropsOf, mapTextStyle, KindLowers
    <2> QED
      BY <1>0, <1>5, <2>1 DEF PrimitiveReads, ImageReads
  <1>6. CASE kind = "shape"
    <2>1. p \in ShapeReads
      BY <1>6 DEF PropsOf, mapTextStyle, KindLowers, ShapeReads
    <2> QED
      BY <1>0, <1>6, <2>1 DEF PrimitiveReads
  <1>7. CASE kind = "media"
    <2>1. p = key /\ key # "size"
      BY <1>7 DEF PropsOf, mapTextStyle, KindLowers, KnownSilent
    <2> QED
      BY <1>0, <1>7, <2>1 DEF KindLowers, PrimitiveReads, MediaReads, UNIVERSAL_PROPS, PRIMITIVE_PROP_ALLOWLIST
  <1>8. CASE kind = "instance"
    <2>1. p = key /\ key \in {"scene_id", "scene_version", "fit"}
      BY <1>8 DEF PropsOf, mapTextStyle, KindLowers, KnownSilent
    <2> QED
      BY <1>0, <1>8, <2>1 DEF PrimitiveReads, InstanceReads, UNIVERSAL_PROPS, PRIMITIVE_PROP_ALLOWLIST
  <1>9. CASE kind = "x-zab.capture"
    <2>1. p \in {"x-zab.sourceKind", "x-zab.deviceRef", "width", "height", "fit"}
      BY <1>9 DEF PropsOf, mapTextStyle, KindLowers
    <2> QED
      BY <1>0, <1>9, <2>1 DEF PrimitiveReads, CaptureReads
  <1>10. CASE kind = "x-zab.meet-peer"
    <2>1. p = key /\ key = "x-zab.slotRef"
      BY <1>10 DEF PropsOf, mapTextStyle, KindLowers, KnownSilent
    <2> QED
      BY <1>0, <1>10, <2>1 DEF PrimitiveReads, MeetPeerSlotReads
  <1> QED
    BY <1>1, <1>2, <1>3, <1>4, <1>5, <1>6, <1>7, <1>8, <1>9, <1>10 DEF Kinds

\* All a lowered key becomes is read or reported, unless its loss is known.
LEMMA LoweredIsHeard ==
  ASSUME NEW kind \in Kinds, NEW key \in DOMAIN Emits(kind), ~KnownSilent(kind, key),
         NEW props, NEW p \in Emits(kind)[key]
  PROVE  p \in Reads(kind, props) \/ ~isAllowed(kind, p)
  <1>1. /\ key \in KindLowers(kind) \cup (IF kind = "repeat" THEN {} ELSE UniversalLowers)
        /\ p \in PropsOf(key)
    BY DEF Emits
  <1>2. CASE kind = "repeat"
    BY <1>1, <1>2 DEF KindLowers, PropsOf, mapTextStyle, Reads
  <1>3. CASE kind # "repeat"
    BY <1>1, <1>3, UniversalHeard, KindHeard
  <1> QED
    BY <1>2, <1>3

\* What compileNode makes of a key that is lowered: a warning, or its props.
LEMMA LoweredOrWarned ==
  ASSUME NEW d, NEW hosts, NEW key \in DOMAIN d.given \cap DOMAIN Emits(d.kind)
  PROVE  \/ key \in compileNode(d, hosts).warned
         \/ Emits(d.kind)[key] \subseteq DOMAIN compileNode(d, hosts).props
  BY DEF compileNode, KeptKeys, LoweredKeys

\* The key of an allowed directive finds its transition where its animation
\* looks for it.
LEMMA TransitionFound ==
  ASSUME NEW kind \in Kinds, NEW key, isBindAnimateKeyAllowed(key, kind)
  PROVE  transitionLookupKey(key) \in transitionKeysForBindAnimate(key, kind)
  <1>1. CASE key \in BIND_ANIMATE_SCALAR_KEYS
    <2> USE DEF transitionLookupKey, transitionKeysForBindAnimate, BoundColour
    <2>1. CASE key = "opacity"
      BY <2>1
    <2>2. CASE key = "transform.translate"
      BY <2>2
    <2>3. CASE key = "transform.scale"
      BY <2>3
    <2>4. CASE key = "transform.rotate"
      BY <2>4
    <2>5. CASE key \in {"filter.blur", "filter.brightness"}
      BY <2>5
    <2> QED
      BY <1>1, <2>1, <2>2, <2>3, <2>4, <2>5 DEF BIND_ANIMATE_SCALAR_KEYS
  <1>2. CASE key \notin BIND_ANIMATE_SCALAR_KEYS
    <2>1. \/ kind = "text" /\ key = "style.color"
          \/ kind = "shape" /\ key = "fill"
          \/ kind = "frame" /\ key = "background"
      BY <1>2 DEF isBindAnimateKeyAllowed, BIND_ANIMATE_COLOR_KEYS
    <2> QED
      BY <2>1 DEF transitionLookupKey, transitionKeysForBindAnimate, BoundColour
  <1> QED
    BY <1>1, <1>2

-----------------------------------------------------------------------------

\* A node that was compiled is what its document, which is not refused, is
\* compiled to; once mounted it has been audited.
NodeInv ==
    /\ doc \in Documents
    /\ phase \in {"compiled", "mounted"} => Compilable(doc) /\ node = compileNode(doc, AllowedHosts)
    /\ phase = "mounted" => /\ diagnosed = checkNodeProps(node) /\ DOMAIN leaf = node.bindings
                            /\ \A p \in node.bindings : leaf[p] \in Published(p) \cup {Absent}

LEMMA NodeInvInit == NodeInit => NodeInv
  BY DEF NodeInit, NodeInv

LEMMA NodeInvStep == NodeInv /\ [NodeNext]_nodeVars => NodeInv'
  <1> SUFFICES ASSUME NodeInv, [NodeNext]_nodeVars PROVE NodeInv'
    OBVIOUS
  <1> USE DEF NodeInv
  <1>1. CASE compileBundle
    BY <1>1 DEF compileBundle, Compilable
  <1>2. CASE Refuse
    BY <1>2 DEF Refuse
  <1>3. CASE MountBundle
    BY <1>3 DEF MountBundle, Compilable
  <1>4. CASE Incompatible
    BY <1>4 DEF Incompatible
  <1>5. ASSUME NEW p \in node.bindings, NEW v \in Published(p), Arrives(p, v) PROVE NodeInv'
    BY <1>5 DEF Arrives, Compilable
  <1>6. CASE UNCHANGED nodeVars
    BY <1>6 DEF nodeVars, Compilable
  <1> QED
    BY <1>1, <1>2, <1>3, <1>4, <1>5, <1>6 DEF NodeNext

\* Every key of a mounted node is spoken of, or its loss is known.
LEMMA EveryKeySpoken ==
  ASSUME DocumentsAssumption, NodeInv, phase = "mounted",
         NEW key \in DOMAIN doc.given \ (EXEMPT_KEYS \cup StructuralKeys), ~KnownSilent(doc.kind, key)
  PROVE  Spoken(key)
  <1>1. doc.kind \in Kinds /\ node = compileNode(doc, AllowedHosts) /\ diagnosed = checkNodeProps(node)
    BY DEF NodeInv, DocumentsAssumption
  <1>2. node.kind = doc.kind /\ auditNodeKeys(doc) \subseteq node.warned
    BY <1>1 DEF compileNode
  <1>3. CASE key \notin Audited(doc.kind)
    BY <1>2, <1>3 DEF auditNodeKeys, Spoken
  <1>4. CASE key \in Audited(doc.kind)
    <2>1. key \in DOMAIN Emits(doc.kind)
      BY <1>1, <1>4, AuditedIsLowered
    <2>2. CASE key \in node.warned
      BY <2>2 DEF Spoken
    <2>3. CASE key \notin node.warned
      <3>1. Emits(doc.kind)[key] \subseteq DOMAIN node.props
        BY <1>1, <2>1, <2>3, LoweredOrWarned
      <3>2. ASSUME NEW p \in Emits(doc.kind)[key]
            PROVE  p \in Reads(doc.kind, node.props) \cup diagnosed
        <4>1. p \in Reads(doc.kind, node.props) \/ ~isAllowed(doc.kind, p)
          BY <1>1, <2>1, LoweredIsHeard
        <4>2. ~isAllowed(doc.kind, p) => p \in diagnosed
          BY <1>1, <1>2, <3>1 DEF checkNodeProps
        <4> QED
          BY <4>1, <4>2
      <3> QED
        BY <2>1, <3>2 DEF Spoken
    <2> QED
      BY <2>2, <2>3
  <1> QED
    BY <1>3, <1>4

\* NoSilentDrop, for any documents of known kinds with any keys and values.
THEOREM PageNoSilentDrop == NodeSpec => []NoSilentDrop
  <1> USE DocumentsAssumption
  <1>1. NodeInv => NoSilentDrop
    <2> SUFFICES ASSUME NodeInv, phase = "mounted" PROVE NoSilentDrop
      BY DEF NoSilentDrop
    <2>1. ASSUME NEW key \in DOMAIN doc.given \ (EXEMPT_KEYS \cup StructuralKeys)
          PROVE  Spoken(key) \/ KnownSilent(doc.kind, key)
      BY <2>1, EveryKeySpoken
    <2>2. ASSUME doc.animated, NEW key \in doc.anim
          PROVE  transitionLookupKey(key) \in node.transitions
      <3>1. doc.kind \in Kinds /\ isBindAnimateKeyAllowed(key, doc.kind)
        BY DEF NodeInv, Compilable, Refused, DocumentsAssumption
      <3>2. transitionLookupKey(key) \in transitionKeysForBindAnimate(key, doc.kind)
        BY <3>1, TransitionFound
      <3> QED
        BY <2>2, <3>2 DEF NodeInv, compileNode
    <2> QED
      BY <2>1, <2>2 DEF NoSilentDrop
  <1> QED
    BY <1>1, NodeInvInit, NodeInvStep, PTL DEF NodeSpec

(***************************************************************************)
(* The two gates of an effect                                              *)
(***************************************************************************)
\* Values of any size, -0, and what is no number.
Numbers == {Num(n) : n \in Int} \cup {NegZero}
Scalars == Numbers \cup {Txt(s) : s \in STRING}
Grains == [noiseType : STRING, radius : Scalars, noiseSize : Scalars, density : Scalars,
           color : Scalars \cup {Absent}, secondaryColor : Scalars \cup {Absent}]
Lenses == [radius : Scalars, lightAngle : Scalars, lightIntensity : Scalars, splay : Scalars]
Shadows == [colour : BOOLEAN, inset : BOOLEAN, x : Scalars, blur : Scalars, spread : Scalars]

\* A blur that was bounded by the compiler is bounded again to what the raw one
\* is bounded to, in a filter and in a sum.
LEMMA BlurGates ==
  ASSUME NEW v \in Scalars
  PROVE  LET w == SoftMagnitude(v, MAX_STATIC_BLUR_PX)
         IN  /\ Positive(clampFilterChannel(w, BLUR_CAP)) = Positive(clampFilterChannel(v, BLUR_CAP))
             /\ NumberOr(clampFilterChannel(w, BLUR_CAP), 0) = NumberOr(clampFilterChannel(v, BLUR_CAP), 0)
  <1> DEFINE w == SoftMagnitude(v, MAX_STATIC_BLUR_PX)
  <1> USE DEF SoftMagnitude, clampFilterChannel, Positive, NumberOr, IsNum, IsNegZero, Num, NegZero, Absent,
              MAX_STATIC_BLUR_PX, BLUR_CAP, One, Clamp
  <1>1. CASE v \in {Num(n) : n \in Int}
    <2>1. PICK n \in Int : v = Num(n)
      BY <1>1
    <2>2. CASE n < 0
      BY <2>1, <2>2
    <2>3. CASE n > 1000
      BY <2>1, <2>3
    <2>4. CASE n \in 0..1000
      BY <2>1, <2>4
    <2> QED
      BY <2>2, <2>3, <2>4
  <1>2. CASE v = NegZero
    BY <1>2
  <1>3. CASE v \in {Txt(s) : s \in STRING}
    BY <1>3 DEF Txt
  <1> QED
    BY <1>1, <1>2, <1>3 DEF Scalars, Numbers

\* The size a grain asks for.
GrainCount(v) == NumberOr(clampFilterChannel(v, NOISE_SIZE_CAP), 5)
\* The size of a grain, likewise, but for a negative one: the compiler makes it
\* 0, the renderer takes its default.
LEMMA GrainCounts ==
  ASSUME NEW v \in Scalars
  PROVE  LET w == SoftMagnitude(v, MAX_NOISE_SIZE_PX)
         IN  \/ GrainCount(w) = GrainCount(v)
             \/ GrainCount(w) = 0 /\ GrainCount(v) = 5
  <1> DEFINE Agree == LET w == SoftMagnitude(v, MAX_NOISE_SIZE_PX)
                      IN  \/ GrainCount(w) = GrainCount(v)
                          \/ GrainCount(w) = 0 /\ GrainCount(v) = 5
  <1> SUFFICES Agree
    OBVIOUS
  <1>1. CASE v \in {Num(n) : n \in Int}
    <2>1. PICK n \in Int : v = Num(n)
      BY <1>1
    <2> USE DEF SoftMagnitude, clampFilterChannel, NumberOr, IsNum, IsNegZero, Num, NegZero,
            Absent, MAX_NOISE_SIZE_PX, NOISE_SIZE_CAP, One, Clamp, GrainCount
    <2>2. CASE n < 0
      BY <2>1, <2>2
    <2>3. CASE n > 20000
      BY <2>1, <2>3
    <2>4. CASE n \in 0..20000
      <3>1. SoftMagnitude(v, MAX_NOISE_SIZE_PX) = v
        BY <2>1, <2>4
      <3> QED
        BY <3>1
    <2> HIDE DEF Agree
    <2> QED
      BY <2>2, <2>3, <2>4
  <1>2. CASE v = NegZero
    BY <1>2 DEF SoftMagnitude, clampFilterChannel, NumberOr, IsNum, IsNegZero, Num, NegZero,
            Absent, MAX_NOISE_SIZE_PX, NOISE_SIZE_CAP, One, Clamp, GrainCount
  <1>3. CASE v \in {Txt(s) : s \in STRING}
    BY <1>3 DEF Txt, SoftMagnitude, clampFilterChannel, NumberOr, IsNum, IsNegZero, Num, NegZero,
            Absent, MAX_NOISE_SIZE_PX, NOISE_SIZE_CAP, One, Clamp, GrainCount
  <1> HIDE DEF Agree
  <1> QED
    BY <1>1, <1>2, <1>3 DEF Scalars, Numbers

\* Below the least size that is drawn the two are one.
LEMMA GrainGate ==
  ASSUME NEW v \in Scalars
  PROVE  GrainSize(SoftMagnitude(v, MAX_NOISE_SIZE_PX)) = GrainSize(v)
  <1>1. Max({5, 0}) = 5 /\ Max({5, 5}) = 5
    BY DEF Max
  <1>2. \A x : GrainSize(x) = Max({5, GrainCount(x)})
    BY DEF GrainSize, GrainCount
  <1> QED
    BY <1>1, <1>2, GrainCounts

\* Shares, colour channels and angles.
LEMMA UnitGates ==
  ASSUME NEW v \in Scalars \cup {Absent}
  PROVE  /\ clampUnitInterval(clampUnit(v)) = clampUnitInterval(v)
         /\ rgbaFromUnit(clampUnitColor(v)) = rgbaFromUnit(v)
         /\ wrapDegrees(normalizeDegrees(v)) = wrapDegrees(v)
  <1> USE DEF clampUnit, clampUnitInterval, rgbaFromUnit, clampUnitColor, wrapDegrees, normalizeDegrees,
              Given, IsNum, Num, NegZero, Absent, Clamp, One
  <1>1. CASE v \in {Num(n) : n \in Int}
    <2>1. PICK n \in Int : v = Num(n)
      BY <1>1
    <2>2. Clamp(Clamp(n, 0, 10), 0, 10) = Clamp(n, 0, 10)
      OBVIOUS
    <2>3. (n % 3600) % 3600 = n % 3600
      OBVIOUS
    <2>4. /\ clampUnit(v) = Num(Clamp(n, 0, 10)) /\ clampUnitInterval(v) = Clamp(n, 0, 10)
          /\ normalizeDegrees(v) = Num(n % 3600) /\ wrapDegrees(v) = n % 3600
      BY <2>1
    <2>5. /\ clampUnitInterval(clampUnit(v)) = clampUnitInterval(v)
          /\ wrapDegrees(normalizeDegrees(v)) = wrapDegrees(v)
      BY <2>2, <2>3, <2>4
    <2>6. Given(v) /\ Given(clampUnit(v))
      BY <2>1, <2>4
    <2> QED
      BY <2>5, <2>6
  <1>2. CASE v = NegZero
    BY <1>2
  <1>3. CASE v \in {Txt(s) : s \in STRING}
    BY <1>3 DEF Txt
  <1>4. CASE v = Absent
    BY <1>4
  <1> QED
    BY <1>1, <1>2, <1>3, <1>4 DEF Scalars, Numbers

\* Offsets and spreads, and the blur of a shadow, for which -0 is 0.
LEMMA ShadowChannels ==
  ASSUME NEW v \in Scalars
  PROVE  /\ clampSymmetricChannel(clampShadowMagnitude(v, MAX_SHADOW_OFFSET_PX), SHADOW_OFFSET_CAP)
              = clampSymmetricChannel(v, SHADOW_OFFSET_CAP)
         /\ clampSymmetricChannel(clampShadowMagnitude(v, MAX_SHADOW_SPREAD_PX), SHADOW_SPREAD_CAP)
              = clampSymmetricChannel(v, SHADOW_SPREAD_CAP)
         /\ NumberOr(clampFilterChannel(Num(NumberOr(SoftMagnitude(v, MAX_STATIC_BLUR_PX), 0)), BLUR_CAP), 0)
              = NumberOr(clampFilterChannel(Num(NumberOr(v, 0)), BLUR_CAP), 0)
  <1>1. /\ clampSymmetricChannel(clampShadowMagnitude(v, MAX_SHADOW_OFFSET_PX), SHADOW_OFFSET_CAP)
              = clampSymmetricChannel(v, SHADOW_OFFSET_CAP)
        /\ clampSymmetricChannel(clampShadowMagnitude(v, MAX_SHADOW_SPREAD_PX), SHADOW_SPREAD_CAP)
              = clampSymmetricChannel(v, SHADOW_SPREAD_CAP)
    <2> USE DEF clampSymmetricChannel, clampShadowMagnitude, IsNum, Num, Clamp, One, MAX_SHADOW_OFFSET_PX,
                SHADOW_OFFSET_CAP, MAX_SHADOW_SPREAD_PX, SHADOW_SPREAD_CAP
    <2>1. CASE v \in {Num(n) : n \in Int}
      BY <2>1
    <2>2. CASE v = NegZero
      BY <2>2 DEF NegZero
    <2>3. CASE v \in {Txt(s) : s \in STRING}
      BY <2>3 DEF Txt
    <2> QED
      BY <2>1, <2>2, <2>3 DEF Scalars, Numbers
  <1> DEFINE n == NumberOr(v, 0)
  <1>2. n \in Int
    <2> USE DEF NumberOr, IsNum
    <2>1. CASE v \in {Num(k) : k \in Int}
      BY <2>1 DEF Num
    <2>2. CASE v = NegZero
      BY <2>2 DEF NegZero
    <2>3. CASE v \in {Txt(s) : s \in STRING}
      BY <2>3 DEF Txt
    <2> QED
      BY <2>1, <2>2, <2>3 DEF Scalars, Numbers
  <1>3. Num(NumberOr(SoftMagnitude(v, MAX_STATIC_BLUR_PX), 0)) = SoftMagnitude(Num(n), MAX_STATIC_BLUR_PX)
    <2> USE DEF NumberOr, IsNum, Num, SoftMagnitude, MAX_STATIC_BLUR_PX, One
    <2>1. CASE v \in {Num(k) : k \in Int}
      BY <1>2, <2>1
    <2>2. CASE v = NegZero
      BY <1>2, <2>2 DEF NegZero
    <2>3. CASE v \in {Txt(s) : s \in STRING}
      BY <1>2, <2>3 DEF Txt
    <2> QED
      BY <2>1, <2>2, <2>3 DEF Scalars, Numbers
  <1>4. Num(n) \in Scalars
    BY <1>2 DEF Scalars, Numbers
  <1> QED
    BY <1>1, <1>3, <1>4, BlurGates

\* A shadow, entry by entry.
LEMMA ShadowGate ==
  ASSUME NEW s \in Seq(Shadows)
  PROVE  buildShadows(Obj(lowerStaticShadow(s))) = buildShadows(Obj(s))
  <1> DEFINE w == lowerStaticShadow(s)
  <1>1. DOMAIN w = DOMAIN s
    BY DEF lowerStaticShadow
  <1>2. ASSUME NEW i \in DOMAIN s
        PROVE  w[i].colour = s[i].colour /\ ShadowEntry(w[i]) = ShadowEntry(s[i])
    <2>1. s[i] \in Shadows
      OBVIOUS
    <2>2. /\ w[i].colour = s[i].colour /\ w[i].inset = s[i].inset
          /\ w[i].x = clampShadowMagnitude(s[i].x, MAX_SHADOW_OFFSET_PX)
          /\ w[i].blur = SoftMagnitude(s[i].blur, MAX_STATIC_BLUR_PX)
          /\ w[i].spread = clampShadowMagnitude(s[i].spread, MAX_SHADOW_SPREAD_PX)
      BY <2>1 DEF lowerStaticShadow, Shadows
    <2>3. s[i].x \in Scalars /\ s[i].blur \in Scalars /\ s[i].spread \in Scalars
      BY <2>1 DEF Shadows
    <2> HIDE DEF w
    <2>4. /\ clampSymmetricChannel(w[i].x, SHADOW_OFFSET_CAP) = clampSymmetricChannel(s[i].x, SHADOW_OFFSET_CAP)
          /\ clampSymmetricChannel(w[i].spread, SHADOW_SPREAD_CAP)
                = clampSymmetricChannel(s[i].spread, SHADOW_SPREAD_CAP)
          /\ NumberOr(clampFilterChannel(Num(NumberOr(w[i].blur, 0)), BLUR_CAP), 0)
                = NumberOr(clampFilterChannel(Num(NumberOr(s[i].blur, 0)), BLUR_CAP), 0)
      BY <2>2, <2>3, ShadowChannels
    <2> QED
      BY <2>2, <2>4 DEF ShadowEntry
  <1> HIDE DEF w
  <1>3. [i \in DOMAIN w |-> ShadowEntry(w[i])] = [i \in DOMAIN s |-> ShadowEntry(s[i])]
    BY <1>1, <1>2
  <1>4. {i \in DOMAIN w : w[i].colour} = {i \in DOMAIN s : s[i].colour}
    BY <1>1, <1>2
  <1>5. \A x : buildShadows(Obj(x)) = Picked([i \in DOMAIN x |-> ShadowEntry(x[i])], {i \in DOMAIN x : x[i].colour})
    BY DEF buildShadows, Obj, IsObj
  <1>6. buildShadows(Obj(w)) = buildShadows(Obj(s))
    BY <1>3, <1>4, <1>5
  <1> QED
    BY <1>6 DEF w

\* The overlays of a noise, of a texture and of a glass.
LEMMA NoiseGate ==
  ASSUME NEW e \in Grains
  PROVE  GrainOverlay(lowerStaticNoise(e), FALSE) = GrainOverlay(e, FALSE)
  <1> DEFINE w == lowerStaticNoise(e)
  <1>1. /\ w.noiseSize = SoftMagnitude(e.noiseSize, MAX_NOISE_SIZE_PX) /\ w.density = clampUnit(e.density)
        /\ w.color = clampUnitColor(e.color) /\ w.secondaryColor = clampUnitColor(e.secondaryColor)
        /\ w.noiseType = e.noiseType
    BY DEF lowerStaticNoise, Grains
  <1>2. /\ e.noiseSize \in Scalars /\ e.density \in Scalars
        /\ e.color \in Scalars \cup {Absent} /\ e.secondaryColor \in Scalars \cup {Absent}
    BY DEF Grains
  <1> HIDE DEF w
  <1>3. /\ GrainSize(w.noiseSize) = GrainSize(e.noiseSize)
        /\ clampUnitInterval(w.density) = clampUnitInterval(e.density)
        /\ rgbaFromUnit(w.color) = rgbaFromUnit(e.color)
        /\ rgbaFromUnit(w.secondaryColor) = rgbaFromUnit(e.secondaryColor)
    BY <1>1, <1>2, GrainGate, UnitGates
  <1>4. GrainOverlay(w, FALSE) = GrainOverlay(e, FALSE)
    BY <1>1, <1>3 DEF GrainOverlay
  <1> QED
    BY <1>4 DEF w

LEMMA TextureGate ==
  ASSUME NEW e \in Grains
  PROVE  GrainOverlay(lowerStaticTexture(e), TRUE) = GrainOverlay(e, TRUE)
  <1>1. lowerStaticTexture(e).noiseSize = SoftMagnitude(e.noiseSize, MAX_NOISE_SIZE_PX) /\ e.noiseSize \in Scalars
    BY DEF lowerStaticTexture, Grains
  <1>2. GrainSize(lowerStaticTexture(e).noiseSize) = GrainSize(e.noiseSize)
    BY <1>1, GrainGate
  <1> QED
    BY <1>2 DEF GrainOverlay

LEMMA GlassGate ==
  ASSUME NEW e \in Lenses
  PROVE  LET w == lowerStaticGlass(e)
         IN  /\ GlassHighlight(w) = GlassHighlight(e)
             /\ clampUnitInterval(w.lightIntensity) = clampUnitInterval(e.lightIntensity)
             /\ NumberOr(clampFilterChannel(w.radius, BLUR_CAP), 0)
                  = NumberOr(clampFilterChannel(e.radius, BLUR_CAP), 0)
  <1> DEFINE w == lowerStaticGlass(e)
  <1>1. /\ w.radius = SoftMagnitude(e.radius, MAX_STATIC_BLUR_PX)
        /\ w.lightAngle = normalizeDegrees(e.lightAngle)
        /\ w.lightIntensity = clampUnit(e.lightIntensity) /\ w.splay = clampUnit(e.splay)
    BY DEF lowerStaticGlass, Lenses
  <1>2. /\ e.radius \in Scalars /\ e.lightAngle \in Scalars
        /\ e.lightIntensity \in Scalars /\ e.splay \in Scalars
    BY DEF Lenses
  <1> HIDE DEF w
  <1>3. /\ wrapDegrees(w.lightAngle) = wrapDegrees(e.lightAngle)
        /\ clampUnitInterval(w.lightIntensity) = clampUnitInterval(e.lightIntensity)
        /\ clampUnitInterval(w.splay) = clampUnitInterval(e.splay)
    BY <1>1, <1>2, UnitGates
  <1>4. NumberOr(clampFilterChannel(w.radius, BLUR_CAP), 0) = NumberOr(clampFilterChannel(e.radius, BLUR_CAP), 0)
    BY <1>1, <1>2, BlurGates
  <1>5. GlassHighlight(w) = GlassHighlight(e)
    BY <1>3 DEF GlassHighlight
  <1> QED
    BY <1>3, <1>4, <1>5 DEF w

-----------------------------------------------------------------------------
\* The effects, and functions that are the same but inside P.
Effects == {"blur", "backdropBlur", "shadow", "noise", "texture", "glass", "blendMode", "mask"}
SameBut(a, b, P) == DOMAIN a \ P = DOMAIN b \ P /\ \A q \in DOMAIN a \ P : a[q] = b[q]

\* Props that differ at most inside P.
LEMMA SameGet ==
  ASSUME NEW P, NEW a, NEW b, SameBut(a, b, P), NEW q, q \notin P
  PROVE  /\ Get(a, q) = Get(b, q)
         /\ q \in DOMAIN a <=> q \in DOMAIN b
         /\ q \in DOMAIN a => a[q] = b[q]
  BY DEF SameBut, Get

\* No primitive passes an effect on as it is.
LEMMA ReadsNoEffect ==
  ASSUME NEW kind \in Kinds \ {"repeat"}
  PROVE  PrimitiveReads(kind) \cap Effects \subseteq Gated
  <1> USE DEF PrimitiveReads, Effects, Gated
  <1>1. CASE kind = "stack"
    BY <1>1 DEF StackReads
  <1>2. CASE kind = "grid"
    BY <1>2 DEF GridReads
  <1>3. CASE kind = "frame"
    BY <1>3 DEF FrameReads
  <1>4. CASE kind = "text"
    BY <1>4 DEF TextReads
  <1>5. CASE kind = "image"
    BY <1>5 DEF ImageReads
  <1>6. CASE kind = "shape"
    BY <1>6 DEF ShapeReads
  <1>7. CASE kind = "media"
    BY <1>7 DEF MediaReads
  <1>8. CASE kind = "instance"
    BY <1>8 DEF InstanceReads
  <1>9. CASE kind = "x-zab.capture"
    BY <1>9 DEF CaptureReads
  <1>10. CASE kind = "x-zab.meet-peer"
    BY <1>10 DEF MeetPeerSlotReads
  <1> QED
    BY <1>1, <1>2, <1>3, <1>4, <1>5, <1>6, <1>7, <1>8, <1>9, <1>10 DEF Kinds

\* Nodes that differ in effects only have the same primitive,
LEMMA PrimitiveAlike ==
  ASSUME NEW kind \in Kinds \ {"repeat"}, NEW a, NEW b, NEW hosts, SameBut(a, b, Effects),
         buildShadows(Get(a, "shadow")) = buildShadows(Get(b, "shadow"))
  PROVE  Primitive(kind, a, hosts) = Primitive(kind, b, hosts)
  <1> DEFINE plain(props) == {p \in DOMAIN props : p \in PrimitiveReads(kind) \ Gated}
             shown(props) == [p \in plain(props) |-> props[p]]
  <1>1. \A q : q \notin Effects =>
            /\ Get(a, q) = Get(b, q)
            /\ q \in DOMAIN a <=> q \in DOMAIN b
            /\ q \in DOMAIN a => a[q] = b[q]
    BY SameGet
  <1>2. shown(a) = shown(b)
    <2>1. plain(a) = plain(b) /\ \A p \in plain(a) : a[p] = b[p]
      BY <1>1, ReadsNoEffect
    <2> QED
      BY <2>1
  <1>3. \A q \in {"backgrounds", "fills", "lineHeight", "maxLines", "colour", "paths", "pathData",
                   "src", "peerLabel", "scene_id", "scene_version"} :
            Get(a, q) = Get(b, q) /\ (IsObj(Get(a, q)) => a[q] = b[q])
    <2> SUFFICES ASSUME NEW q \in {"backgrounds", "fills", "lineHeight", "maxLines", "colour", "paths",
                                   "pathData", "src", "peerLabel", "scene_id", "scene_version"}
                 PROVE  Get(a, q) = Get(b, q) /\ (IsObj(Get(a, q)) => a[q] = b[q])
      OBVIOUS
    <2>1. q \notin Effects
      BY DEF Effects
    <2>2. IsObj(Get(a, q)) => q \in DOMAIN a
      BY DEF IsObj, Get, Absent
    <2> QED
      BY <1>1, <2>1, <2>2
  <1>4. parseShapePaths(a) = parseShapePaths(b)
    BY <1>3 DEF parseShapePaths
  <1>5. resolveTypography(a) = resolveTypography(b)
    BY <1>3 DEF resolveTypography
  <1>6. Shows(kind, a, hosts) = Shows(kind, b, hosts)
    <2>1. SourceShown(a, hosts) = SourceShown(b, hosts)
      BY <1>3 DEF SourceShown
    <2> QED
      BY <1>3, <2>1 DEF Shows
  <1> QED
    BY <1>2, <1>3, <1>4, <1>5, <1>6 DEF Primitive

\* What the renderer makes of each effect.
NoiseShown(v) == IF IsObj(v) THEN Obj(GrainOverlay(v.o, FALSE)) ELSE Absent
TextureShown(v) == IF IsObj(v) THEN Obj(GrainOverlay(v.o, TRUE)) ELSE Absent
GlassShown(v) == IF GlassShines(v) THEN Obj(GlassHighlight(v.o)) ELSE Absent
GlassBlur(v) == IF IsObj(v) THEN NumberOr(clampFilterChannel(v.o.radius, BLUR_CAP), 0) ELSE 0
\* Props whose effects come to the same.
EffectsAlike(a, b) ==
    /\ Positive(clampFilterChannel(Get(a, "blur"), BLUR_CAP)) = Positive(clampFilterChannel(Get(b, "blur"), BLUR_CAP))
    /\ NumberOr(clampFilterChannel(Get(a, "backdropBlur"), BLUR_CAP), 0)
          = NumberOr(clampFilterChannel(Get(b, "backdropBlur"), BLUR_CAP), 0)
    /\ buildShadows(Get(a, "shadow")) = buildShadows(Get(b, "shadow"))
    /\ NoiseShown(Get(a, "noise")) = NoiseShown(Get(b, "noise"))
    /\ TextureShown(Get(a, "texture")) = TextureShown(Get(b, "texture"))
    /\ GlassShown(Get(a, "glass")) = GlassShown(Get(b, "glass"))
    /\ GlassBlur(Get(a, "glass")) = GlassBlur(Get(b, "glass"))
    /\ renderedBlendMode(Get(a, "blendMode")) = renderedBlendMode(Get(b, "blendMode"))
    /\ parseMaskSpec(Get(a, "mask")) = parseMaskSpec(Get(b, "mask"))
    /\ maskHoistsBlend(a) = maskHoistsBlend(b)

\* the same boxes around it when their effects come to the same,
LEMMA WrapperAlike ==
  ASSUME NEW kind \in Kinds \ {"repeat"}, NEW a, NEW b, SameBut(a, b, Effects), EffectsAlike(a, b)
  PROVE  UniversalWrapper(UniversalOf(kind, a)) = UniversalWrapper(UniversalOf(kind, b))
  <1> DEFINE u == UniversalOf(kind, a)
             w == UniversalOf(kind, b)
  <1>1. \A q \in {"universal_opacity", "rotation", "flipY", "sizing", "x", "y", "width", "height"} :
            Get(a, q) = Get(b, q)
    BY SameGet DEF Effects
  <1>2. /\ u.opacity = w.opacity /\ u.rotation = w.rotation /\ u.flipY = w.flipY
        /\ u.sizing = w.sizing
    BY <1>1 DEF UniversalOf
  <1>3. u.position = w.position /\ u.size = w.size
    BY <1>1 DEF UniversalOf, extractPosition, extractSize
  <1>4. /\ u.blur = Get(a, "blur") /\ w.blur = Get(b, "blur")
        /\ u.backdropBlur = Get(a, "backdropBlur") /\ w.backdropBlur = Get(b, "backdropBlur")
        /\ u.noise = Get(a, "noise") /\ w.noise = Get(b, "noise")
        /\ u.texture = Get(a, "texture") /\ w.texture = Get(b, "texture")
        /\ u.glass = Get(a, "glass") /\ w.glass = Get(b, "glass")
        /\ u.blendMode = Only(~maskHoistsBlend(a), Get(a, "blendMode"))
        /\ w.blendMode = Only(~maskHoistsBlend(b), Get(b, "blendMode"))
    BY DEF UniversalOf
  <1> HIDE DEF u, w
  <1>5. backdropBlurOf(u) = backdropBlurOf(w)
    BY <1>4 DEF EffectsAlike, backdropBlurOf, GlassBlur
  <1>6. Isolating(u) = Isolating(w)
    BY <1>2, <1>4, <1>5 DEF EffectsAlike, Isolating
  <1>7. EffectOverlays(u) = EffectOverlays(w)
    BY <1>4 DEF EffectsAlike, EffectOverlays, NoiseShown, TextureShown, GlassShown
  <1>8. renderedBlendMode(u.blendMode) = renderedBlendMode(w.blendMode)
    BY <1>4 DEF EffectsAlike, Only
  <1>9. UniversalWrapper(u) = UniversalWrapper(w)
    BY <1>2, <1>3, <1>6, <1>7, <1>8 DEF UniversalWrapper
  <1> QED
    BY <1>9 DEF u, w

\* and then the same painting.
LEMMA PaintedAlike ==
  ASSUME NEW kind \in Kinds \ {"repeat"}, NEW a, NEW b, NEW hosts,
         SameBut(a, b, Effects), EffectsAlike(a, b),
         maskHoistsBlend(a) => a["blendMode"] = b["blendMode"]
  PROVE  Painted(kind, a, hosts) = Painted(kind, b, hosts)
  <1>1. Get(a, "visible") = Get(b, "visible")
    BY SameGet DEF Effects
  <1>2. UniversalWrapper(UniversalOf(kind, a)) = UniversalWrapper(UniversalOf(kind, b))
    BY WrapperAlike
  <1>3. Primitive(kind, a, hosts) = Primitive(kind, b, hosts)
    BY PrimitiveAlike DEF EffectsAlike
  <1>4. /\ parseMaskSpec(Get(a, "mask")) = parseMaskSpec(Get(b, "mask"))
        /\ maskHoistsBlend(a) = maskHoistsBlend(b)
    BY DEF EffectsAlike
  <1> QED
    BY <1>1, <1>2, <1>3, <1>4 DEF Painted

\* The values of an effect the model tells apart: any numbers and strings.
EffectValues(p) ==
    CASE p \in {"noise", "texture"} -> {Obj(e) : e \in Grains}
      [] p = "glass" -> {Obj(e) : e \in Lenses}
      [] p = "shadow" -> {Obj(s) : s \in Seq(Shadows)}
      [] OTHER -> Scalars \cup {Obj(m) : m \in [type : STRING, op : STRING, source : STRING]}
\* The compiler's gate.
Gate(p, v, hosts) == IF Given(v) THEN Lowered(p, v, hosts) ELSE Absent

\* The compiler's gate, the renderer's after it, is the renderer's alone: for each
\* effect and each value, but for the mode the compiler does not have and the mask
\* that takes a blend away.
LEMMA EffectGates ==
  ASSUME NEW p \in Effects, NEW v \in EffectValues(p) \cup {Absent}, NEW hosts,
         NEW a, NEW b, SameBut(a, b, {p}), Get(a, p) = v, Get(b, p) = Gate(p, v, hosts),
         p = "blendMode" => v # Txt("plus-lighter"),
         p = "mask" /\ Given(v) /\ ~Given(lowerMask(v)) => Get(a, "blendMode") = Absent
  PROVE  EffectsAlike(a, b) /\ (maskHoistsBlend(a) => a["blendMode"] = b["blendMode"])
  <1>1. \A q : q # p => Get(a, q) = Get(b, q) /\ (q \in DOMAIN a => a[q] = b[q])
    BY SameGet
  <1>2. \A f : Given(renderedBlendMode(Get(f, "blendMode"))) =>
                  "blendMode" \in DOMAIN f /\ f["blendMode"] = Get(f, "blendMode")
    BY DEF renderedBlendMode, Get, IsTxt, Absent, Given
  <1>3. CASE v = Absent
    <2>1. \A q : Get(a, q) = Get(b, q)
      BY <1>1, <1>3 DEF Gate, Given
    <2> QED
      BY <1>2, <2>1 DEF EffectsAlike, maskHoistsBlend
  <1>4. CASE v # Absent
    <2>0. v \in EffectValues(p) /\ Get(b, p) = Lowered(p, v, hosts)
      BY <1>4 DEF Gate, Given
    <2>1. CASE p \in {"blur", "backdropBlur"}
      <3>1. Get(b, p) = SoftMagnitude(v, MAX_STATIC_BLUR_PX)
        BY <2>0, <2>1 DEF Lowered
      <3>2. /\ Positive(clampFilterChannel(Get(a, p), BLUR_CAP)) = Positive(clampFilterChannel(Get(b, p), BLUR_CAP))
            /\ NumberOr(clampFilterChannel(Get(a, p), BLUR_CAP), 0)
                  = NumberOr(clampFilterChannel(Get(b, p), BLUR_CAP), 0)
        <4>1. CASE v \in Scalars
          BY <3>1, <4>1, BlurGates
        <4>2. CASE v \in {Obj(m) : m \in [type : STRING, op : STRING, source : STRING]}
          BY <3>1, <4>2 DEF Obj, SoftMagnitude, clampFilterChannel, Positive, NumberOr, IsNum, IsNegZero, Num,
                            Absent, BLUR_CAP, One, Clamp
        <4> QED
          BY <2>0, <2>1, <4>1, <4>2 DEF EffectValues
      <3> QED
        BY <1>1, <1>2, <2>1, <3>2 DEF EffectsAlike, maskHoistsBlend
    <2>7. CASE p = "shadow"
      <3>1. PICK s \in Seq(Shadows) : v = Obj(s)
        BY <2>0, <2>7 DEF EffectValues
      <3>2. Get(b, p) = Obj(lowerStaticShadow(s))
        BY <2>0, <2>7, <3>1 DEF Lowered, Obj
      <3>3. buildShadows(Get(a, p)) = buildShadows(Get(b, p))
        BY <3>1, <3>2, ShadowGate
      <3> QED
        BY <1>1, <1>2, <2>7, <3>3 DEF EffectsAlike, maskHoistsBlend
    <2>2. CASE p = "noise"
      <3>1. PICK e \in Grains : v = Obj(e)
        BY <2>0, <2>2 DEF EffectValues
      <3>2. Get(b, p) = Obj(lowerStaticNoise(e))
        BY <2>0, <2>2, <3>1 DEF Lowered, Obj
      <3>3. NoiseShown(Get(a, p)) = NoiseShown(Get(b, p))
        <4>1. \A x : IsObj(Obj(x)) /\ Obj(x).o = x
          BY DEF IsObj, Obj
        <4>2. GrainOverlay(lowerStaticNoise(e), FALSE) = GrainOverlay(e, FALSE)
          BY NoiseGate
        <4> QED
          BY <3>1, <3>2, <4>1, <4>2 DEF NoiseShown
      <3> QED
        BY <1>1, <1>2, <2>2, <3>3 DEF EffectsAlike, maskHoistsBlend
    <2>3. CASE p = "texture"
      <3>1. PICK e \in Grains : v = Obj(e)
        BY <2>0, <2>3 DEF EffectValues
      <3>2. Get(b, p) = Obj(lowerStaticTexture(e))
        BY <2>0, <2>3, <3>1 DEF Lowered, Obj
      <3>3. TextureShown(Get(a, p)) = TextureShown(Get(b, p))
        <4>1. \A x : IsObj(Obj(x)) /\ Obj(x).o = x
          BY DEF IsObj, Obj
        <4>2. GrainOverlay(lowerStaticTexture(e), TRUE) = GrainOverlay(e, TRUE)
          BY TextureGate
        <4> QED
          BY <3>1, <3>2, <4>1, <4>2 DEF TextureShown
      <3> QED
        BY <1>1, <1>2, <2>3, <3>3 DEF EffectsAlike, maskHoistsBlend
    <2>4. CASE p = "glass"
      <3>1. PICK e \in Lenses : v = Obj(e)
        BY <2>0, <2>4 DEF EffectValues
      <3>2. Get(b, p) = Obj(lowerStaticGlass(e))
        BY <2>0, <2>4, <3>1 DEF Lowered, Obj
      <3>3. /\ GlassShown(Get(a, p)) = GlassShown(Get(b, p))
            /\ GlassBlur(Get(a, p)) = GlassBlur(Get(b, p))
        BY <3>1, <3>2, GlassGate DEF GlassShown, GlassShines, GlassBlur, IsObj, Obj
      <3> QED
        BY <1>1, <1>2, <2>4, <3>3 DEF EffectsAlike, maskHoistsBlend
    <2>5. CASE p = "blendMode"
      <3>1. Get(b, p) = parseBlendMode(v)
        BY <2>0, <2>5 DEF Lowered
      <3>2. IsTxt(v) => v = Txt(v.s)
        <4>1. v \in {Num(n) : n \in Int} \cup {NegZero} \cup {Txt(s) : s \in STRING}
                     \cup {Obj(m) : m \in [type : STRING, op : STRING, source : STRING]}
          BY <2>0, <2>5 DEF EffectValues, Scalars, Numbers
        <4> QED
          BY <4>1 DEF IsTxt, Txt, Num, NegZero, Obj
      <3>3. /\ renderedBlendMode(parseBlendMode(v)) = renderedBlendMode(v)
            /\ Given(renderedBlendMode(v)) => parseBlendMode(v) = v
        BY <2>5, <3>2 DEF renderedBlendMode, parseBlendMode, RENDERED_BLEND_MODES, BLEND_MODES, Given, IsTxt, Absent
      <3> QED
        BY <1>1, <1>2, <2>5, <3>1, <3>3 DEF EffectsAlike, maskHoistsBlend
    <2>6. CASE p = "mask"
      <3>1. Get(b, p) = lowerMask(v)
        BY <2>0, <2>6 DEF Lowered
      <3>2. parseMaskSpec(lowerMask(v)) = parseMaskSpec(v)
        BY DEF parseMaskSpec, lowerMask, TypedMask, MASK_TYPES, MASK_OPS, IsObj, Absent
      <3>3. Given(lowerMask(v)) => lowerMask(v) = v
        BY DEF lowerMask, Given
      <3>4. ~Given(lowerMask(v)) => ~Given(renderedBlendMode(Get(a, "blendMode")))
        BY <1>4, <2>6 DEF renderedBlendMode, IsTxt, Absent, Given
      <3>5. maskHoistsBlend(a) = maskHoistsBlend(b)
        BY <1>1, <2>6, <3>1, <3>3, <3>4 DEF maskHoistsBlend
      <3> QED
        BY <1>1, <1>2, <2>6, <3>1, <3>2, <3>5 DEF EffectsAlike, maskHoistsBlend
    <2> QED
      BY <2>1, <2>2, <2>3, <2>4, <2>5, <2>6, <2>7 DEF Effects
  <1> QED
    BY <1>3, <1>4

-----------------------------------------------------------------------------
\* An effect is one prop of one key, of its own name.
LEMMA EffectKey ==
  ASSUME NEW kind \in Kinds \ {"repeat"}, NEW p \in Effects
  PROVE  /\ p \in DOMAIN Emits(kind) /\ Emits(kind)[p] = {p}
         /\ \A key \in DOMAIN Emits(kind) : p \in Emits(kind)[key] => key = p
  <1>1. /\ UniversalLowers \subseteq DOMAIN Emits(kind)
        /\ \A key \in DOMAIN Emits(kind) : Emits(kind)[key] = PropsOf(key)
    BY DEF Emits
  <1>2. Effects \subseteq UniversalLowers
    BY DEF Effects, UniversalLowers
  <1>3. PropsOf(p) = {p}
    BY DEF PropsOf, mapTextStyle, Effects
  <1>4. ASSUME NEW key, p \in PropsOf(key) PROVE key = p
    BY <1>4 DEF PropsOf, mapTextStyle, Effects
  <1> QED
    BY <1>1, <1>2, <1>3, <1>4

\* The key a prop is compiled from.
SourceAmong(keys) == CHOOSE key \in keys : TRUE
KeysOf(d, q, hosts) == {key \in KeptKeys(d, hosts) : q \in Emits(d.kind)[key]}

\* Each prop of a compiled node comes of a key that was kept.
LEMMA NodeProps ==
  ASSUME NEW d, NEW hosts
  PROVE  LET props == compileNode(d, hosts).props
         IN  /\ \A q : q \in DOMAIN props <=> KeysOf(d, q, hosts) # {}
             /\ \A q \in DOMAIN props :
                   LET key == SourceAmong(KeysOf(d, q, hosts))
                   IN  key \in KeysOf(d, q, hosts) /\ props[q] = Component(key, q, LoweredValue(d, key, hosts))
  <1> DEFINE props == compileNode(d, hosts).props
             kept == KeptKeys(d, hosts)
  <1>1. props = [q \in UNION {Emits(d.kind)[key] : key \in kept} |->
                    Component(SourceAmong(KeysOf(d, q, hosts)), q,
                              LoweredValue(d, SourceAmong(KeysOf(d, q, hosts)), hosts))]
    BY DEF compileNode, SourceAmong, KeysOf
  <1>2. \A q : q \in UNION {Emits(d.kind)[key] : key \in kept} <=> KeysOf(d, q, hosts) # {}
    BY DEF KeysOf
  <1>3. \A keys : keys # {} => SourceAmong(keys) \in keys
    BY DEF SourceAmong
  <1> QED
    BY <1>1, <1>2, <1>3

\* Documents that differ in an effect are compiled to props that differ in it.
LEMMA RestAlike ==
  ASSUME NEW d, NEW e, NEW hosts, NEW p \in Effects, d.kind \in Kinds \ {"repeat"}, d.kind = e.kind,
         SameBut(d.given, e.given, {p})
  PROVE  SameBut(compileNode(d, hosts).props, compileNode(e, hosts).props, {p})
  <1> DEFINE a == compileNode(d, hosts).props
             b == compileNode(e, hosts).props
  <1>1. ASSUME NEW key, key # p
        PROVE  /\ key \in DOMAIN d.given <=> key \in DOMAIN e.given
               /\ key \in DOMAIN d.given => LoweredValue(d, key, hosts) = LoweredValue(e, key, hosts)
    BY <1>1, SameGet DEF LoweredValue
  <1>2. ASSUME NEW q, q # p PROVE KeysOf(d, q, hosts) = KeysOf(e, q, hosts)
    <2>1. ASSUME NEW key \in DOMAIN Emits(d.kind), q \in Emits(d.kind)[key] PROVE key # p
      BY <1>2, <2>1, EffectKey
    <2> QED
      BY <1>1, <2>1 DEF KeysOf, KeptKeys, LoweredKeys
  <1>3. ASSUME NEW q \in DOMAIN a, q # p PROVE a[q] = b[q]
    <2> DEFINE key == SourceAmong(KeysOf(d, q, hosts))
    <2>1. q \in DOMAIN b
      BY <1>2, <1>3, NodeProps
    <2>2. key \in KeysOf(d, q, hosts) /\ a[q] = Component(key, q, LoweredValue(d, key, hosts))
      BY <1>3, NodeProps
    <2>3. b[q] = Component(key, q, LoweredValue(e, key, hosts))
      BY <1>2, <1>3, <2>1, NodeProps
    <2>4. key # p /\ key \in DOMAIN d.given
      BY <1>3, <2>2, EffectKey DEF KeysOf, KeptKeys, LoweredKeys
    <2> QED
      BY <1>1, <2>2, <2>3, <2>4
  <1>4. \A q : q # p => (q \in DOMAIN a <=> q \in DOMAIN b)
    BY <1>2, NodeProps
  <1> QED
    BY <1>3, <1>4 DEF SameBut

\* What an effect is compiled to.
LEMMA EffectCompiled ==
  ASSUME NEW d, NEW hosts, NEW p \in Effects, d.kind \in Kinds \ {"repeat"}
  PROVE  Get(compileNode(d, hosts).props, p) =
            IF p \in DOMAIN d.given THEN Lowered(p, d.given[p], hosts) ELSE Absent
  <1> DEFINE props == compileNode(d, hosts).props
  <1>1. LoweredValue(d, p, hosts) = Lowered(p, d.given[p], hosts)
    BY DEF LoweredValue, Renamed, Effects
  <1>2. p \in KeptKeys(d, hosts) <=> p \in DOMAIN d.given /\ Given(LoweredValue(d, p, hosts))
    BY EffectKey DEF KeptKeys, LoweredKeys
  <1>3. KeysOf(d, p, hosts) = KeptKeys(d, hosts) \cap {p}
    BY EffectKey DEF KeysOf, KeptKeys, LoweredKeys
  <1>4. CASE p \in KeptKeys(d, hosts)
    <2>1. p \in DOMAIN props
      BY <1>3, <1>4, NodeProps
    <2>2. props[p] = Component(p, p, LoweredValue(d, p, hosts))
      BY <1>3, <2>1, NodeProps
    <2>3. props[p] = LoweredValue(d, p, hosts)
      BY <2>2 DEF Component, Pairs, Effects
    <2> QED
      BY <1>1, <1>2, <1>4, <2>1, <2>3 DEF Get
  <1>5. CASE p \notin KeptKeys(d, hosts)
    <2>1. p \notin DOMAIN props
      BY <1>3, <1>5, NodeProps
    <2> QED
      BY <1>1, <1>2, <1>5, <2>1 DEF Get, Given
  <1> QED
    BY <1>4, <1>5

\* A compiled prop is there: pairs are whole.
LEMMA CompiledIsGiven ==
  ASSUME NEW d, NEW hosts, d.kind \in Kinds,
         \A key \in DOMAIN d.given \cap Pairs : \A p \in PropsOf(key) : Given(d.given[key].o[p]),
         NEW q \in DOMAIN compileNode(d, hosts).props
  PROVE  Given(compileNode(d, hosts).props[q])
  <1> DEFINE key == SourceAmong(KeysOf(d, q, hosts))
  <1>1. /\ key \in KeysOf(d, q, hosts)
        /\ compileNode(d, hosts).props[q] = Component(key, q, LoweredValue(d, key, hosts))
    BY NodeProps
  <1>2. /\ key \in DOMAIN d.given /\ q \in PropsOf(key)
        /\ Given(LoweredValue(d, key, hosts))
    BY <1>1 DEF KeysOf, KeptKeys, LoweredKeys, Emits
  <1> HIDE DEF key
  <1>3. CASE key \in Pairs
    <2>1. LoweredValue(d, key, hosts) = d.given[key]
      BY <1>3 DEF LoweredValue, Lowered, Renamed, Pairs
    <2> QED
      BY <1>1, <1>2, <1>3, <2>1 DEF Component, Pairs
  <1>4. CASE key \notin Pairs
    BY <1>1, <1>2, <1>4 DEF Component, Pairs
  <1> QED
    BY <1>3, <1>4

\* The authored document gives the prop what came live, and is the rest as it was.
LEMMA AuthoredDocument ==
  ASSUME DocumentsAssumption, doc \in Documents, NEW p, NEW v
  PROVE  LET d == AuthoredWith(p, v)
         IN  /\ d.kind = doc.kind /\ SameBut(d.given, doc.given, {p})
             /\ p \in DOMAIN d.given <=> Given(v)
             /\ Given(v) => d.given[p] = v
  <1> DEFINE d == AuthoredWith(p, v)
             keys == (DOMAIN doc.given \ {p}) \cup (IF Given(v) THEN {p} ELSE {})
  <1>1. DOMAIN doc = {"lsml", "profile", "kind", "given", "bound", "anim", "animated"}
    BY DEF DocumentsAssumption
  <1>2. /\ d.kind = doc.kind
        /\ d.given = [key \in keys |-> IF key = p THEN v ELSE doc.given[key]]
    BY <1>1 DEF AuthoredWith
  <1> QED
    BY <1>2 DEF SameBut

\* What is resolved of a mounted node that binds one prop.
LEMMA ResolvedNode ==
  ASSUME NEW p, node.bindings = {p}, \A q \in DOMAIN node.props : Given(node.props[q])
  PROVE  SameBut(resolveProps, node.props, {p}) /\ Get(resolveProps, p) = leaf[p]
  <1>1. DOMAIN node.props \cup node.bindings = DOMAIN node.props \cup {p}
    OBVIOUS
  <1> DEFINE f == [q \in DOMAIN node.props \cup node.bindings |->
                      IF q \in node.bindings THEN leaf[q] ELSE node.props[q]]
  <1>2. resolveProps = [q \in {x \in DOMAIN f : Given(f[x])} |-> f[q]]
    BY DEF resolveProps, Style
  <1> QED
    BY <1>2 DEF SameBut, Get, Given

\* A value of a leaf that one of the eight effects is bound to - blur, backdropBlur, shadow,
\* noise, texture, glass, blendMode, mask - whatever number or string it is: what
\* it paints is what a document that gives it is painted as, with the known
\* differences.  LiveIsAuthored, of nodes that bind one effect.
EffectsAreAuthored ==
    phase = "mounted" => \A p \in Effects : node.bindings = {p} => PaintsAsAuthored(p)
\* EffectsAreAuthored, for any documents and any such values, from NodeInv: the node is
\* what its document compiles to, and its leaf what was published.
THEOREM PageEffectsAreAuthored ==
  ASSUME \A p \in Effects : Published(p) \subseteq EffectValues(p)
  PROVE  NodeSpec => []EffectsAreAuthored
  <1> USE DocumentsAssumption
  <1>1. NodeInv => EffectsAreAuthored
    <2> SUFFICES ASSUME NodeInv, phase = "mounted", NEW p \in Effects, node.bindings = {p},
                        ~RendererOnlyBlend(p, leaf[p]), ~MaskEatsBlend(p, leaf[p])
                 PROVE  Painted(doc.kind, resolveProps, AllowedHosts)
                          = Painted(doc.kind, compileNode(AuthoredWith(p, leaf[p]), AllowedHosts).props, AllowedHosts)
      BY DEF EffectsAreAuthored, PaintsAsAuthored
    <2> DEFINE v == leaf[p]
               d == AuthoredWith(p, v)
               a == resolveProps
               b == compileNode(d, AllowedHosts).props
    <2>1. /\ doc \in Documents /\ Compilable(doc) /\ node = compileNode(doc, AllowedHosts)
          /\ v \in EffectValues(p) \cup {Absent}
      BY DEF NodeInv
    <2>2. doc.kind \in Kinds \ {"repeat"}
      <3>1. doc.kind \in Kinds /\ doc.bound = {p}
        BY <2>1 DEF DocumentsAssumption, compileNode
      <3>2. doc.kind # "repeat"
        BY <2>1, <3>1 DEF Compilable, Refused, KindRefused, RepeatRefused, Effects
      <3> QED
        BY <3>1, <3>2
    <2>3. /\ d.kind = doc.kind /\ SameBut(d.given, doc.given, {p})
          /\ p \in DOMAIN d.given <=> Given(v)
          /\ Given(v) => d.given[p] = v
      BY <2>1, AuthoredDocument
    <2>4. SameBut(b, node.props, {p})
      BY <2>1, <2>2, <2>3, RestAlike
    <2>5. SameBut(a, node.props, {p}) /\ Get(a, p) = v
      <3>1. \A q \in DOMAIN node.props : Given(node.props[q])
        BY <2>1, <2>2, CompiledIsGiven DEF DocumentsAssumption
      <3> QED
        BY <3>1, ResolvedNode
    <2>6. SameBut(a, b, {p})
      BY <2>4, <2>5 DEF SameBut
    <2>7. Get(b, p) = Gate(p, v, AllowedHosts)
      BY <2>2, <2>3, EffectCompiled DEF Gate
    <2>8. p = "blendMode" => v # Txt("plus-lighter")
      BY DEF RendererOnlyBlend
    <2>9. p = "mask" /\ Given(v) /\ ~Given(lowerMask(v)) => Get(a, "blendMode") = Absent
      <3> SUFFICES ASSUME p = "mask", Given(v), ~Given(lowerMask(v)) PROVE Get(a, "blendMode") = Absent
        OBVIOUS
      <3>1. ~Given(Get(doc.given, "blendMode"))
        BY DEF MaskEatsBlend
      <3>2. Get(node.props, "blendMode") = Absent
        <4>1. Get(node.props, "blendMode") =
                 IF "blendMode" \in DOMAIN doc.given
                 THEN Lowered("blendMode", doc.given["blendMode"], AllowedHosts) ELSE Absent
          BY <2>1, <2>2, EffectCompiled DEF Effects
        <4>2. Lowered("blendMode", Absent, AllowedHosts) = Absent
          BY DEF Lowered, parseBlendMode, IsTxt, Absent
        <4> QED
          BY <3>1, <4>1, <4>2 DEF Get, Given
      <3>3. Get(a, "blendMode") = Get(node.props, "blendMode")
        BY <2>5, SameGet
      <3> QED
        BY <3>2, <3>3
    <2>10. EffectsAlike(a, b) /\ (maskHoistsBlend(a) => a["blendMode"] = b["blendMode"])
      BY <2>1, <2>5, <2>6, <2>7, <2>8, <2>9, EffectGates
    <2>11. SameBut(a, b, Effects)
      BY <2>6 DEF SameBut
    <2> QED
      BY <2>2, <2>10, <2>11, PaintedAlike
  <1> QED
    BY <1>1, NodeInvInit, NodeInvStep, PTL DEF NodeSpec
=============================================================================
