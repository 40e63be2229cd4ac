------------------------------- MODULE Mount -------------------------------
(***************************************************************************)
(* What a mounted runtime does with the frames its transport hands over    *)
(* (packages/runtime/src/mount.ts): the leaf store, the bundle fetcher     *)
(* (render/bundle.ts) with its cache and its shared requests, the roster   *)
(* warm-up, and the reserved camera leaves surfaced to the host            *)
(* (state/reserved-leaves.ts).                                             *)
(*                                                                         *)
(* A delta is applied when it arrives.  A snapshot is applied when its     *)
(* bundle is at hand: at once if the bundle is cached, else when the       *)
(* request for it ends.  The continuations of a fetch - cache it, clear    *)
(* its in-flight entry, resume its waiters in order - are microtasks of    *)
(* one task, so no frame comes in between and each end is one step.        *)
(*                                                                         *)
(* A scene version stands for its scene too, and the n-th frame writes the *)
(* value n: values are only copied.  Value 0 is a blank, the value a delta *)
(* unbinds a camera slot with.                                             *)
(***************************************************************************)
EXTENDS LeafStore, Naturals, Sequences

CONSTANTS
    Versions,       \* scene versions, the keys of bundles
    CamPaths,       \* the reserved paths, __cam.*
    Ease,           \* a transition directive
    FetchesFail,    \* whether a bundle request may fail
    MaxFrames       \* bound on the frames received, for model checking

ASSUME MountAssumption ==
    /\ None \notin Versions
    /\ None \notin Nat
    /\ CamPaths \subseteq Paths
    /\ FetchesFail \in BOOLEAN
    /\ MaxFrames \in Nat

VARIABLES
    store,          \* the leaf store
    painted,        \* the version in bundleSignal and in crossfadeKeySignal
    cached,         \* the versions in the fetcher's cache
    inFlight,       \* the keys of the fetcher's inFlight map
    requests,       \* how many GETs for a version's bundle are outstanding
    waiting,        \* the states of the snapshots that wait for a version
    warmed,         \* warmedVersions
    raw,            \* the reserved leaves as last received
    told,           \* what the host was last told of them
    active,
    \* Not in the code: what the stream says, and the frames so far.
    stream,         \* the scene's state after every frame received
    received,       \* how many frames were received
    disturbed       \* a frame came while a snapshot waited, or one was dropped

fetcher == <<cached, inFlight, requests>>
view == <<store, painted>>
cam == <<raw, told>>
history == <<stream, received, disturbed>>

vars == <<view, fetcher, waiting, warmed, cam, active, history>>

\* A leaf's value is the number of the frame that wrote it, or blank.
LeafValues == 0 .. MaxFrames

Leaves(P) == [P -> LeafValues \cup {None}]

\* The states of snapshots.
States == UNION { [P -> LeafValues] : P \in SUBSET Paths }

TypeOK ==
    /\ store \in [values : Leaves(Paths), directives : [Paths -> {Ease, None}]]
    /\ painted \in Versions \cup {None}
    /\ cached \subseteq Versions /\ inFlight \subseteq Versions
    /\ warmed \subseteq Versions
    /\ requests \in [Versions -> Nat]
    /\ waiting \in [Versions -> Seq(States)]
    /\ raw \in Leaves(CamPaths)
    /\ told \in Leaves(CamPaths)
    /\ active \in BOOLEAN
    /\ stream \in [version : Versions \cup {None}, values : Leaves(Paths)]
    /\ received \in 0 .. MaxFrames
    /\ disturbed \in BOOLEAN
-----------------------------------------------------------------------------
(***************************************************************************)
(* The bundle fetcher                                                      *)
(***************************************************************************)

\* Fault: get() does not look for a request in flight.
UnfetchedUnshared(versions) == versions \ cached

\* The versions of which get() starts a request: neither cached nor in
\* flight.  Any other call is served from the cache or shares the request.
Unfetched(versions) == versions \ (cached \cup inFlight)

\* get() for each of these versions.
Gets(versions) ==
    /\ inFlight' = inFlight \cup Unfetched(versions)
    /\ requests' = [v \in Versions |->
           IF v \in Unfetched(versions) THEN requests[v] + 1 ELSE requests[v]]
    /\ UNCHANGED cached

\* Fault: the in-flight entry outlives its request.
EndsUncleared(v) ==
    /\ requests[v] > 0
    /\ requests' = [requests EXCEPT ![v] = @ - 1]
    /\ UNCHANGED inFlight

\* A request of version v ends: its in-flight entry is cleared.
Ends(v) ==
    /\ requests[v] > 0
    /\ requests' = [requests EXCEPT ![v] = @ - 1]
    /\ inFlight' = inFlight \ {v}

Awaited == \E v \in Versions : waiting[v] # <<>>
-----------------------------------------------------------------------------
(***************************************************************************)
(* The reserved camera leaves                                              *)
(***************************************************************************)

\* project: a blank leaf, or none, is not shown to the host.
Project(leaves) ==
    [p \in CamPaths |-> IF leaves[p] = 0 THEN None ELSE leaves[p]]

Surfaced == told' = Project(raw')

\* Fault: a snapshot is merged into the reserved leaves.
CamSnapshotMerged(state) ==
    /\ raw' = [p \in CamPaths |-> IF p \in DOMAIN state THEN state[p] ELSE raw[p]]
    /\ Surfaced

\* The observer's onSnapshot: reseeded, leaves not present are dropped.
CamSnapshot(state) ==
    /\ raw' = [p \in CamPaths |-> Leaf(state, p)]
    /\ Surfaced

\* The observer's onDelta.
CamDelta(patches) ==
    /\ raw' = [p \in CamPaths |->
           IF p \in DOMAIN patches THEN patches[p].value ELSE raw[p]]
    /\ Surfaced
-----------------------------------------------------------------------------
(***************************************************************************)
(* Frames, requests and the host                                           *)
(***************************************************************************)

\* warmRoster: get() for every version that is neither painted nor warmed.
Fresh(roster) == roster \ (warmed \cup {painted})

WarmRoster(roster) ==
    /\ warmed' = warmed \cup Fresh(roster)
    /\ Gets(Fresh(roster))

\* mount(), up to and including the warm-up of the preloadRoster option.
Init ==
    /\ store = EmptyStore /\ painted = None
    /\ cached = {} /\ waiting = [v \in Versions |-> <<>>]
    /\ warmed \in SUBSET Versions
    /\ inFlight = warmed
    /\ requests = [v \in Versions |-> IF v \in warmed THEN 1 ELSE 0]
    /\ raw = [p \in CamPaths |-> None]
    /\ told = [p \in CamPaths |-> None]
    /\ active = TRUE
    /\ stream = [version |-> None, values |-> EmptyStore.values]
    /\ received = 0 /\ disturbed = FALSE

\* A frame arrives, and what the stream says is now this.
Received(said) ==
    /\ active
    /\ received < MaxFrames
    /\ received' = received + 1
    /\ stream' = said
    /\ disturbed' = (disturbed \/ Awaited)

\* Fault: a cached bundle is painted without its snapshot's state.
SnapshotHitUnseeded(v, state) ==
    /\ v \in cached
    /\ painted' = v
    /\ UNCHANGED <<store, fetcher, waiting>>

\* onSnapshot, when the bundle is cached: get() resolves within the task.
SnapshotHit(v, state) ==
    /\ v \in cached
    /\ store' = Reset(store, state)
    /\ painted' = v
    /\ UNCHANGED <<fetcher, waiting>>

\* onSnapshot, when it is not: the snapshot waits for the request.
SnapshotMiss(v, state) ==
    /\ v \notin cached
    /\ waiting' = [waiting EXCEPT ![v] = Append(@, state)]
    /\ Gets({v})
    /\ UNCHANGED view

OnSnapshot ==
    \E v \in Versions, P \in SUBSET Paths :
        LET state == [p \in P |-> received + 1] IN
        /\ Received([version |-> v, values |-> Restored(state)])
        /\ CamSnapshot(state)
        /\ \/ SnapshotHit(v, state)
           \/ SnapshotMiss(v, state)
        /\ UNCHANGED <<warmed, active>>

\* onDelta: applied to the store whether or not a snapshot waits.
OnDelta ==
    \E P \in SUBSET Paths \ {{}}, value \in {0, received + 1}, t \in {Ease, None} :
        LET patches == [p \in P |-> [value |-> value, transition |-> t]] IN
        /\ stream.version # None
        /\ Received([stream EXCEPT !.values = Written(@, patches)])
        /\ store' = Patched(store, patches)
        /\ CamDelta(patches)
        /\ UNCHANGED <<painted, fetcher, waiting, warmed, active>>

\* onSceneRoster.
OnSceneRoster ==
    \E roster \in SUBSET Versions \ {{}} :
        /\ active
        /\ Fresh(roster) # {}
        /\ WarmRoster(roster)
        /\ UNCHANGED <<view, waiting, cam, active, history>>

\* The continuations of the snapshots that wait, in turn: each resets the store.
ResetInTurn(states) ==
    LET after[n \in 0 .. Len(states)] ==
            IF n = 0 THEN store ELSE Reset(after[n - 1], states[n])
    IN  after[Len(states)]

\* Fault: disconnect() is not looked at when a bundle arrives.
AppliedAnyway(v) ==
    IF waiting[v] # <<>>
    THEN store' = ResetInTurn(waiting[v]) /\ painted' = v
    ELSE UNCHANGED view

\* The snapshots that wait for v are applied in their order, unless the host
\* has disconnected.
Applied(v) ==
    IF active /\ waiting[v] # <<>>
    THEN store' = ResetInTurn(waiting[v]) /\ painted' = v
    ELSE UNCHANGED view

\* A request answers with the bundle asked for, of supported profiles: it is
\* cached and its waiters resume.
FetchEnds(v) ==
    /\ Ends(v)
    /\ cached' = cached \cup {v}
    /\ Applied(v)
    /\ waiting' = [waiting EXCEPT ![v] = <<>>]
    /\ UNCHANGED <<warmed, cam, active, history>>

\* Fault: a failed warm-up is never tried again.
ReleasedNever(v) == warmed

\* The catch of a warm-up: a later roster may warm the version again.
Released(v) == warmed \ {v}

\* A request fails: no token, no answer, a status that is not ok, another
\* version's bundle, or a profile the runtime does not support.  The
\* snapshots that wait are dropped.
FetchFails(v) ==
    /\ FetchesFail
    /\ Ends(v)
    /\ waiting' = [waiting EXCEPT ![v] = <<>>]
    /\ warmed' = Released(v)
    /\ disturbed' = (disturbed \/ waiting[v] # <<>>)
    /\ UNCHANGED <<cached, view, cam, active, stream, received>>

\* disconnect().
Disconnect ==
    /\ active
    /\ active' = FALSE
    /\ UNCHANGED <<view, fetcher, waiting, warmed, cam, history>>

Next ==
    \/ OnSnapshot \/ OnDelta \/ OnSceneRoster
    \/ \E v \in Versions : FetchEnds(v) \/ FetchFails(v)
    \/ Disconnect

Spec == Init /\ [][Next]_vars
-----------------------------------------------------------------------------
(***************************************************************************)
(* Properties                                                              *)
(***************************************************************************)

\* A bundle is fetched once: snapshots and rosters that ask for it together
\* share a request, and none is started once it is cached.
OneRequestPerBundle ==
    \A v \in Versions : requests[v] = IF v \in inFlight \ cached THEN 1 ELSE 0

\* No snapshot waits for a request that has ended: each is either applied or
\* dropped with an error when its bundle's request does.
EveryWaitIsServed ==
    \A v \in Versions : waiting[v] # <<>> => requests[v] > 0

\* A warmed version is cached or on its way: a failed warm-up leaves the
\* version to be warmed by the next roster, so the first switch to a scene
\* that stays on the roster does not go on missing the cache.
WarmedIsUnderWay == \A v \in warmed : v \in cached \/ requests[v] > 0

\* The host's idea of the camera slots is the stream's at every moment, also
\* while a snapshot waits for its bundle and whatever else is on the stream.
CamLeavesFollowStream == told = Project(stream.values)

\* As long as every snapshot's bundle is at hand before the next frame comes,
\* what is painted is what the stream says.
UndisturbedViewIsStream ==
    ~disturbed /\ ~Awaited /\ active =>
        store.values = stream.values /\ painted = stream.version

\* A bundle that arrives after disconnect() changes nothing on the screen.
QuietAfterDisconnect == [][~active => UNCHANGED <<view, cam>>]_vars

\* Once no snapshot waits, the newest one's scene is painted: the claim of
\* mount.ts:106, "the fresh snapshot that follows is the source of truth".
FreshSnapshotIsTruth == ~Awaited /\ active => painted = stream.version
=============================================================================
