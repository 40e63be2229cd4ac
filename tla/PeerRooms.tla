------------------------------ MODULE PeerRooms ------------------------------
(***************************************************************************)
(* webrtc/index.ts over peer-stream-registry.ts: several rooms, one        *)
(* MeetViewer each, feed one registry keyed by the label a peer announces. *)
(* The first room to connect a label owns it.  Closing a room only asks    *)
(* its socket to close: until it has, its connections still report tracks  *)
(* and failures, while the room may already be open again.                 *)
(***************************************************************************)
EXTENDS Naturals, Sequences, FiniteSets, Functions

CONSTANTS Rooms, Peers,
          labelKey(_),    \* the normalised name of a peer
          MaxMeshes       \* bound: viewers made

ASSUME RoomsAssumption == IsFiniteSet(Rooms)

VARIABLES
    viewers,   \* sequence of the MeetViewers made: [room, at]; at: joining, open, leaving, closed
    meshes,    \* room -> its viewer
    present,   \* external: present[p]: the room p publishes in, or NoRoom
    remotes,   \* <<viewer, peer>>: the connections that have reported a track, and live
    registry,  \* label -> <<viewer, peer>>: whose stream it resolves to
    owners,    \* label -> viewer
    disputed   \* for the properties: labels whose case is known to go wrong
roomVars == <<viewers, meshes, present, remotes, registry, owners, disputed>>

NoRoom == "none"
RoomsInit ==
    /\ viewers = <<>> /\ meshes = <<>> /\ present = [p \in Peers |-> NoRoom]
    /\ remotes = {} /\ registry = <<>> /\ owners = <<>> /\ disputed = {}

OwnedBy(gone) == {l \in DOMAIN owners : owners[l] \in gone}
With(f, key, x) == [k \in DOMAIN f \cup {key} |-> IF k = key THEN x ELSE f[k]]
Without(f, keys) == Restrict(f, DOMAIN f \ keys)
\* leave(): the socket is asked to close; the connections live until it has.
AfterLeave == [joining |-> "closed", open |-> "leaving", leaving |-> "leaving", closed |-> "closed"]
Left(gone) == [v \in DOMAIN viewers |->
    IF v \in gone THEN [viewers[v] EXCEPT !.at = AfterLeave[@]] ELSE viewers[v]]

\* setRooms: what is no longer named is closed and its labels are released, what is
\* new is opened and joined; an unchanged room keeps its viewer, whatever its state.
SetRooms(next) ==
    LET gone == {meshes[r] : r \in DOMAIN meshes \ next}
    IN  \E added \in [1..Cardinality(next \ DOMAIN meshes) -> next \ DOMAIN meshes] :
        /\ IsInjective(added) /\ Len(viewers) + Len(added) <= MaxMeshes
        /\ viewers' = Left(gone) \o [i \in DOMAIN added |-> [room |-> added[i], at |-> "joining"]]
        /\ meshes' = [r \in next |-> IF r \in DOMAIN meshes THEN meshes[r]
                                     ELSE Len(viewers) + CHOOSE i \in DOMAIN added : added[i] = r]
        /\ registry' = Without(registry, OwnedBy(gone))
        /\ owners' = Without(owners, OwnedBy(gone))
        /\ UNCHANGED <<present, remotes, disputed>>
\* leave(): every room is closed, and the registry is cleared.
LeaveRooms ==
    LET gone == Range(meshes)
    IN  /\ meshes # <<>> /\ meshes' = <<>> /\ viewers' = Left(gone)
        /\ registry' = <<>> /\ owners' = Without(owners, OwnedBy(gone))
        /\ UNCHANGED <<present, remotes, disputed>>

MeshOpens(v) ==
    /\ viewers[v].at = "joining"
    /\ viewers' = [viewers EXCEPT ![v].at = "open"]
    /\ UNCHANGED <<meshes, present, remotes, registry, owners, disputed>>
\* The socket ends: tearDown closes the connections, and no event says so.  When the
\* room was not closed by the host its labels stay owned, and resolve to dead streams.
SocketEnds(v) ==
    /\ viewers[v].at # "closed"
    /\ viewers' = [viewers EXCEPT ![v].at = "closed"]
    /\ remotes' = {c \in remotes : c[1] # v}
    /\ disputed' = disputed \cup OwnedBy({v})
    /\ UNCHANGED <<meshes, present, registry, owners>>

\* claim.acquire: the label is this viewer's, or nobody's.
Acquires(l, v) == l \notin DOMAIN owners \/ owners[l] = v
Namesakes(v, p) == \E c \in remotes : c[1] = v /\ c[2] # p /\ labelKey(c[2]) = labelKey(p)
\* remote-track, of the first track of a peer or of a later one.  Known to go wrong: a
\* room refused is not asked again when the label is released, two peers of one name
\* in a room replace each other, a room that is closing takes the label for itself.
RemoteTrack(v, p) ==
    LET l == labelKey(p)
    IN  /\ viewers[v].at \in {"open", "leaving"}
        /\ present[p] = viewers[v].room \/ <<v, p>> \in remotes
        /\ remotes' = remotes \cup {<<v, p>>}
        /\ IF Acquires(l, v)
           THEN registry' = With(registry, l, <<v, p>>) /\ owners' = With(owners, l, v)
           ELSE UNCHANGED <<registry, owners>>
        /\ disputed' = IF ~Acquires(l, v) \/ Namesakes(v, p) \/ viewers[v].at = "leaving"
                       THEN disputed \cup {l} ELSE disputed
        /\ UNCHANGED <<viewers, meshes, present>>

\* A connection ends, whether it has reported a track or not; known to go wrong: with
\* it goes the stream of another peer of its name in the room.
Gone(v, p) ==
    /\ viewers[v].at \in {"open", "leaving"}
    /\ remotes' = remotes \ {<<v, p>>}
    /\ disputed' = IF Namesakes(v, p) THEN disputed \cup {labelKey(p)} ELSE disputed
    /\ UNCHANGED <<viewers, meshes, present>>
\* Fault: every room withdraws the label, as a sole owner does.
PeerLeftSoleOwner(v, p) ==
    /\ Gone(v, p)
    /\ registry' = Without(registry, {labelKey(p)}) /\ owners' = Without(owners, {labelKey(p)})
\* peer-left, or a connection that failed: the owning room withdraws the label.
PeerLeft(v, p) ==
    /\ Gone(v, p)
    /\ IF Acquires(labelKey(p), v)
       THEN registry' = Without(registry, {labelKey(p)}) /\ owners' = Without(owners, {labelKey(p)})
       ELSE UNCHANGED <<registry, owners>>

\* External: a peer publishes in a room, in another one, or nowhere.
PeerMoves(p, r) ==
    /\ present[p] # r /\ present' = [present EXCEPT ![p] = r]
    /\ UNCHANGED <<viewers, meshes, remotes, registry, owners, disputed>>

RoomsNext ==
    \/ LeaveRooms \/ \E next \in SUBSET Rooms : next # DOMAIN meshes /\ SetRooms(next)
    \/ \E v \in DOMAIN viewers : \/ MeshOpens(v) \/ SocketEnds(v)
                                 \/ \E p \in Peers : RemoteTrack(v, p) \/ PeerLeft(v, p)
    \/ \E p \in Peers, r \in Rooms \cup {NoRoom} : PeerMoves(p, r)

RoomsSpec == RoomsInit /\ [][RoomsNext]_roomVars

-----------------------------------------------------------------------------
\* A label resolves to a stream exactly while an open room has a connection to a peer
\* of that name, and to that peer's, whatever closed rooms still report while they
\* are re-opened and peers move; what a label resolves to is its owner's.
LabelsFollowPeers ==
    /\ \A l \in DOMAIN registry : l \in DOMAIN owners /\ owners[l] = registry[l][1]
    /\ \A l \in {labelKey(p) : p \in Peers} \ disputed :
        LET live == {c \in remotes : viewers[c[1]].at = "open" /\ labelKey(c[2]) = l}
        IN  IF live = {} THEN l \notin DOMAIN registry \cup DOMAIN owners
            ELSE l \in DOMAIN registry /\ live = {registry[l]}
=============================================================================
