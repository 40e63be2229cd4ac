-------------------------- MODULE ServerAnyClients --------------------------
(***************************************************************************)
(* The server against clients that may do anything the wire allows: send   *)
(* any client frame in any order and number, resume from any number, leave *)
(* or be cut off at any moment.  The clients keep what they were sent, so  *)
(* that the whole stream of an open connection can be judged.              *)
(***************************************************************************)
EXTENDS LsdpServer

CONSTANTS
    ClientFrames,   \* the frames a client may send
    MaxSaid,        \* bound: frames sent on one connection
    Cuts            \* whether transports fail

\* What a decoder can make of a client's bytes (protocol/codec.ts); anything
\* else is a malformed frame of one of three kinds.
ASSUME ClientFramesAssumption ==
    \A f \in ClientFrames :
        /\ f.type \in {"subscribe", "input", "ping", "unsubscribe", "malformed"}
        /\ f.type = "subscribe" =>
               f.token \in Tokens /\ f.since \in Nat /\ f = Subscribe(f.token, f.since)
        /\ f.type = "malformed" => f.kind \in {"version", "fatal", "value"}

VARIABLE said       \* said[c]: the frames the client has sent on c

vars == <<conn, serverVars, said>>

Init ==
    /\ conn = [c \in Conns |-> NewConn]
    /\ ServerInit
    /\ said = [c \in Conns |-> <<>>]

ClientConnects(c) ==
    /\ conn[c].client = "none"
    /\ conn' = [conn EXCEPT ![c].client = "connecting"]
    /\ UNCHANGED <<serverVars, said>>

ClientOpens(c) ==
    /\ conn[c].client = "connecting" /\ HeadIs(conn[c].down, "accept")
    /\ conn' = [conn EXCEPT ![c].client = "open", ![c].down = Tail(@),
                            ![c].protocol = Head(conn[c].down).protocol]
    /\ UNCHANGED <<serverVars, said>>

ClientSays(c, frame) ==
    /\ conn[c].client = "open" /\ Len(said[c]) < MaxSaid
    /\ conn' = [conn EXCEPT ![c] = ClientSend(@, frame)]
    /\ said' = [said EXCEPT ![c] = Append(@, frame)]
    /\ UNCHANGED serverVars

ClientLeaves(c) ==
    /\ conn[c].client \in {"connecting", "open"}
    /\ conn' = [conn EXCEPT ![c] = ClientClose(@)]
    /\ UNCHANGED <<serverVars, said>>

\* The close event reaches the client, with the frames before it read.
ClientSeesClose(c) ==
    LET last == IF conn[c].down = <<>> THEN <<>> ELSE <<Last(conn[c].down)>>
        w == [conn[c] EXCEPT !.down = last]
    IN  /\ ClientClosable(w)
        /\ conn' = [conn EXCEPT ![c] = ClientClosed(w)]
        /\ UNCHANGED <<serverVars, said>>

CutOff(c) == Cuts /\ Cut(c) /\ UNCHANGED <<serverVars, said>>

Next ==
    \/ \E c \in Conns :
         \/ ServerReceives(c) /\ UNCHANGED said
         \/ ClientConnects(c) \/ ClientOpens(c) \/ ClientLeaves(c)
         \/ ClientSeesClose(c) \/ CutOff(c)
         \/ \E f \in ClientFrames : ClientSays(c, f)
    \/ \E p \in auths : Authenticated(p) /\ UNCHANGED said
    \/ \E s \in Scenes : (SceneUpdate(s) \/ SetActiveScene(s)) /\ UNCHANGED said
    \/ (Reset \/ Close) /\ UNCHANGED said

Spec == Init /\ [][Next]_vars

\* The event loop delivers what arrives on every connection, and the user's
\* authenticate eventually answers.
FairSpec ==
    /\ Spec
    /\ \A c \in Conns : WF_vars(ServerReceives(c) /\ UNCHANGED said)
    /\ WF_vars(\E p \in auths : Authenticated(p) /\ UNCHANGED said)

-----------------------------------------------------------------------------
(***************************************************************************)
(* Properties                                                              *)
(***************************************************************************)

\* Where c said subscribe, and which frames waiting for it are scene data: the
\* client keeps what it was sent, so that is all of it while it is connected.
Subscribes(c) == {k \in DOMAIN said[c] : said[c][k].type = "subscribe"}
Data(c) == {i \in DOMAIN conn[c].down : SceneData(conn[c].down[i])}

\* The scene whose deltas c is being forwarded, if any.
Attached(c) ==
    /\ conn[c].client = "open" /\ conn[c].server = "open" /\ ~conn[c].cut
    /\ sub[c].unsubscribe # None
    /\ sub[c].unsubscribe.listener \in scenes[sub[c].unsubscribe.scene].listeners

\* The data of c is, in order and each number once, the numbers of s up to its
\* current one: from the snapshot that opens it or else from `since`.
Complete(c, s, since) ==
    LET down == conn[c].down
        snaps == {i \in Data(c) : down[i].type = "snapshot"}
        base == IF snaps = {} THEN since ELSE down[CHOOSE i \in snaps : TRUE].seq - 1
    IN  /\ \A i \in snaps : \A j \in Data(c) : i <= j
        /\ \A i, j \in Data(c) : i < j => down[i].seq < down[j].seq
        /\ \A i \in Data(c) : down[i].scene = s
        /\ {down[i].seq : i \in Data(c)} = base + 1 .. scenes[s].seq

\* A subscriber has been sent every number from its starting point to the
\* scene's current one, each once and in order, whatever happened while it was
\* being authenticated: a snapshot and what followed it, or what followed its
\* since_sequence (server.ts handleSubscribe: read seq, replay, register).
StreamComplete ==
    \A c \in Conns : \A k \in Subscribes(c) :
        Attached(c) /\ Subscribes(c) = {k} =>
            Complete(c, sub[c].unsubscribe.scene, said[c][k].since)

\* One connection never carries two scenes, even when it subscribes again:
\* a swap detaches before it activates, and nothing is sent after the close.
OneScenePerConnection ==
    \A c \in Conns : \A i, j \in Data(c) : conn[c].down[i].scene = conn[c].down[j].scene

\* A connection that is open is forwarded only the scene active now, however
\* often it subscribes: authentication that ends after a swap attaches to the
\* scene active then, not to the one active when the subscribe arrived.
OpenFollowsActive ==
    \A s \in Scenes \ {activeScene} : \A l \in scenes[s].listeners :
        conn[l[1]].server # "open"

\* No scene data reaches a peer none of whose tokens authenticate accepted,
\* and none of a rejected scene reaches anyone (RFC-0001 A2 seam).
ServedOnlyWhatIsDue ==
    \A c \in Conns : \A i \in Data(c) :
        /\ \E k \in Subscribes(c) : Grants[said[c][k].token] # None
        /\ conn[c].down[i].scene \notin Rejected

\* Each scene numbers and records its updates as Scene prescribes, with any
\* number of subscribers, inputs, swaps and resets going on.
SceneOf(s) == INSTANCE Scene WITH seq <- scenes[s].seq, replay <- scenes[s].replay
ScenesNumberUpdates ==
    /\ \A s \in Scenes : SceneOf(s)!Init
    /\ [][\A s \in Scenes : [SceneOf(s)!Next]_(SceneOf(s)!vars)]_vars

\* A subscribe does not stay unanswered: the subscriber is attached, or its
\* connection is on its way out.
SubscribeAnswered ==
    \A c \in Conns :
        sub[c].subscribes > 0 ~> (sub[c].unsubscribe # None \/ conn[c].server # "open")
=============================================================================
