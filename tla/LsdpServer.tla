----------------------------- MODULE LsdpServer -----------------------------
(***************************************************************************)
(* The reference LSDP server (packages/server/src/server.ts, scene.ts,     *)
(* store.ts, auth.ts): subscribers, asynchronous authentication, resume    *)
(* from the replay ring or snapshot, fan-out of updates, operator inputs,  *)
(* scene swap, reset and shutdown.                                         *)
(*                                                                         *)
(* handleMessage runs to completion except for one await: the user's       *)
(* authenticate(token).  A subscribe is therefore two steps, RecvSubscribe *)
(* and then one of AuthRefused, RefuseScene and ServeScene, with anything  *)
(* in between.  Each emitted frame is queued in the same step.             *)
(*                                                                         *)
(* The actions of the clients are in the modules that extend this one.     *)
(***************************************************************************)
EXTENDS WebSocketLink, LsdpFrames, ReplayBuffer, FiniteSets

CONSTANTS
    Scenes,         \* the Scene objects the host creates
    FirstScene,     \* config.scene
    Rejected,       \* those whose bundle failed validation (scene.reject)
    MaxSeq,         \* bound: a scene is not updated past this number
    Grants,         \* what authenticate answers: token -> role, or None (throws)
    Offers,         \* the subprotocols the clients offer
    OperatorInputs, \* declared operator_inputs paths; {} accepts every path
    ServicePaths    \* decision.paths of a service, as path classes; {} is no limit

ASSUME ServerAssumption ==
    /\ FirstScene \in Scenes
    /\ Rejected \subseteq Scenes
    /\ DOMAIN Grants = Tokens
    /\ Offers \subseteq Protocols /\ Offers # {}

VARIABLES
    scenes,         \* scene -> its seq, replay ring and patch listeners
    activeScene,
    subs,           \* the `subscribers` set
    sub,            \* the Subscriber object of each connection
    auths,          \* handleSubscribe calls suspended in authenticate
    serving         \* FALSE once close() has stopped the listener

serverVars == <<scenes, activeScene, subs, sub, auths, serving>>

\* A listener is one onPatches registration: the n-th subscribe of connection c.
Listener(c, n) == <<c, n>>
NewSub == [decision |-> None, unsubscribe |-> None, subscribes |-> 0]

ServerInit ==
    /\ scenes = [s \in Scenes |-> [seq |-> 1, replay |-> EmptyRing, listeners |-> {}]]
    /\ activeScene = FirstScene
    /\ subs = {}
    /\ sub = [c \in Conns |-> NewSub]
    /\ auths = {}
    /\ serving = TRUE

-----------------------------------------------------------------------------
(***************************************************************************)
(* Connections                                                             *)
(***************************************************************************)

\* wss "connection": 1.1 is preferred, 1.0 the fallback (handleProtocols).
AcceptConnection(c) ==
    /\ serving
    /\ conn[c].client = "connecting" /\ conn[c].server = "none" /\ ~conn[c].cut
    /\ LET protocol == IF "lsdp.v1.1" \in Offers THEN "lsdp.v1.1" ELSE "lsdp.v1"
       IN  conn' = [conn EXCEPT ![c] = [Down(@, <<Accept(protocol)>>) EXCEPT !.server = "open"]]
    /\ subs' = subs \cup {c}
    /\ UNCHANGED <<scenes, activeScene, sub, auths, serving>>

\* Nothing listens any more: the upgrade fails.
RefuseConnection(c) ==
    /\ ~serving
    /\ conn[c].client = "connecting" /\ conn[c].server = "none" /\ ~conn[c].cut
    /\ conn' = [conn EXCEPT ![c] = Severed(@)]
    /\ UNCHANGED serverVars

\* sub.unsubscribePatches?.() for the subscribers C: each drops the listener of
\* its latest subscribe, if it has one; dropping it again does nothing.
Unsubscribed(C) ==
    [s \in Scenes |->
        [scenes[s] EXCEPT !.listeners =
            @ \ { sub[c].unsubscribe.listener : c \in
                    { d \in C : sub[d].unsubscribe # None
                                 /\ sub[d].unsubscribe.scene = s } }]]

\* ws "close", whoever closed and however the transport ended.
OnServerClose(c) ==
    /\ ServerClosable(conn[c])
    /\ conn' = [conn EXCEPT ![c] = ServerClosed(@)]
    /\ scenes' = Unsubscribed({c})
    /\ subs' = subs \ {c}
    /\ UNCHANGED <<activeScene, sub, auths, serving>>

\* handleMessage(sub, raw) starts: the frame is taken off the wire.  The `ws`
\* package still delivers messages while the server's own close is pending.
Receiving(c, type) ==
    conn[c].server \in {"open", "closing"} /\ HeadIs(conn[c].up, type)
Taken(c) == [conn[c] EXCEPT !.up = Tail(@)]

-----------------------------------------------------------------------------
(***************************************************************************)
(* Subscribe                                                               *)
(***************************************************************************)

\* handleSubscribe up to the await: authenticate is called with this token.
RecvSubscribeAs(c, token) ==
    /\ Receiving(c, "subscribe")
    /\ conn' = [conn EXCEPT ![c] = Taken(c)]
    /\ sub' = [sub EXCEPT ![c].subscribes = @ + 1]
    /\ auths' = auths \cup {[conn |-> c, call |-> sub[c].subscribes + 1,
                             token |-> token,
                             since |-> Head(conn[c].up).since]}
    /\ UNCHANGED <<scenes, activeScene, subs, serving>>
RecvSubscribe(c) == Receiving(c, "subscribe") /\ RecvSubscribeAs(c, Head(conn[c].up).token)

\* Fault: a refused token is not answered.
AuthRefusedSilently(p) ==
    /\ p \in auths /\ Grants[p.token] = None
    /\ auths' = auths \ {p}
    /\ UNCHANGED <<conn, scenes, activeScene, subs, sub, serving>>

\* authenticate threw: a fatal error frame and a 1008 close.
AuthRefused(p) ==
    /\ p \in auths /\ Grants[p.token] = None
    /\ auths' = auths \ {p}
    /\ conn' = [conn EXCEPT ![p.conn] =
                   ServerClose(ServerSend(@, <<ErrorFrame("AUTH_DENIED", FALSE)>>), 1008)]
    /\ UNCHANGED <<scenes, activeScene, subs, sub, serving>>

\* Authenticated, but the scene active now was rejected: its error, and 1008.
RefuseScene(p) ==
    /\ p \in auths /\ Grants[p.token] # None
    /\ activeScene \in Rejected
    /\ auths' = auths \ {p}
    /\ sub' = [sub EXCEPT ![p.conn].decision = Grants[p.token]]
    /\ conn' = [conn EXCEPT ![p.conn] =
                   ServerClose(ServerSend(@, <<ErrorFrame("INVALID_VALUE", FALSE)>>), 1008)]
    /\ UNCHANGED <<scenes, activeScene, subs, serving>>

\* Fault: the ring's coverage is not looked at.
ResumableUncovered(s, since) == since <= scenes[s].seq

\* The replay ring covers since_sequence, which the scene has reached.
Resumable(s, since) ==
    since > 0 /\ since <= scenes[s].seq /\ Covered(scenes[s].replay, since)

\* Fault: a snapshot is numbered one ahead.
AnswerAhead(s, since) == <<Snapshot(s, scenes[s].seq + 1)>>

\* The missed deltas, or a snapshot.
Answer(s, since) ==
    LET missed == Missed(scenes[s].replay, since) IN
    IF Resumable(s, since)
    THEN [i \in 1 .. Len(missed) |-> Delta(s, missed[i])]
    ELSE <<Snapshot(s, scenes[s].seq)>>

\* Authenticated: answer, then forward the deltas of the scene active now.
Served(p) ==
    /\ auths' = auths \ {p}
    /\ conn' = [conn EXCEPT ![p.conn] = ServerSend(@, Answer(activeScene, p.since))]
    /\ LET l == Listener(p.conn, p.call) IN
       /\ scenes' = [scenes EXCEPT ![activeScene].listeners = @ \cup {l}]
       /\ sub' = [sub EXCEPT ![p.conn].decision = Grants[p.token],
                             ![p.conn].unsubscribe = [scene |-> activeScene, listener |-> l]]
    /\ UNCHANGED <<activeScene, subs, serving>>

\* Fault: the scene's rejection is not looked at.
ServeRejected(p) == p \in auths /\ Grants[p.token] # None /\ Served(p)

\* Authenticated, and the scene active now is not rejected.
ServeScene(p) ==
    /\ p \in auths /\ Grants[p.token] # None
    /\ activeScene \notin Rejected
    /\ Served(p)

-----------------------------------------------------------------------------
(***************************************************************************)
(* Updates and operator inputs                                             *)
(***************************************************************************)

\* Path classes stand for the prefixes the code tests: "input..." for
\* __inputs.*, "test" for __test.*, any other class for the rest.
InputPaths == {"inputA", "inputB"}

\* canWritePath(decision, path)
CanWrite(role, path) ==
    \/ role = "test" /\ path = "test"
    \/ role = "operator" /\ path \in InputPaths
    \/ role = "service" /\ path \in InputPaths
                        /\ (ServicePaths = {} \/ path \in ServicePaths)

\* validateInput: a declared path with a value that meets its constraints, or
\* the test namespace, or no declarations at all.
Acceptable(patch) ==
    \/ OperatorInputs = {}
    \/ patch.path = "test"
    \/ patch.path \in OperatorInputs /\ patch.valid

\* store.apply: the scene takes its next number, records it and sends it once
\* to each registered listener; `w` is conn with the triggering frame taken off.
Fanout(s, w) ==
    [c \in Conns |->
        LET copies == Cardinality({ l \in scenes[s].listeners : l[1] = c })
        IN  ServerSend(w[c], [i \in 1 .. copies |-> Delta(s, scenes[s].seq + 1)])]

\* Fault: an update is not recorded for replay.
EmitUnrecorded(s, w) ==
    /\ scenes[s].seq < MaxSeq
    /\ scenes' = [scenes EXCEPT ![s].seq = @ + 1]
    /\ conn' = Fanout(s, w)

\* The store's listener: count, record, send.
Emit(s, w) ==
    /\ scenes[s].seq < MaxSeq
    /\ scenes' = [scenes EXCEPT ![s].seq = @ + 1,
                                ![s].replay = Pushed(@, scenes[s].seq + 1)]
    /\ conn' = Fanout(s, w)

\* scene.update() by the host or an adapter, on any scene it holds.
SceneUpdate(s) ==
    /\ Emit(s, conn)
    /\ UNCHANGED <<activeScene, subs, sub, auths, serving>>

\* handleInput, a refusal: the error goes to the sender, which stays connected;
\* nothing is applied.  Only an input before subscribe is answered as fatal.
\* INVALID_VALUE stands for UNKNOWN_PATH too.
RejectInput(c) ==
    /\ Receiving(c, "input")
    /\ LET role    == sub[c].decision
           patches == Head(conn[c].up).patches
           reply(e) == conn' = [conn EXCEPT ![c] = ServerSend(Taken(c), <<e>>)]
       IN  \/ role = None /\ reply(ErrorFrame("AUTH_DENIED", FALSE))
           \/ /\ role # None /\ \E p \in patches : ~CanWrite(role, p.path)
              /\ reply(ErrorFrame("WRITE_FORBIDDEN", TRUE))
           \/ /\ role # None /\ \A p \in patches : CanWrite(role, p.path)
              /\ \E p \in patches : ~Acceptable(p)
              /\ reply(ErrorFrame("INVALID_VALUE", TRUE))
    /\ UNCHANGED serverVars

\* handleInput, accepted: the whole frame is one update of the active scene.
ApplyInput(c) ==
    /\ Receiving(c, "input")
    /\ sub[c].decision # None
    /\ \A p \in Head(conn[c].up).patches :
           CanWrite(sub[c].decision, p.path) /\ Acceptable(p)
    /\ Emit(activeScene, [conn EXCEPT ![c] = Taken(c)])
    /\ UNCHANGED <<activeScene, subs, sub, auths, serving>>

-----------------------------------------------------------------------------
(***************************************************************************)
(* The other client frames                                                 *)
(***************************************************************************)

RecvPing(c) ==
    /\ Receiving(c, "ping")
    /\ conn' = [conn EXCEPT ![c] = ServerSend(Taken(c), <<Pong>>)]
    /\ UNCHANGED serverVars

RecvUnsubscribe(c) ==
    /\ Receiving(c, "unsubscribe")
    /\ conn' = [conn EXCEPT ![c] = ServerClose(Taken(c), 1000)]
    /\ UNCHANGED serverVars

\* A frame the decoder refuses: a wrong envelope.v is closed without an error
\* frame, a fatal error after one, a recoverable one leaves the connection open.
RecvMalformed(c) ==
    /\ Receiving(c, "malformed")
    /\ conn' = [conn EXCEPT ![c] =
          CASE Head(@.up).kind = "version" -> ServerClose(Taken(c), 1002)
            [] Head(@.up).kind = "fatal" ->
                  ServerClose(ServerSend(Taken(c), <<ErrorFrame("INTERNAL", FALSE)>>), 1002)
            [] Head(@.up).kind = "value" ->
                  ServerSend(Taken(c), <<ErrorFrame("INVALID_VALUE", TRUE)>>)]
    /\ UNCHANGED serverVars

-----------------------------------------------------------------------------
(***************************************************************************)
(* The host's handle                                                       *)
(***************************************************************************)

\* detachAllSubscribers(code): every member of the set is unsubscribed and
\* asked to close, and the set is emptied.  A subscribe suspended in
\* authenticate is not in its reach: it resumes afterwards.
DetachAll(code) ==
    /\ scenes' = Unsubscribed(subs)
    /\ conn' = [c \in Conns |-> IF c \in subs THEN ServerClose(conn[c], code) ELSE conn[c]]
    /\ subs' = {}

\* Fault: a swap does not detach the subscribers.
SetActiveSceneOnly(s) ==
    activeScene' = s /\ UNCHANGED <<conn, scenes, subs, sub, auths, serving>>

\* setActiveScene(scene)
SetActiveScene(s) ==
    /\ DetachAll(1012)
    /\ activeScene' = s
    /\ UNCHANGED <<sub, auths, serving>>

Reset ==
    /\ DetachAll(1012)
    /\ UNCHANGED <<activeScene, sub, auths, serving>>

Close ==
    /\ DetachAll(1000)
    /\ serving' = FALSE
    /\ UNCHANGED <<activeScene, sub, auths>>

-----------------------------------------------------------------------------
ServerReceives(c) ==
    \/ AcceptConnection(c) \/ RefuseConnection(c) \/ OnServerClose(c)
    \/ RecvSubscribe(c) \/ RejectInput(c) \/ ApplyInput(c)
    \/ RecvPing(c) \/ RecvUnsubscribe(c) \/ RecvMalformed(c)

Authenticated(p) == AuthRefused(p) \/ RefuseScene(p) \/ ServeScene(p)
=============================================================================
