----------------------------- MODULE DevServer -----------------------------
(***************************************************************************)
(* The development server (packages/dev-server/src/server.ts): a mock LSDP *)
(* server with one active scene, numbering per subscriber instead of per   *)
(* scene, no authentication and no replay, driven by its host or over the  *)
(* /__mock control plane.  Every handler runs to completion.               *)
(*                                                                         *)
(* The state of a scene is abstracted to the set of updates that made it:  *)
(* each pushed delta, echoed input and scene switch is an update of its    *)
(* own, and a switch replaces the state by the one it brings.              *)
(***************************************************************************)
EXTENDS WebSocketLink

CONSTANTS
    Scenes,         \* scene versions; a scene is named by its version
    FirstScene,     \* config.initialSceneVersion
    DemoHost,       \* whether config.demoHost is set
    MaxUpdates,     \* bound: updates
    MaxResets       \* bound: POST /__mock/reset

ASSUME DevServerAssumption == FirstScene \in Scenes

VARIABLES
    dev,            \* the variables of startDevServer
    updates,        \* how many updates there have been
    resets,         \* how many resets
    published       \* for the properties: the states the server has been in

devVars == <<dev, updates, resets, published>>

Snapshot(scene, state, n) ==
    [type |-> "snapshot", seq |-> 1, scene |-> scene, state |-> state, resets |-> n]
Delta(seq, patches) == [type |-> "delta", seq |-> seq, patches |-> patches]
SceneChanged(seq, scene) == [type |-> "scene_changed", seq |-> seq, scene |-> scene]
ErrorFrame(seq) == [type |-> "error", seq |-> seq]
Pong == [type |-> "pong"]

\* An input past the bound repeats the last update.
NextUpdate == IF updates < MaxUpdates THEN updates + 1 ELSE updates

DevInit ==
    /\ dev = [scene |-> FirstScene, state |-> {0}, bundles |-> {FirstScene},
              subs |-> {}, seq |-> [c \in Conns |-> 0], serving |-> TRUE]
    /\ updates = 0 /\ resets = 0
    /\ published = {{0}}

-----------------------------------------------------------------------------
(***************************************************************************)
(* Connections and client frames                                           *)
(***************************************************************************)

\* handleProtocols: 1.1 is preferred, 1.0 the fallback, anything else refused.
Negotiated(offered) ==
    IF "lsdp.v1.1" \in offered THEN "lsdp.v1.1"
    ELSE IF "lsdp.v1" \in offered THEN "lsdp.v1" ELSE None

\* wss "connection": subscribed to every broadcast from now on.
DevAccepts(c, offered) ==
    /\ conn[c].client = "connecting" /\ conn[c].server = "none" /\ ~conn[c].cut
    /\ IF dev.serving /\ Negotiated(offered) # None
       THEN /\ conn' = [conn EXCEPT ![c] =
                  [Down(@, <<Accept(Negotiated(offered))>>) EXCEPT !.server = "open"]]
            /\ dev' = [dev EXCEPT !.subs = @ \cup {c}]
       ELSE /\ conn' = [conn EXCEPT ![c] = Severed(@)]
            /\ UNCHANGED dev
    /\ UNCHANGED <<updates, resets, published>>

DevSeesClose(c) ==
    /\ ServerClosable(conn[c])
    /\ conn' = [conn EXCEPT ![c] = ServerClosed(@)]
    /\ dev' = [dev EXCEPT !.subs = @ \ {c}]
    /\ UNCHANGED <<updates, resets, published>>

\* broadcastDelta(patches), after `links`: every connection is numbered and
\* sent the delta, whether it has subscribed or not.
Broadcast(links, patches) ==
    /\ conn' = [c \in Conns |-> IF c \in dev.subs
                  THEN ServerSend(links[c], <<Delta(dev.seq[c] + 1, patches)>>) ELSE links[c]]
    /\ dev' = [dev EXCEPT !.state = @ \cup patches,
                          !.seq = [c \in Conns |-> IF c \in dev.subs THEN @[c] + 1 ELSE @[c]]]
    /\ published' = published \cup {dev.state \cup patches}
    /\ updates' = NextUpdate
    /\ UNCHANGED resets

\* Fault: a snapshot goes on with the connection's numbering.
AnswerSubscribeOn(c, links) ==
    /\ conn' = [links EXCEPT ![c] = ServerSend(@, <<Snapshot(dev.scene, dev.state, resets)>>)]
    /\ dev' = [dev EXCEPT !.seq[c] = @ + 1]
    /\ UNCHANGED <<updates, resets, published>>

\* A subscribe is answered with the state now, and numbering starts at 1.
AnswerSubscribe(c, links) ==
    /\ conn' = [links EXCEPT ![c] = ServerSend(@, <<Snapshot(dev.scene, dev.state, resets)>>)]
    /\ dev' = [dev EXCEPT !.seq[c] = 1]
    /\ UNCHANGED <<updates, resets, published>>

\* sendError(...) uses up a number; the connection is closed after it.
RefuseFrame(c, links) ==
    /\ conn' = [links EXCEPT ![c] = ServerClose(ServerSend(@, <<ErrorFrame(dev.seq[c] + 1)>>), 1002)]
    /\ dev' = [dev EXCEPT !.seq[c] = @ + 1]
    /\ UNCHANGED <<updates, resets, published>>

\* handleMessage(sub, raw).
DevReceives(c) ==
    LET f     == Head(conn[c].up)
        links == [conn EXCEPT ![c].up = Tail(@)]
    IN  /\ conn[c].server \in {"open", "closing"} /\ conn[c].up # <<>>
        /\ f.type # "close"
        /\ CASE f.type = "malformed" -> RefuseFrame(c, links)
             [] f.type = "subscribe" -> AnswerSubscribe(c, links)
             [] f.type = "input" -> Broadcast(links, {NextUpdate})
             [] f.type = "ping" -> /\ conn' = [links EXCEPT ![c] = ServerSend(@, <<Pong>>)]
                                   /\ UNCHANGED devVars
             [] OTHER -> conn' = links /\ UNCHANGED devVars

-----------------------------------------------------------------------------
(***************************************************************************)
(* The host, and the control plane                                         *)
(***************************************************************************)

PushDelta == updates < MaxUpdates /\ Broadcast(conn, {NextUpdate})

\* Fault: the snapshot after a scene change shows the state before it.
SwitchSceneStale(scene) ==
    LET state == {updates + 1} IN
    /\ updates < MaxUpdates
    /\ conn' = [c \in Conns |-> IF c \in dev.subs
          THEN ServerSend(conn[c], <<SceneChanged(dev.seq[c] + 1, scene),
                                     Snapshot(scene, dev.state \cup state, resets)>>)
          ELSE conn[c]]
    /\ dev' = [dev EXCEPT !.scene = scene, !.state = state, !.bundles = @ \cup {scene},
                          !.seq = [c \in Conns |-> IF c \in dev.subs THEN 1 ELSE @[c]]]
    /\ published' = published \cup {state}
    /\ updates' = updates + 1
    /\ UNCHANGED resets

\* switchScene(args): scene, state and bundle change together, and every
\* connection is sent scene_changed and then a snapshot numbered 1.
SwitchScene(scene) ==
    LET state == {updates + 1} IN
    /\ updates < MaxUpdates
    /\ conn' = [c \in Conns |-> IF c \in dev.subs
          THEN ServerSend(conn[c], <<SceneChanged(dev.seq[c] + 1, scene),
                                     Snapshot(scene, state, resets)>>)
          ELSE conn[c]]
    /\ dev' = [dev EXCEPT !.scene = scene, !.state = state, !.bundles = @ \cup {scene},
                          !.seq = [c \in Conns |-> IF c \in dev.subs THEN 1 ELSE @[c]]]
    /\ published' = published \cup {state}
    /\ updates' = updates + 1
    /\ UNCHANGED resets

RegisterBundle(version) ==
    /\ version \notin dev.bundles
    /\ dev' = [dev EXCEPT !.bundles = @ \cup {version}]
    /\ UNCHANGED <<conn, updates, resets, published>>

\* POST /__mock/reset: the configuration again, and nobody is told.
DevReset ==
    /\ resets < MaxResets
    /\ dev' = [dev EXCEPT !.scene = FirstScene, !.state = {0}, !.bundles = {FirstScene}]
    /\ resets' = resets + 1
    /\ UNCHANGED <<conn, updates, published>>

DevClose ==
    /\ dev.serving
    /\ conn' = [c \in Conns |-> IF c \in dev.subs THEN ServerClose(conn[c], 1000) ELSE conn[c]]
    /\ dev' = [dev EXCEPT !.subs = {}, !.serving = FALSE]
    /\ UNCHANGED <<updates, resets, published>>

-----------------------------------------------------------------------------
(***************************************************************************)
(* HTTP                                                                    *)
(***************************************************************************)

\* The bundle a GET names, by its ?v= or as the active one.
BundleAnswer(version) ==
    IF (IF version = None THEN dev.scene ELSE version) \in dev.bundles THEN 200 ELSE 404

\* A file of the runtime's dist directory: `file` says what is on the disk.
StaticAnswer(file) ==
    CASE ~file.built -> 500
      [] file.built /\ ~file.inside -> 400
      [] file.built /\ file.inside /\ ~file.exists -> 404
      [] OTHER -> IF file.readable THEN 200 ELSE 500

\* handleHttp: the status each request is answered with.  The control-plane
\* posts are the actions above when their body can be read.
HttpAnswer(method, path, version, readable, file) ==
    CASE method = "OPTIONS" -> 204
      [] method = "GET" /\ path = "health" -> 200
      [] method = "GET" /\ path = "bundle" -> BundleAnswer(version)
      [] method = "POST" /\ path \in {"delta", "scene-changed", "register-bundle"} ->
            IF readable THEN 204 ELSE 400
      [] method = "GET" /\ path = "root" /\ DemoHost -> 200
      [] method = "GET" /\ path = "asset" /\ DemoHost -> StaticAnswer(file)
      [] method = "POST" /\ path = "reset" -> 204
      [] OTHER -> 404
=============================================================================
