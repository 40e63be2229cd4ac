------------------------------ MODULE WsClient ------------------------------
(***************************************************************************)
(* The runtime's LSDP client (packages/runtime/src/transport/ws.ts), with  *)
(* its sequence tracker and the attempt counter of its reconnect schedule  *)
(* (reconnect.ts).                                                         *)
(*                                                                         *)
(* The class keeps one `socket` field, but an old socket keeps its handlers *)
(* after the field has moved on, and openSocket is suspended while a token *)
(* is resolved; both are modelled: every connection ever made may still    *)
(* deliver events, and any number of openSocket calls may be suspended.    *)
(* The handlers' closures over the socket are exactly those of the code:   *)
(* onopen knows its token, the others know nothing of the socket they were *)
(* installed on and act on the field.                                      *)
(*                                                                         *)
(* `view` is what the onSnapshot and onDelta callbacks have told the host: *)
(* the set of scene numbers whose content it has been given.               *)
(***************************************************************************)
EXTENDS WebSocketLink, LsdpFrames, SequenceTracker, FiniteSets

CONSTANTS
    MaxAttempt,     \* bound: the attempt counter saturates here
    MaxOpening,     \* bound: openSocket calls suspended at once with one token
    OpenFailures    \* whether token fetches and the constructor may fail

VARIABLES
    client,         \* the fields of the WsClient object
    opening,        \* token -> openSocket calls suspended in resolveToken
    resolved,       \* connection -> the token its onopen closure holds
    view

clientVars == <<client, opening, resolved, view>>

\* Whatever the code does with a fresh socket does not depend on which it is.
Unused == { c \in Conns : conn[c].client = "none" }

Content(scene, seq) == { <<scene, n>> : n \in 1 .. seq }

ClientInit(firstToken) ==
    /\ client = [active |-> TRUE, status |-> "disconnected", socket |-> None,
                 token |-> firstToken, timer |-> FALSE, last |-> Fresh, attempt |-> 0]
    /\ opening = [t \in Tokens |-> 0]
    /\ resolved = [c \in Conns |-> None]
    /\ view = {}

-----------------------------------------------------------------------------
(***************************************************************************)
(* The private methods, as functions of the object `k` and the links `w`   *)
(***************************************************************************)

\* scheduleReconnect(immediate): replaces a pending timer; only delayFor, not
\* the immediate form, advances the attempt counter.
Rescheduled(k, immediate) ==
    IF ~k.active THEN k
    ELSE [k EXCEPT !.timer = TRUE, !.status = "disconnected",
                   !.attempt = IF immediate \/ @ = MaxAttempt THEN @ ELSE @ + 1]

\* closeSocket(), on the links and on the object.
LinksClosed(k, w) ==
    IF k.socket = None THEN w ELSE [w EXCEPT ![k.socket] = ClientClose(@)]
Detached(k) == [k EXCEPT !.socket = None]

\* Fault: close() leaves the reconnect timer armed.
ShutDownArmed(k) ==
    IF ~k.active THEN k
    ELSE [Detached(k) EXCEPT !.active = FALSE, !.status = "disconnected"]

\* close(), on the object; on the links it is closeSocket while still active.
ShutDown(k) ==
    IF ~k.active THEN k
    ELSE [Detached(k) EXCEPT !.active = FALSE, !.timer = FALSE,
                             !.status = "disconnected"]
LinksShutDown(k, w) == IF k.active THEN LinksClosed(k, w) ELSE w

\* openSocket() up to the await: the token is the one set now.
BeginOpen(k) ==
    /\ opening[k.token] < MaxOpening
    /\ client' = [k EXCEPT !.status = "connecting"]
    /\ opening' = [opening EXCEPT ![k.token] = @ + 1]

-----------------------------------------------------------------------------
(***************************************************************************)
(* Calls of the host                                                       *)
(***************************************************************************)

Start ==
    /\ client.active /\ client.socket = None /\ client.status # "connecting"
    /\ BeginOpen(client)
    /\ UNCHANGED <<conn, resolved, view>>

SetToken(t) ==
    /\ LET k == [client EXCEPT !.token = t] IN
       IF client.active /\ client.socket # None
       THEN /\ conn' = LinksClosed(k, conn)
            /\ client' = Rescheduled(Detached(k), TRUE)
       ELSE /\ client' = k
            /\ UNCHANGED conn
    /\ UNCHANGED <<opening, resolved, view>>

CloseClient ==
    /\ client.active
    /\ conn' = LinksShutDown(client, conn)
    /\ client' = ShutDown(client)
    /\ UNCHANGED <<opening, resolved, view>>

\* Fault: an input is queued before the socket is open.
SendInputEarly(patches) ==
    /\ client.socket # None /\ conn[client.socket].client \in {"connecting", "open"}
    /\ conn' = [conn EXCEPT ![client.socket] = Up(@, Input(patches))]
    /\ UNCHANGED clientVars

\* sendInput(patches): only the socket's readyState is looked at.
SendInput(patches) ==
    /\ client.socket # None /\ conn[client.socket].client = "open"
    /\ conn' = [conn EXCEPT ![client.socket] = ClientSend(@, Input(patches))]
    /\ UNCHANGED clientVars

-----------------------------------------------------------------------------
(***************************************************************************)
(* Opening a socket                                                        *)
(***************************************************************************)

TimerFires ==
    /\ client.timer
    /\ BeginOpen([client EXCEPT !.timer = FALSE])
    /\ UNCHANGED <<conn, resolved, view>>

\* Fault: onopen does not capture its token.
MadeUncaptured(t, c) ==
    /\ conn' = [conn EXCEPT ![c].client = "connecting"]
    /\ client' = [client EXCEPT !.socket = c]
    /\ UNCHANGED resolved

\* The socket is made, installed and captured with its token.
Made(t, c) ==
    /\ conn' = [conn EXCEPT ![c].client = "connecting"]
    /\ client' = [client EXCEPT !.socket = c]
    /\ resolved' = [resolved EXCEPT ![c] = t]

\* Fault: active is not looked at after the await.
TokenResolvedAnyway(t, c) ==
    /\ opening[t] > 0 /\ c \in Unused
    /\ opening' = [opening EXCEPT ![t] = @ - 1]
    /\ Made(t, c)
    /\ UNCHANGED view

\* resolveToken returned t: a socket is made and becomes the field, whatever
\* the field held; after close() nothing is.
TokenResolved(t, c) ==
    /\ opening[t] > 0 /\ c \in Unused
    /\ opening' = [opening EXCEPT ![t] = @ - 1]
    /\ IF client.active
       THEN Made(t, c)
       ELSE UNCHANGED <<conn, client, resolved>>
    /\ UNCHANGED view

\* Fault: a failed open does not schedule another.
OpenFailsSilently(t) ==
    /\ OpenFailures /\ opening[t] > 0
    /\ opening' = [opening EXCEPT ![t] = @ - 1]
    /\ UNCHANGED <<conn, client, resolved, view>>

\* resolveToken rejected, or the WebSocket constructor threw.
OpenFails(t) ==
    /\ OpenFailures /\ opening[t] > 0
    /\ opening' = [opening EXCEPT ![t] = @ - 1]
    /\ client' = Rescheduled(client, FALSE)
    /\ UNCHANGED <<conn, resolved, view>>

\* Fault: onopen does not subscribe.
OnOpenSilent(c) ==
    /\ conn[c].client = "connecting" /\ HeadIs(conn[c].down, "accept")
    /\ conn' = [conn EXCEPT ![c].client = "open", ![c].down = Tail(@)]
    /\ UNCHANGED clientVars

\* onopen of connection c -> handleOpen(token): subscribes on the socket the
\* field holds, which need not be c.  It resumes when that socket speaks 1.1
\* and a number is known; otherwise the tracker is reset first.  On a socket
\* that is still connecting, send() throws after that reset.
OnOpen(c) ==
    /\ conn[c].client = "connecting" /\ HeadIs(conn[c].down, "accept")
    /\ LET w == [conn EXCEPT ![c].client = "open", ![c].down = Tail(@),
                             ![c].protocol = Head(conn[c].down).protocol]
           d == client.socket
           canResume == w[d].protocol = "lsdp.v1.1" /\ client.last # Fresh
           since == IF canResume THEN client.last ELSE 0
       IN  IF d = None
           THEN /\ conn' = w
                /\ UNCHANGED client
           ELSE /\ client' = [client EXCEPT !.last = since]
                /\ conn' = [w EXCEPT ![d] = ClientSend(@, Subscribe(resolved[c], since))]
    /\ UNCHANGED <<opening, resolved, view>>

-----------------------------------------------------------------------------
(***************************************************************************)
(* Messages.  No handler asks whether the client is still active, or       *)
(* whether the message came on the socket the field holds.                 *)
(***************************************************************************)

Receives(c, type) == conn[c].client = "open" /\ HeadIs(conn[c].down, type)
Frame(c) == Head(conn[c].down)
Read(c) == [conn EXCEPT ![c].down = Tail(@)]

\* A frame the handler answers by dropping the socket and reconnecting:
\* undecodable, a snapshot numbered below 1, a delta past the next number.
Breaks(frame) ==
    \/ frame.type = "malformed"
    \/ frame.type = "snapshot" /\ frame.seq < 1
    \/ frame.type = "delta" /\ Gap(client.last, frame.seq)

OnBreakingFrame(c) ==
    /\ conn[c].client = "open" /\ conn[c].down # <<>> /\ Breaks(Frame(c))
    /\ conn' = LinksClosed(client, Read(c))
    /\ client' = Rescheduled(Detached(client), FALSE)
    /\ UNCHANGED <<opening, resolved, view>>

\* The snapshot rebases the tracker, resets the backoff and goes live.
OnSnapshot(c) ==
    /\ Receives(c, "snapshot") /\ ~Breaks(Frame(c))
    /\ conn' = Read(c)
    /\ client' = [client EXCEPT !.last = Rebased(@, Frame(c).seq),
                                !.attempt = 0, !.status = "live"]
    /\ view' = Content(Frame(c).scene, Frame(c).seq)
    /\ UNCHANGED <<opening, resolved>>

\* An in-order delta reaches the host, a duplicate is dropped in silence.
OnDelta(c) ==
    /\ Receives(c, "delta") /\ ~Breaks(Frame(c))
    /\ conn' = Read(c)
    /\ client' = [client EXCEPT !.last = Observed(@, Frame(c).seq)]
    /\ view' = IF InOrder(client.last, Frame(c).seq)
               THEN view \cup {<<Frame(c).scene, Frame(c).seq>>} ELSE view
    /\ UNCHANGED <<opening, resolved>>

OnSceneChanged(c) ==
    /\ Receives(c, "scene_changed")
    /\ conn' = Read(c)
    /\ client' = [client EXCEPT !.last = Fresh]
    /\ UNCHANGED <<opening, resolved, view>>

\* A server error is handed on; a fatal one closes the client for good.
OnError(c) ==
    /\ Receives(c, "error")
    /\ IF Frame(c).recoverable
       THEN conn' = Read(c) /\ UNCHANGED client
       ELSE conn' = LinksShutDown(client, Read(c)) /\ client' = ShutDown(client)
    /\ UNCHANGED <<opening, resolved, view>>

\* Pongs are ignored; a roster is forwarded without touching the tracker.
OnOutOfBand(c) ==
    /\ Receives(c, "pong") \/ Receives(c, "scene_roster")
    /\ conn' = Read(c)
    /\ UNCHANGED clientVars

\* onclose of connection c, whichever socket the field holds: the field is
\* cleared.  The authentication codes close the client, any other reconnects.
AuthCodes == {4401, 4403, 1008}

OnClose(c) ==
    /\ ClientClosable(conn[c])
    /\ conn' = [conn EXCEPT ![c] = ClientClosed(@)]
    /\ LET k == Detached(client) IN
       client' = CASE ~client.active -> [k EXCEPT !.status = "disconnected"]
                   [] client.active /\ ClientCloseCode(conn[c]) \in AuthCodes -> ShutDown(k)
                   [] OTHER -> Rescheduled(k, FALSE)
    /\ UNCHANGED <<opening, resolved, view>>

-----------------------------------------------------------------------------
OnMessage(c) ==
    \/ OnBreakingFrame(c) \/ OnSnapshot(c) \/ OnDelta(c) \/ OnSceneChanged(c)
    \/ OnError(c) \/ OnOutOfBand(c)

OnEvent(c) == OnOpen(c) \/ OnMessage(c) \/ OnClose(c)

\* The client has been started: it has opened, or tried to.
Started ==
    \/ client.status # "disconnected" \/ client.timer \/ client.attempt > 0
    \/ \E t \in Tokens : opening[t] > 0
    \/ \E c \in Conns : conn[c].client # "none"

TypeOKClient ==
    /\ client.active \in BOOLEAN /\ client.timer \in BOOLEAN
    /\ client.status \in {"disconnected", "connecting", "live"}
    /\ client.socket \in Conns \cup {None}
    /\ client.token \in Tokens
    /\ client.last \in Nat /\ client.attempt \in 0 .. MaxAttempt
    /\ \A t \in Tokens : opening[t] \in Nat
    /\ \A c \in Conns : IF c \in Unused THEN resolved[c] = None ELSE resolved[c] \in Tokens
=============================================================================
