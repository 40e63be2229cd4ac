---------------------------- MODULE WebSocketLink ----------------------------
(***************************************************************************)
(* The WebSocket connections between LSDP clients and servers: the browser *)
(* WebSocket on the client side, the `ws` package on the server side.      *)
(* Neither is part of the repository; both are modelled from how           *)
(* runtime/src/transport/ws.ts and server/src/server.ts use them.          *)
(*                                                                         *)
(* A connection is two end states, one FIFO queue per direction and a flag *)
(* `cut` for a transport that has failed: what was in flight is lost, each *)
(* end learns of it later, and what is sent meanwhile vanishes.  The queue *)
(* elements are LSDP frames and two control messages: "accept" is the      *)
(* server's answer to the upgrade, carrying the negotiated subprotocol,    *)
(* and "close" is the close frame.  An end that receives a close frame     *)
(* while open answers it and is closed; an end that sent one is closed by  *)
(* the answer.                                                             *)
(***************************************************************************)
EXTENDS Naturals, Sequences, SequencesExt

CONSTANTS Conns,        \* the connections that may ever be made
          None          \* absence of a connection, a scene, a decision

VARIABLE conn           \* conn[c]: the two ends of c and what is between them

EndStates == {"none", "connecting", "open", "closing", "closed"}
Protocols == {"lsdp.v1.1", "lsdp.v1"}

NewConn ==
    [client |-> "none", server |-> "none", protocol |-> None,
     up |-> <<>>, down |-> <<>>, cut |-> FALSE]

Accept(protocol) == [type |-> "accept", protocol |-> protocol]
CloseFrame(code) == [type |-> "close", code |-> code]

HeadIs(queue, type) == queue # <<>> /\ Head(queue).type = type

\* What one end sends is queued unless the transport has failed or nobody will
\* read it any more.
Up(w, m) ==
    IF w.cut \/ w.server = "closed" THEN w ELSE [w EXCEPT !.up = Append(@, m)]
Down(w, ms) == IF w.cut THEN w ELSE [w EXCEPT !.down = @ \o ms]

\* The transport fails: whatever was in flight is gone.
Severed(w) == [w EXCEPT !.cut = TRUE, !.up = <<>>, !.down = <<>>]

\* socket.send() of the browser: silently discarded unless the socket is open.
\* (On a socket still connecting it throws; the caller handles that case.)
ClientSend(w, m) == IF w.client = "open" THEN Up(w, m) ELSE w

\* What a closing client still reads of a queue: the close frame that ends it.
CloseOnly(queue) ==
    IF queue # <<>> /\ Last(queue).type = "close" THEN <<Last(queue)>> ELSE <<>>

\* socket.close(1000) of the browser.  A connection still being made is failed
\* outright.  Frames that arrive while closing are never delivered.
ClientClose(w) ==
    CASE w.client = "connecting" -> [Severed(w) EXCEPT !.client = "closing"]
      [] w.client = "open" ->
            [Up(w, CloseFrame(1000)) EXCEPT
                !.client = "closing",
                !.down = CloseOnly(@)]
      [] OTHER -> w

\* sub.ws.send() behind sendFrame's readyState test, for the frames ms in turn
\* (dropped here already when the client will not deliver them), and
\* sub.ws.close(code).
ServerSend(w, ms) ==
    IF w.server = "open" /\ w.client \notin {"closing", "closed"} THEN Down(w, ms) ELSE w
ServerClose(w, code) ==
    IF w.server = "open"
    THEN [Down(w, <<CloseFrame(code)>>) EXCEPT !.server = "closing"]
    ELSE w

-----------------------------------------------------------------------------
(***************************************************************************)
(* The close event, on either side: `w` is the connection after it.        *)
(***************************************************************************)

\* The client's close event fires with this code; 1006 when the transport died.
ClientClosable(w) ==
    \/ w.client \in {"open", "closing"} /\ HeadIs(w.down, "close")
    \/ w.client \in {"connecting", "open", "closing"} /\ w.cut

ClientCloseCode(w) == IF w.cut THEN 1006 ELSE Head(w.down).code

ClientClosed(w) ==
    LET answer == IF w.client = "open" /\ ~w.cut
                  THEN Up(w, CloseFrame(Head(w.down).code)) ELSE w
    IN  [answer EXCEPT !.client = "closed", !.down = <<>>]

ServerClosable(w) ==
    \/ w.server \in {"open", "closing"} /\ HeadIs(w.up, "close")
    \/ w.server \in {"open", "closing"} /\ w.cut

ServerClosed(w) ==
    LET answer == IF w.server = "open" /\ ~w.cut /\ w.client # "closed"
                  THEN Down(w, <<CloseFrame(Head(w.up).code)>>) ELSE w
    IN  [answer EXCEPT !.server = "closed", !.up = <<>>]

-----------------------------------------------------------------------------
(***************************************************************************)
(* The network's own steps.                                                *)
(***************************************************************************)

\* The transport of a live connection fails.
Cut(c) ==
    /\ ~conn[c].cut
    /\ \/ conn[c].client \in {"connecting", "open", "closing"}
       \/ conn[c].server \in {"open", "closing"}
    /\ conn' = [conn EXCEPT ![c] = Severed(@)]

TypeOKLink ==
    /\ DOMAIN conn = Conns
    /\ \A c \in Conns :
         /\ conn[c].client \in EndStates
         /\ conn[c].server \in {"none", "open", "closing", "closed"}
         /\ conn[c].protocol \in Protocols \cup {None}
         /\ conn[c].cut \in BOOLEAN
=============================================================================
