--------------------------- MODULE ClientAnyServer ---------------------------
(***************************************************************************)
(* The client against a server that may do anything the wire allows:       *)
(* accept or refuse, send any server frame at any time, close with any     *)
(* code, or be cut off.  The server keeps what it was sent, so that what   *)
(* the client said on an open connection can be judged.                    *)
(***************************************************************************)
EXTENDS WsClient

CONSTANTS
    FirstToken,
    ServerFrames,   \* the frames a server may send
    CloseCodes,     \* the codes it may close with
    Negotiable,     \* the subprotocols it may pick
    Inputs,         \* the patch sets the host may send
    MaxHeard,       \* bound: frames sent on one connection
    MaxSaid,        \* bound: frames the client queues on one connection
    Cuts            \* whether transports fail

\* Every number the decoder lets through is a natural one (protocol/codec.ts).
ASSUME ClientAssumption ==
    /\ None \notin Conns
    /\ FirstToken \in Tokens
    /\ Negotiable \subseteq Protocols
    /\ MaxAttempt \in Nat
    /\ \A f \in ServerFrames :
         /\ f.type \notin {"accept", "close"}
         /\ f.type \in {"snapshot", "delta"} => f.seq \in Nat

VARIABLE heard      \* connection -> the number of frames the server has sent

vars == <<conn, clientVars, heard>>

Init ==
    /\ conn = [c \in Conns |-> NewConn]
    /\ ClientInit(FirstToken)
    /\ heard = [c \in Conns |-> 0]

ServerAccepts(c, protocol) ==
    /\ conn[c].client = "connecting" /\ conn[c].server = "none" /\ ~conn[c].cut
    /\ conn' = [conn EXCEPT ![c] = [Down(@, <<Accept(protocol)>>) EXCEPT !.server = "open"]]
    /\ UNCHANGED <<clientVars, heard>>

ServerSends(c, frame) ==
    /\ conn[c].server = "open" /\ conn[c].client = "open" /\ heard[c] < MaxHeard
    /\ conn' = [conn EXCEPT ![c] = ServerSend(@, <<frame>>)]
    /\ heard' = [heard EXCEPT ![c] = @ + 1]
    /\ UNCHANGED clientVars

ServerCloses(c, code) ==
    /\ conn[c].server = "open"
    /\ conn' = [conn EXCEPT ![c] = ServerClose(@, code)]
    /\ UNCHANGED <<clientVars, heard>>

\* The close event reaches the server, with the frames before it read.
ServerSeesClose(c) ==
    LET last == IF conn[c].up = <<>> THEN <<>> ELSE <<Last(conn[c].up)>>
        w == [conn[c] EXCEPT !.up = last]
    IN  /\ ServerClosable(w)
        /\ conn' = [conn EXCEPT ![c] = ServerClosed(w)]
        /\ UNCHANGED <<clientVars, heard>>

CutOff(c) == Cuts /\ Cut(c) /\ UNCHANGED <<clientVars, heard>>

HostCalls ==
    \/ Start \/ CloseClient
    \/ \E t \in Tokens : SetToken(t)
    \/ \E p \in Inputs : SendInput(p) /\ Len(conn[client.socket].up) < MaxSaid

\* Fresh connections are interchangeable: the next one is any one of them.
Opens ==
    \/ TimerFires
    \/ \E t \in Tokens :
         \/ OpenFails(t)
         \/ Unused # {} /\ TokenResolved(t, CHOOSE c \in Unused : TRUE)

Next ==
    \/ (HostCalls \/ Opens \/ \E c \in Conns : OnEvent(c)) /\ UNCHANGED heard
    \/ \E c \in Conns :
         \/ \E p \in Negotiable : ServerAccepts(c, p)
         \/ \E f \in ServerFrames : ServerSends(c, f)
         \/ \E code \in CloseCodes : ServerCloses(c, code)
         \/ ServerSeesClose(c) \/ CutOff(c)

Spec == Init /\ [][Next]_vars

TypeOK == TypeOKLink /\ TypeOKClient

-----------------------------------------------------------------------------
(***************************************************************************)
(* Properties                                                              *)
(***************************************************************************)

\* A started client that was not closed is never left with nothing pending:
\* it holds a socket that is alive, or a reconnect timer, or a suspended
\* openSocket.  Any other state is final: nothing would wake it up.
NeverStranded ==
    client.active /\ Started =>
        \/ client.timer
        \/ \E t \in Tokens : opening[t] > 0
        \/ client.socket # None /\ conn[client.socket].client \in {"connecting", "open"}

\* After close() nothing is scheduled and no socket is held, also when the
\* close came while a token was being resolved.
ClosedForGood == ~client.active => ~client.timer /\ client.socket = None

\* ... and no connection is made any more.
NoneMadeAfterClose ==
    [][~client.active => \A c \in Conns : conn'[c].client # conn[c].client
                                            => conn'[c].client # "connecting"]_vars

\* The first thing a connection says is subscribe: an input that came before
\* it would be answered by a fatal AUTH_DENIED (server.ts handleInput), which
\* closes the client for good.
SubscribeComesFirst ==
    \A c \in Conns :
        conn[c].up # <<>> => Head(conn[c].up).type \in {"subscribe", "close"}

\* The socket the field holds has been subscribed on as soon as it is open:
\* the client does not sit on a connection the server will never feed.
HeldSocketIsSubscribed ==
    LET c == client.socket IN
    c # None /\ conn[c].client = "open" /\ conn[c].server # "closed" /\ ~conn[c].cut =>
        \E i \in DOMAIN conn[c].up : conn[c].up[i].type = "subscribe"
=============================================================================
