---------------------------- MODULE ClientProofs ----------------------------
(***************************************************************************)
(* That close() is final, an open client is never stranded, and a subscribe *)
(* comes first, against a server that may do anything, for any number of   *)
(* connections, tokens, frames and suspended openSocket calls.             *)
(***************************************************************************)
EXTENDS ClientAnyServer, CommonProofs

\* The fields of the client object exist, and a closed object has neither a
\* timer nor a socket.
Object(k) ==
    /\ {"active", "status", "socket", "token", "timer", "last", "attempt"}
           \subseteq DOMAIN k
    /\ k.active \in BOOLEAN
    /\ ~k.active => ~k.timer /\ k.socket = None

LEMMA RescheduledObject ==
  ASSUME NEW k, NEW immediate, Object(k)
  PROVE  Object(Rescheduled(k, immediate))
  <1>1. CASE ~k.active
    BY <1>1 DEF Rescheduled
  <1>2. CASE k.active
    BY <1>2 DEF Rescheduled, Object
  <1> QED
    BY <1>1, <1>2 DEF Object

LEMMA DetachedObject ==
  ASSUME NEW k, Object(k)
  PROVE  Object(Detached(k)) /\ Detached(k).active = k.active
  BY DEF Detached, Object

LEMMA ShutDownObject ==
  ASSUME NEW k, Object(k)
  PROVE  Object(ShutDown(k))
  <1>1. CASE ~k.active
    BY <1>1 DEF ShutDown
  <1>2. CASE k.active
    BY <1>2 DEF ShutDown, Detached, Object
  <1> QED
    BY <1>1, <1>2 DEF Object

LEMMA ObjectInit == Init => Object(client)
  BY DEF Init, ClientInit, Object

LEMMA ObjectStep == Object(client) /\ [Next]_vars => Object(client)'
  <1> SUFFICES ASSUME Object(client), [Next]_vars PROVE Object(client')
    OBVIOUS
  <1>1. CASE Start
    BY <1>1 DEF Start, BeginOpen, Object
  <1>2. CASE CloseClient
    BY <1>2, ShutDownObject DEF CloseClient
  <1>3. ASSUME NEW t \in Tokens, SetToken(t)
        PROVE  Object(client')
    <2> DEFINE k == [client EXCEPT !.token = t]
    <2>1. Object(k)
      BY DEF Object
    <2>2. client' = k \/ client' = Rescheduled(Detached(k), TRUE)
      BY <1>3 DEF SetToken
    <2> HIDE DEF k
    <2> QED
      BY <2>1, <2>2, DetachedObject, RescheduledObject
  <1>4. ASSUME NEW p \in Inputs, SendInput(p)
        PROVE  Object(client')
    BY <1>4 DEF SendInput, clientVars
  <1>5. CASE TimerFires
    <2>1. client.active
      BY <1>5 DEF TimerFires, Object
    <2>2. client' = [[client EXCEPT !.timer = FALSE] EXCEPT !.status = "connecting"]
      BY <1>5 DEF TimerFires, BeginOpen
    <2> QED
      BY <2>1, <2>2 DEF Object
  <1>6. ASSUME NEW t \in Tokens, OpenFails(t)
        PROVE  Object(client')
    BY <1>6, RescheduledObject DEF OpenFails
  <1>7. ASSUME NEW t \in Tokens, NEW c, TokenResolved(t, c)
        PROVE  Object(client')
    BY <1>7 DEF TokenResolved, Made, Object
  <1>8. ASSUME NEW c \in Conns, OnOpen(c)
        PROVE  Object(client')
    BY <1>8 DEF OnOpen, Object
  <1>9. ASSUME NEW c \in Conns, OnMessage(c)
        PROVE  Object(client')
    <2>1. CASE OnBreakingFrame(c)
      BY <2>1, DetachedObject, RescheduledObject DEF OnBreakingFrame
    <2>2. CASE OnSnapshot(c)
      BY <2>2 DEF OnSnapshot, Object
    <2>3. CASE OnDelta(c)
      BY <2>3 DEF OnDelta, Object
    <2>4. CASE OnSceneChanged(c)
      BY <2>4 DEF OnSceneChanged, Object
    <2>5. CASE OnError(c)
      BY <2>5, ShutDownObject DEF OnError
    <2>6. CASE OnOutOfBand(c)
      BY <2>6 DEF OnOutOfBand, clientVars
    <2> QED
      BY <1>9, <2>1, <2>2, <2>3, <2>4, <2>5, <2>6 DEF OnMessage
  <1>10. ASSUME NEW c \in Conns, OnClose(c)
         PROVE  Object(client')
    <2> DEFINE k == Detached(client)
    <2>1. Object(k) /\ k.active = client.active
      BY DetachedObject
    <2>2. CASE ~client.active
      <3>1. client' = [k EXCEPT !.status = "disconnected"]
        BY <1>10, <2>2 DEF OnClose
      <3> QED
        BY <2>1, <3>1 DEF Object
    <2>3. CASE client.active
      <3>1. client' = ShutDown(k) \/ client' = Rescheduled(k, FALSE)
        BY <1>10, <2>3 DEF OnClose
      <3> QED
        BY <2>1, <3>1, ShutDownObject, RescheduledObject
    <2> QED
      BY <2>2, <2>3
  <1>11. CASE UNCHANGED clientVars
    BY <1>11 DEF clientVars
  <1>12. ASSUME NEW c \in Conns,
                \/ \E p \in Negotiable : ServerAccepts(c, p)
                \/ \E f \in ServerFrames : ServerSends(c, f)
                \/ \E code \in CloseCodes : ServerCloses(c, code)
                \/ ServerSeesClose(c) \/ CutOff(c)
         PROVE  UNCHANGED clientVars
    BY <1>12 DEF ServerAccepts, ServerSends, ServerCloses, ServerSeesClose, CutOff
  <1>13. CASE UNCHANGED vars
    BY <1>11, <1>13 DEF vars
  <1> QED
    BY <1>1, <1>2, <1>3, <1>4, <1>5, <1>6, <1>7, <1>8, <1>9, <1>10, <1>11, <1>12, <1>13
       DEF Next, HostCalls, Opens, OnEvent

\* Nothing is scheduled and no socket is held after close(), however the calls
\* of the host, tokens, timers, frames and close events interleave.
THEOREM ClientClosedForGood == Spec => []ClosedForGood
  <1>1. Object(client) => ClosedForGood
    BY DEF Object, ClosedForGood
  <1> QED
    BY <1>1, ObjectInit, ObjectStep, PTL DEF Spec
-----------------------------------------------------------------------------
(***************************************************************************)
(* What a step may do to the client's end of a connection.                 *)
(***************************************************************************)

Fields == {"client", "server", "protocol", "up", "down", "cut"}

\* x is a connection that may have become of w without being made anew.
Kept(w, x) ==
    /\ Fields \subseteq DOMAIN w => Fields \subseteq DOMAIN x
    /\ Fields \subseteq DOMAIN w => x.client \in {w.client, "open", "closing", "closed"}

LEMMA KeptTransitive ==
  ASSUME NEW w, NEW x, NEW y, Kept(w, x), Kept(x, y)
  PROVE  Kept(w, y)
  BY DEF Kept

LEMMA KeptUp == ASSUME NEW w, NEW m PROVE Kept(w, Up(w, m))
  BY DEF Kept, Up, Fields

LEMMA KeptDown == ASSUME NEW w, NEW ms PROVE Kept(w, Down(w, ms))
  BY DEF Kept, Down, Fields

LEMMA KeptSevered == ASSUME NEW w PROVE Kept(w, Severed(w))
  BY DEF Kept, Severed, Fields

LEMMA KeptClientSend == ASSUME NEW w, NEW m PROVE Kept(w, ClientSend(w, m))
  BY KeptUp DEF ClientSend, Kept

LEMMA KeptClientClose == ASSUME NEW w PROVE Kept(w, ClientClose(w))
  <1>1. CASE w.client = "connecting"
    <2>1. ClientClose(w) = [Severed(w) EXCEPT !.client = "closing"]
      BY <1>1 DEF ClientClose
    <2> QED
      BY <2>1, KeptSevered DEF Kept, Fields
  <1>2. CASE w.client = "open"
    <2>1. ClientClose(w) = [[Up(w, CloseFrame(1000)) EXCEPT !.client = "closing"] EXCEPT
              !.down = CloseOnly(@)]
      BY <1>2 DEF ClientClose
    <2> DEFINE u == Up(w, CloseFrame(1000))
               d == CloseOnly(u.down)
    <2>2. ClientClose(w) = [[u EXCEPT !.client = "closing"] EXCEPT !.down = d]
      BY <1>2 DEF ClientClose
    <2>3. Kept(w, u)
      BY KeptUp
    <2> HIDE DEF u, d
    <2> QED
      BY <2>2, <2>3 DEF Kept, Fields
  <1>3. CASE w.client # "connecting" /\ w.client # "open"
    BY <1>3 DEF ClientClose, Kept
  <1> QED
    BY <1>1, <1>2, <1>3

LEMMA KeptServerSend == ASSUME NEW w, NEW ms PROVE Kept(w, ServerSend(w, ms))
  BY KeptDown DEF ServerSend, Kept

LEMMA KeptServerClose == ASSUME NEW w, NEW code PROVE Kept(w, ServerClose(w, code))
  <1> DEFINE d == Down(w, <<CloseFrame(code)>>)
  <1>1. Kept(w, d)
    BY KeptDown
  <1>2. ServerClose(w, code) \in {w, [d EXCEPT !.server = "closing"]}
    BY DEF ServerClose
  <1> HIDE DEF d
  <1> QED
    BY <1>1, <1>2 DEF Kept, Fields

LEMMA KeptClientClosed == ASSUME NEW w PROVE Kept(w, ClientClosed(w))
  <1> PICK u : /\ ClientClosed(w) = [[u EXCEPT !.client = "closed"] EXCEPT !.down = <<>>]
               /\ Kept(w, u)
    BY KeptUp DEF ClientClosed, Kept
  <1> QED
    BY DEF Kept, Fields

LEMMA KeptServerClosed == ASSUME NEW w PROVE Kept(w, ServerClosed(w))
  <1> PICK u : /\ ServerClosed(w) = [[u EXCEPT !.server = "closed"] EXCEPT !.up = <<>>]
               /\ Kept(w, u)
    BY KeptDown DEF ServerClosed, Kept
  <1> QED
    BY DEF Kept, Fields

\* Every connection has its fields.
LinksInv == DOMAIN conn = Conns /\ \A c \in Conns : Fields \subseteq DOMAIN conn[c]

\* No connection is made anew.
NoneMade(v, w) ==
    DOMAIN w = DOMAIN v /\ \A c \in Conns : c \in DOMAIN v => Kept(v[c], w[c])

LEMMA NoneMadeReflexive == ASSUME NEW v PROVE NoneMade(v, v)
  BY DEF NoneMade, Kept

LEMMA NoneMadeTransitive ==
  ASSUME NEW u, NEW v, NEW w, NoneMade(u, v), NoneMade(v, w)
  PROVE  NoneMade(u, w)
  BY KeptTransitive DEF NoneMade

LEMMA NoneMadeExcept ==
  ASSUME NEW v, NEW c, NEW x, Kept(v[c], x)
  PROVE  NoneMade(v, [v EXCEPT ![c] = x])
  BY DEF NoneMade, Kept

LEMMA NoneMadeClosing ==
  ASSUME NEW k, NEW w
  PROVE  NoneMade(w, LinksClosed(k, w)) /\ NoneMade(w, LinksShutDown(k, w))
  BY NoneMadeExcept, NoneMadeReflexive, KeptClientClose DEF LinksClosed, LinksShutDown

LEMMA NoneMadeReading == ASSUME NEW c PROVE NoneMade(conn, Read(c))
  <1>1. Kept(conn[c], [conn[c] EXCEPT !.down = Tail(@)])
    BY DEF Kept, Fields
  <1> QED
    BY <1>1, NoneMadeExcept DEF Read

\* A step makes a connection only by TokenResolved, while the client is active.
LEMMA NoneMadeStep ==
  ASSUME [Next]_vars
  PROVE  \/ NoneMade(conn, conn')
         \/ client.active /\ \E c \in Conns : conn' = [conn EXCEPT ![c].client = "connecting"]
  <1>1. CASE UNCHANGED conn
    BY <1>1, NoneMadeReflexive
  <1>2. CASE CloseClient
    BY <1>2, NoneMadeClosing DEF CloseClient
  <1>3. ASSUME NEW t \in Tokens, SetToken(t)
        PROVE  NoneMade(conn, conn')
    BY <1>3, NoneMadeClosing, NoneMadeReflexive DEF SetToken
  <1>4. ASSUME NEW p \in Inputs, SendInput(p)
        PROVE  NoneMade(conn, conn')
    BY <1>4, NoneMadeExcept, KeptClientSend DEF SendInput
  <1>5. ASSUME NEW t \in Tokens, NEW c, TokenResolved(t, c)
        PROVE  \/ UNCHANGED conn
               \/ client.active /\ \E d \in Conns : conn' = [conn EXCEPT ![d].client = "connecting"]
    BY <1>5 DEF TokenResolved, Made, Unused
  <1>6. ASSUME NEW c \in Conns, OnOpen(c)
        PROVE  NoneMade(conn, conn')
    <2> DEFINE w == [conn EXCEPT ![c].client = "open", ![c].down = Tail(@),
                                 ![c].protocol = Head(conn[c].down).protocol]
    <2>1. NoneMade(conn, w)
      BY DEF NoneMade, Kept, Fields
    <2>2. \/ conn' = w
          \/ \E d, m : conn' = [w EXCEPT ![d] = ClientSend(@, m)]
      BY <1>6 DEF OnOpen
    <2> HIDE DEF w
    <2> QED
      BY <2>1, <2>2, NoneMadeExcept, KeptClientSend, NoneMadeTransitive
  <1>7. ASSUME NEW c \in Conns, OnMessage(c)
        PROVE  NoneMade(conn, conn')
    <2>1. conn' \in {Read(c), LinksClosed(client, Read(c)), LinksShutDown(client, Read(c))}
      BY <1>7 DEF OnMessage, OnBreakingFrame, OnSnapshot, OnDelta, OnSceneChanged,
                  OnError, OnOutOfBand
    <2> QED
      BY <2>1, NoneMadeReading, NoneMadeClosing, NoneMadeTransitive
  <1>8. ASSUME NEW c \in Conns, OnClose(c)
        PROVE  NoneMade(conn, conn')
    BY <1>8, NoneMadeExcept, KeptClientClosed DEF OnClose
  <1>9. ASSUME NEW c \in Conns, NEW p \in Negotiable, ServerAccepts(c, p)
        PROVE  NoneMade(conn, conn')
    <2> DEFINE d == Down(conn[c], <<Accept(p)>>)
    <2>1. conn' = [conn EXCEPT ![c] = [d EXCEPT !.server = "open"]]
      BY <1>9 DEF ServerAccepts
    <2>2. Kept(conn[c], d)
      BY KeptDown
    <2> HIDE DEF d
    <2>3. Kept(conn[c], [d EXCEPT !.server = "open"])
      BY <2>2 DEF Kept, Fields
    <2> QED
      BY <2>1, <2>3, NoneMadeExcept
  <1>10. ASSUME NEW c \in Conns, NEW f \in ServerFrames, ServerSends(c, f)
         PROVE  NoneMade(conn, conn')
    BY <1>10, NoneMadeExcept, KeptServerSend DEF ServerSends
  <1>11. ASSUME NEW c \in Conns, NEW code \in CloseCodes, ServerCloses(c, code)
         PROVE  NoneMade(conn, conn')
    BY <1>11, NoneMadeExcept, KeptServerClose DEF ServerCloses
  <1>12. ASSUME NEW c \in Conns, ServerSeesClose(c)
         PROVE  NoneMade(conn, conn')
    <2> PICK last : conn' = [conn EXCEPT ![c] = ServerClosed([conn[c] EXCEPT !.up = last])]
      BY <1>12 DEF ServerSeesClose
    <2>1. Kept(conn[c], [conn[c] EXCEPT !.up = last])
      BY DEF Kept, Fields
    <2>2. Kept(conn[c], ServerClosed([conn[c] EXCEPT !.up = last]))
      BY <2>1, KeptServerClosed, KeptTransitive
    <2> QED
      BY <2>2, NoneMadeExcept
  <1>13. ASSUME NEW c \in Conns, CutOff(c)
         PROVE  NoneMade(conn, conn')
    BY <1>13, NoneMadeExcept, KeptSevered DEF CutOff, Cut
  <1>14. Start \/ TimerFires \/ (\E t \in Tokens : OpenFails(t)) \/ UNCHANGED vars
           => UNCHANGED conn
    BY DEF Start, TimerFires, OpenFails, vars
  <1> QED
    BY <1>1, <1>2, <1>3, <1>4, <1>5, <1>6, <1>7, <1>8, <1>9, <1>10, <1>11, <1>12, <1>13, <1>14
       DEF Next, HostCalls, Opens, OnEvent

LEMMA LinksInit == Init => LinksInv
  BY DEF Init, NewConn, LinksInv, Fields

LEMMA LinksStep == LinksInv /\ [Next]_vars => LinksInv'
  <1> SUFFICES ASSUME LinksInv, [Next]_vars PROVE LinksInv'
    OBVIOUS
  <1>1. CASE NoneMade(conn, conn')
    BY <1>1 DEF NoneMade, LinksInv, Kept
  <1>2. ASSUME NEW c \in Conns, conn' = [conn EXCEPT ![c].client = "connecting"]
        PROVE  LinksInv'
    BY <1>2 DEF LinksInv, Fields
  <1> QED
    BY <1>1, <1>2, NoneMadeStep

\* No connection is made after close(), also by an openSocket call whose token
\* was still being resolved when it came.
THEOREM ClientMakesNoneAfterClose == Spec => NoneMadeAfterClose
  <1>1. LinksInv /\ [Next]_vars =>
          [~client.active => \A c \in Conns : conn'[c].client # conn[c].client
                                 => conn'[c].client # "connecting"]_vars
    <2> SUFFICES ASSUME LinksInv, [Next]_vars, ~client.active, NEW c \in Conns,
                        conn'[c].client # conn[c].client
                 PROVE  conn'[c].client # "connecting"
      OBVIOUS
    <2>1. NoneMade(conn, conn')
      BY NoneMadeStep
    <2> QED
      BY <2>1 DEF NoneMade, Kept, LinksInv
  <1> QED
    BY <1>1, LinksInit, LinksStep, PTL DEF Spec, NoneMadeAfterClose
-----------------------------------------------------------------------------
(***************************************************************************)
(* What the client says, holds and waits for.                              *)
(***************************************************************************)

Codes == CloseCodes \cup {1000}
CloseFrames == [type : {"close"}, code : Codes]
UpMsgs == [type : {"subscribe"}, token : Tokens, since : Nat]
            \cup [type : {"input"}, patches : Inputs] \cup CloseFrames
DownMsgs == ServerFrames \cup [type : {"accept"}, protocol : Negotiable] \cup CloseFrames

\* Before it is open nothing has been said on a connection; what was said first
\* is a subscribe, or the close of a client that said nothing.
SpeaksFirst(w) ==
    /\ w.client \in {"none", "connecting"} => w.up = <<>>
    /\ w.up # <<>> => Head(w.up).type \in {"subscribe", "close"}
Good == { w \in Link(UpMsgs, DownMsgs) : SpeaksFirst(w) }

\* While the server can still hear it, an open connection carries its subscribe.
Subscribed(w) ==
    w.client = "open" /\ w.server # "closed" /\ ~w.cut =>
        w.up # <<>> /\ Head(w.up).type = "subscribe"
Held(w) == w.client \in {"connecting", "open"} /\ Subscribed(w)

Objects ==
    [active : BOOLEAN, status : {"disconnected", "connecting", "live"},
     socket : Conns \cup {None}, token : Tokens, timer : BOOLEAN,
     last : Nat, attempt : 0 .. MaxAttempt]

Waits(k, o) == k.timer \/ (\E t \in Tokens : o[t] > 0) \/ k.socket # None

ClientInv ==
    /\ conn \in [Conns -> Good]
    /\ client \in Objects
    /\ opening \in [Tokens -> Nat]
    /\ resolved \in [Conns -> Tokens \cup {None}]
    /\ \A c \in Conns :
          IF conn[c].client = "none" THEN resolved[c] = None ELSE resolved[c] \in Tokens
    /\ client.socket # None => Held(conn[client.socket])
    /\ client.active /\ Started => Waits(client, opening)

LEMMA ClientInvInit == Init => ClientInv
  <1> SUFFICES ASSUME Init PROVE ClientInv
    OBVIOUS
  <1> USE DEF Init, ClientInit
  <1>1. NewConn \in Good
    <2>1. <<>> \in Seq(UpMsgs) /\ <<>> \in Seq(DownMsgs)
      OBVIOUS
    <2>2. NewConn \in Link(UpMsgs, DownMsgs)
      BY <2>1 DEF NewConn, Link, EndStates, ServerStates
    <2> QED
      BY <2>2 DEF Good, NewConn, SpeaksFirst
  <1>2. conn \in [Conns -> Good] /\ \A c \in Conns : conn[c].client = "none"
    BY <1>1 DEF NewConn
  <1>3. client \in Objects
    BY ClientAssumption DEF Objects, Fresh
  <1>4. ~Started
    BY <1>2 DEF Started
  <1> QED
    BY <1>2, <1>3, <1>4 DEF ClientInv

-----------------------------------------------------------------------------
(***************************************************************************)
(* What the operations on a link keep of it.                               *)
(***************************************************************************)

\* What the client's own operations may do to a link.
MovedTo(w, x) == x \in Good /\ (x.client = "none" <=> w.client = "none")
Moved(v, w) ==
    w \in [Conns -> Good] /\ \A c \in Conns : w[c].client = "none" <=> v[c].client = "none"

\* What the server and the network may do to one.
Answered(w, x) == x \in Good /\ x.client = w.client /\ (Subscribed(w) => Subscribed(x))

LEMMA MovedExcept ==
  ASSUME NEW v \in [Conns -> Good], NEW c \in Conns, NEW x, MovedTo(v[c], x)
  PROVE  Moved(v, [v EXCEPT ![c] = x])
  BY DEF Moved, MovedTo

LEMMA MovedTransitive ==
  ASSUME NEW u, NEW v, NEW w, Moved(u, v), Moved(v, w)
  PROVE  Moved(u, w)
  BY DEF Moved

\* The head of a queue that was appended to.
LEMMA HeadAppend ==
  ASSUME NEW S, NEW q \in Seq(S), NEW m \in S
  PROVE  /\ Append(q, m) # <<>>
         /\ Head(Append(q, m)) = IF q = <<>> THEN m ELSE Head(q)
  <1>1. /\ Append(q, m) \in Seq(S) /\ Len(Append(q, m)) = Len(q) + 1
        /\ Append(q, m)[1] = IF Len(q) = 0 THEN m ELSE q[1]
    BY LenProperties
  <1>2. q = <<>> <=> Len(q) = 0
    BY EmptySeq
  <1>3. Append(q, m) # <<>>
    BY <1>1, EmptySeq, LenProperties
  <1> QED
    BY <1>1, <1>2, <1>3

LEMMA CloseFrameUp == CloseFrame(1000) \in UpMsgs
  BY DEF CloseFrame, UpMsgs, CloseFrames, Codes

LEMMA CloseMoves ==
  ASSUME NEW w \in Good
  PROVE  MovedTo(w, ClientClose(w))
  <1> DEFINE m == CloseFrame(1000)
             x == ClientClose(w)
  <1>1. w \in Link(UpMsgs, DownMsgs) /\ SpeaksFirst(w)
    BY DEF Good
  <1>2. m.type = "close" /\ m \in UpMsgs
    BY CloseFrameUp DEF CloseFrame
  <1>3. /\ x \in Link(UpMsgs, DownMsgs)
        /\ x.client = IF w.client \in {"connecting", "open"} THEN "closing" ELSE w.client
        /\ x.up \in {w.up, <<>>, Append(w.up, m)}
    BY <1>1, CloseFrameUp, ClientCloseLink
  <1>4. w.up \in Seq(UpMsgs)
    BY <1>1 DEF Link
  <1>5. w.client # "open" => x.up \in {w.up, <<>>}
    BY DEF ClientClose, Severed
  <1> HIDE DEF m, x
  <1>6. SpeaksFirst(x)
    <2>1. CASE x.up = Append(w.up, m)
      BY <2>1, <1>1, <1>2, <1>3, <1>4, <1>5, HeadAppend DEF SpeaksFirst
    <2>2. CASE x.up \in {w.up, <<>>}
      BY <2>2, <1>1, <1>3 DEF SpeaksFirst
    <2> QED
      BY <1>3, <2>1, <2>2
  <1> QED
    BY <1>3, <1>6 DEF MovedTo, Good, x

LEMMA LinksClosedMoves ==
  ASSUME NEW v \in [Conns -> Good], NEW k \in Objects
  PROVE  Moved(v, LinksClosed(k, v)) /\ Moved(v, LinksShutDown(k, v))
  <1>1. Moved(v, v)
    BY DEF Moved
  <1>2. ASSUME k.socket # None
        PROVE  Moved(v, [v EXCEPT ![k.socket] = ClientClose(@)])
    <2>1. k.socket \in Conns
      BY <1>2 DEF Objects
    <2> QED
      BY <2>1, CloseMoves, MovedExcept
  <1> QED
    BY <1>1, <1>2 DEF LinksClosed, LinksShutDown

\* An input is said on a connection that was subscribed on, or to nobody.
LEMMA InputMoves ==
  ASSUME NEW w \in Good, NEW p \in Inputs, Held(w)
  PROVE  Answered(w, ClientSend(w, Input(p)))
  <1> DEFINE m == Input(p)
             x == ClientSend(w, m)
  <1>1. w \in Link(UpMsgs, DownMsgs) /\ SpeaksFirst(w) /\ w.up \in Seq(UpMsgs)
    BY DEF Good, Link
  <1>2. m \in UpMsgs
    BY DEF Input, UpMsgs
  <1> HIDE DEF m
  <1>3. /\ x \in Link(UpMsgs, DownMsgs) /\ SameButUp(w, x)
        /\ x.up = IF w.cut \/ w.server = "closed" \/ w.client # "open"
                  THEN w.up ELSE Append(w.up, m)
    BY <1>1, <1>2, ClientSendLink
  <1> HIDE DEF x
  <1>4. Answered(w, x)
    <2>1. CASE w.cut \/ w.server = "closed" \/ w.client # "open"
      BY <1>1, <1>3, <2>1 DEF Answered, Good, SpeaksFirst, Subscribed, SameButUp
    <2>2. CASE ~(w.cut \/ w.server = "closed" \/ w.client # "open")
      <3>1. w.up # <<>> /\ Head(w.up).type = "subscribe"
        BY <2>2 DEF Held, Subscribed
      <3>2. x.up # <<>> /\ Head(x.up).type = "subscribe"
        BY <1>1, <1>2, <1>3, <2>2, <3>1, HeadAppend
      <3> QED
        BY <1>3, <2>2, <3>2 DEF Answered, Good, SpeaksFirst, Subscribed, SameButUp
    <2> QED
      BY <2>1, <2>2
  <1> QED
    BY <1>4 DEF x, m

\* Subscribing, on a connection that is subscribed on already or has said nothing.
LEMMA SubscribeMoves ==
  ASSUME NEW w \in Good, NEW t \in Tokens, NEW n \in Nat,
         w.up = <<>> \/ Subscribed(w)
  PROVE  /\ MovedTo(w, ClientSend(w, Subscribe(t, n)))
         /\ ClientSend(w, Subscribe(t, n)).client = w.client
         /\ Subscribed(ClientSend(w, Subscribe(t, n)))
  <1> DEFINE m == Subscribe(t, n)
             x == ClientSend(w, m)
  <1>1. w \in Link(UpMsgs, DownMsgs) /\ SpeaksFirst(w) /\ w.up \in Seq(UpMsgs)
    BY DEF Good, Link
  <1>2. m \in UpMsgs /\ m.type = "subscribe"
    BY DEF Subscribe, UpMsgs
  <1> HIDE DEF m
  <1>3. /\ x \in Link(UpMsgs, DownMsgs) /\ SameButUp(w, x)
        /\ x.up = IF w.cut \/ w.server = "closed" \/ w.client # "open"
                  THEN w.up ELSE Append(w.up, m)
    BY <1>1, <1>2, ClientSendLink
  <1> HIDE DEF x
  <1>4. MovedTo(w, x) /\ x.client = w.client /\ Subscribed(x)
    <2>1. CASE w.cut \/ w.server = "closed" \/ w.client # "open"
      BY <1>1, <1>3, <2>1 DEF MovedTo, Good, SpeaksFirst, Subscribed, SameButUp
    <2>2. CASE ~(w.cut \/ w.server = "closed" \/ w.client # "open")
      <3>1. x.up # <<>> /\ Head(x.up).type = "subscribe"
        BY <1>1, <1>2, <1>3, <2>2, HeadAppend DEF Subscribed
      <3> QED
        BY <1>3, <2>2, <3>1 DEF MovedTo, Good, SpeaksFirst, Subscribed, SameButUp
    <2> QED
      BY <2>1, <2>2
  <1> QED
    BY <1>4 DEF x, m

\* Reading the queue down.
LEMMA ReadMoves ==
  ASSUME NEW w \in Good, w.down # <<>>
  PROVE  Answered(w, [w EXCEPT !.down = Tail(@)])
  <1> DEFINE q == Tail(w.down)
             x == [w EXCEPT !.down = q]
  <1>1. w \in Link(UpMsgs, DownMsgs) /\ SpeaksFirst(w)
    BY DEF Good
  <1>2. q \in Seq(DownMsgs)
    BY <1>1 DEF Link
  <1> HIDE DEF q
  <1>3. x \in Link(UpMsgs, DownMsgs) /\ SameButDown(w, x)
    BY <1>1, <1>2 DEF Link, SameButDown
  <1> HIDE DEF x
  <1>4. Answered(w, x)
    BY <1>1, <1>3 DEF Answered, Good, SpeaksFirst, Subscribed, SameButDown
  <1> QED
    BY <1>4 DEF x, q

\* A close frame carries a code of the server's or of the client's own close.
LEMMA CloseCodeDown ==
  ASSUME NEW m \in DownMsgs, m.type = "close"
  PROVE  CloseFrame(m.code) \in UpMsgs \cap DownMsgs
  <1>1. m \in CloseFrames
    BY ClientAssumption DEF DownMsgs
  <1> QED
    BY <1>1 DEF CloseFrame, CloseFrames, UpMsgs, DownMsgs

LEMMA CloseCodeUp ==
  ASSUME NEW m \in UpMsgs, m.type = "close"
  PROVE  CloseFrame(m.code) \in UpMsgs \cap DownMsgs
  <1>1. m \in CloseFrames
    BY DEF UpMsgs
  <1> QED
    BY <1>1 DEF CloseFrame, CloseFrames, UpMsgs, DownMsgs

LEMMA ClosedMoves ==
  ASSUME NEW w \in Good, ClientClosable(w)
  PROVE  MovedTo(w, ClientClosed(w))
  <1> DEFINE m == CloseFrame(Head(w.down).code)
             x == ClientClosed(w)
  <1>1. w \in Link(UpMsgs, DownMsgs) /\ SpeaksFirst(w) /\ w.up \in Seq(UpMsgs)
    BY DEF Good, Link
  <1>2. m.type = "close" /\ (w.client = "open" /\ ~w.cut => m \in UpMsgs)
    <2>1. m.type = "close"
      BY DEF CloseFrame
    <2>2. ASSUME w.client = "open" /\ ~w.cut
          PROVE  m \in UpMsgs
      <3>1. w.down # <<>> /\ Head(w.down).type = "close"
        BY <2>2 DEF ClientClosable, HeadIs
      <3>2. Head(w.down) \in DownMsgs
        BY <1>1, <3>1, HeadTailProperties DEF Link
      <3> QED
        BY <3>1, <3>2, CloseCodeDown
    <2> QED
      BY <2>1, <2>2
  <1>3. /\ x \in Link(UpMsgs, DownMsgs) /\ x.client = "closed"
        /\ x.up \in {w.up, Append(w.up, m)}
    BY <1>1, <1>2, ClientClosedLink
  <1>4. ~(w.client = "open" /\ ~w.cut) => x.up = w.up
    BY <1>1 DEF ClientClosed, Link
  <1>5. w.client # "none"
    BY DEF ClientClosable
  <1> HIDE DEF m, x
  <1>6. SpeaksFirst(x)
    <2>1. CASE x.up = w.up
      BY <2>1, <1>1, <1>3 DEF SpeaksFirst
    <2>2. CASE x.up # w.up
      BY <2>2, <1>1, <1>2, <1>3, <1>4, HeadAppend DEF SpeaksFirst
    <2> QED
      BY <2>1, <2>2
  <1>7. MovedTo(w, x)
    BY <1>3, <1>5, <1>6 DEF MovedTo, Good
  <1> QED
    BY <1>7 DEF x

\* Nothing that leaves the client's end, the queue up and the failed transport
\* alone, or lets the server hear less, unsubscribes.
LEMMA AnsweredWhenSameUp ==
  ASSUME NEW w \in Good, NEW x \in Link(UpMsgs, DownMsgs),
         x.client = w.client, x.up = w.up, x.cut = w.cut,
         w.client = "open" /\ w.server = "closed" => x.server = "closed"
  PROVE  Answered(w, x)
  BY DEF Answered, Good, SpeaksFirst, Subscribed

LEMMA AnsweredWhenUnheard ==
  ASSUME NEW w \in Good, NEW x \in Link(UpMsgs, DownMsgs),
         x.client = w.client, x.up = <<>>, x.cut \/ x.server = "closed"
  PROVE  Answered(w, x)
  BY DEF Answered, Good, SpeaksFirst, Subscribed

LEMMA AcceptAnswers ==
  ASSUME NEW w \in Good, NEW p \in Negotiable, w.client = "connecting"
  PROVE  Answered(w, [Down(w, <<Accept(p)>>) EXCEPT !.server = "open"])
  <1> DEFINE ms == <<Accept(p)>>
             d == Down(w, ms)
             x == [d EXCEPT !.server = "open"]
  <1>1. w \in Link(UpMsgs, DownMsgs)
    BY DEF Good
  <1>2. Accept(p) \in DownMsgs
    BY DEF Accept, DownMsgs
  <1>3. ms \in Seq(DownMsgs)
    BY <1>2
  <1> HIDE DEF ms
  <1>4. d \in Link(UpMsgs, DownMsgs) /\ SameButDown(w, d)
    BY <1>1, <1>3, DownLink
  <1> HIDE DEF d
  <1>5. /\ x \in Link(UpMsgs, DownMsgs)
        /\ x.client = w.client /\ x.up = w.up /\ x.cut = w.cut
    BY <1>4 DEF Link, ServerStates, SameButDown
  <1> HIDE DEF x
  <1>6. Answered(w, x)
    BY <1>5, AnsweredWhenSameUp
  <1> QED
    BY <1>6 DEF x, d, ms

LEMMA SendAnswers ==
  ASSUME NEW w \in Good, NEW f \in ServerFrames
  PROVE  Answered(w, ServerSend(w, <<f>>))
  <1> DEFINE ms == <<f>>
             x == ServerSend(w, ms)
  <1>1. w \in Link(UpMsgs, DownMsgs)
    BY DEF Good
  <1>2. ms \in Seq(DownMsgs)
    BY DEF DownMsgs
  <1> HIDE DEF ms
  <1>3. x \in Link(UpMsgs, DownMsgs) /\ SameButDown(w, x)
    BY <1>1, <1>2, ServerSendLink
  <1> HIDE DEF x
  <1>4. Answered(w, x)
    BY <1>3, AnsweredWhenSameUp DEF SameButDown
  <1> QED
    BY <1>4 DEF x, ms

LEMMA CloseAnswers ==
  ASSUME NEW w \in Good, NEW code \in CloseCodes
  PROVE  Answered(w, ServerClose(w, code))
  <1> DEFINE x == ServerClose(w, code)
  <1>1. w \in Link(UpMsgs, DownMsgs)
    BY DEF Good
  <1>2. CloseFrame(code) \in DownMsgs
    BY DEF CloseFrame, DownMsgs, CloseFrames, Codes
  <1>3. /\ x \in Link(UpMsgs, DownMsgs)
        /\ x.server = IF w.server = "open" THEN "closing" ELSE w.server
        /\ x.client = w.client /\ x.up = w.up /\ x.cut = w.cut
        /\ x.down = IF w.server = "open" /\ ~w.cut
                    THEN w.down \o <<CloseFrame(code)>> ELSE w.down
    BY <1>1, <1>2, ServerCloseLink
  <1> HIDE DEF x
  <1>4. Answered(w, x)
    BY <1>3, AnsweredWhenSameUp
  <1> QED
    BY <1>4 DEF x

\* The server reads what is before the close, and is closed by it.
LEMMA ServerClosedAnswers ==
  ASSUME NEW w \in Good, NEW last,
         last = IF w.up = <<>> THEN <<>> ELSE <<Last(w.up)>>,
         ServerClosable([w EXCEPT !.up = last])
  PROVE  Answered(w, ServerClosed([w EXCEPT !.up = last]))
  <1> DEFINE u == [w EXCEPT !.up = last]
             x == ServerClosed(u)
  <1>1. w \in Link(UpMsgs, DownMsgs) /\ w.up \in Seq(UpMsgs)
    BY DEF Good, Link
  <1>2. last \in Seq(UpMsgs)
    BY <1>1 DEF Last
  <1>3. u \in Link(UpMsgs, DownMsgs) /\ u.client = w.client
    BY <1>1, <1>2 DEF Link
  <1>4. u.server = "open" /\ ~u.cut => u.up # <<>> /\ Head(u.up).type = "close"
    BY DEF ServerClosable, HeadIs
  <1> HIDE DEF u
  <1>5. u.server = "open" /\ ~u.cut => CloseFrame(Head(u.up).code) \in DownMsgs
    <2> SUFFICES ASSUME u.server = "open" /\ ~u.cut
                 PROVE  CloseFrame(Head(u.up).code) \in DownMsgs
      OBVIOUS
    <2>1. Head(u.up) \in UpMsgs
      BY <1>3, <1>4, HeadTailProperties DEF Link
    <2> QED
      BY <1>4, <2>1, CloseCodeUp
  <1>6. /\ x \in Link(UpMsgs, DownMsgs)
        /\ x.server = "closed" /\ x.client = u.client
        /\ x.cut = u.cut /\ x.up = <<>>
        /\ x.down = IF u.server = "open" /\ ~u.cut /\ u.client # "closed"
                    THEN u.down \o <<CloseFrame(Head(u.up).code)>> ELSE u.down
    <2>1. u \in Link(UpMsgs, DownMsgs)
      BY <1>3
    <2> QED
      BY <2>1, <1>5, ServerClosedLink
  <1> HIDE DEF x
  <1>7. Answered(w, x)
    BY <1>3, <1>6, AnsweredWhenUnheard
  <1> QED
    BY <1>7 DEF x, u

LEMMA SeveredAnswers ==
  ASSUME NEW w \in Good
  PROVE  Answered(w, Severed(w))
  <1>1. w \in Link(UpMsgs, DownMsgs)
    BY DEF Good
  <1>2. /\ Severed(w) \in Link(UpMsgs, DownMsgs)
        /\ Severed(w).client = w.client /\ Severed(w).server = w.server
        /\ Severed(w).cut = TRUE /\ Severed(w).up = <<>> /\ Severed(w).down = <<>>
    BY <1>1, SeveredLink
  <1> QED
    BY <1>2, AnsweredWhenUnheard

\* The accept opens the client's end.
LEMMA OpenedLink ==
  ASSUME NEW w \in Good, w.client = "connecting", HeadIs(w.down, "accept")
  PROVE  /\ [w EXCEPT !.client = "open", !.down = Tail(@),
                      !.protocol = Head(w.down).protocol] \in Good
         /\ [w EXCEPT !.client = "open", !.down = Tail(@),
                      !.protocol = Head(w.down).protocol].up = <<>>
  <1> DEFINE q == Tail(w.down)
             p == Head(w.down).protocol
             x == [w EXCEPT !.client = "open", !.down = q, !.protocol = p]
  <1>1. w \in Link(UpMsgs, DownMsgs) /\ w.up = <<>>
    BY DEF Good, SpeaksFirst
  <1>2. w.down # <<>> /\ w.down \in Seq(DownMsgs) /\ Head(w.down).type = "accept"
    BY <1>1 DEF HeadIs, Link
  <1>3. q \in Seq(DownMsgs) /\ Head(w.down) \in DownMsgs
    BY <1>2, HeadTailProperties
  <1>4. p \in Protocols
    BY <1>2, <1>3, ClientAssumption DEF DownMsgs, CloseFrames
  <1> HIDE DEF q, p
  <1>5. x \in Link(UpMsgs, DownMsgs) /\ x.up = w.up /\ x.client = "open"
    BY <1>1, <1>3, <1>4 DEF Link, EndStates
  <1> HIDE DEF x
  <1>6. x \in Good /\ x.up = <<>>
    BY <1>1, <1>5 DEF Good, SpeaksFirst
  <1> QED
    BY <1>6 DEF x, q, p

-----------------------------------------------------------------------------
(***************************************************************************)
(* What the private methods make of the object.                            *)
(***************************************************************************)

LEMMA ObjectsKept ==
  ASSUME NEW k \in Objects, NEW immediate
  PROVE  /\ Rescheduled(k, immediate) \in Objects
         /\ Rescheduled(k, immediate).socket = k.socket
         /\ Rescheduled(k, immediate).active => Rescheduled(k, immediate).timer
         /\ Detached(k) \in Objects /\ Detached(k).socket = None
         /\ Detached(k).active = k.active
         /\ ShutDown(k) \in Objects /\ ~ShutDown(k).active
         /\ ShutDown(k).socket = IF k.active THEN None ELSE k.socket
  <1>1. Rescheduled(k, immediate) \in Objects
    <2> DEFINE a == IF immediate \/ k.attempt = MaxAttempt THEN k.attempt ELSE k.attempt + 1
    <2>1. a \in 0 .. MaxAttempt
      BY ClientAssumption DEF Objects
    <2>2. CASE k.active
      <3>1. Rescheduled(k, immediate)
              = [k EXCEPT !.timer = TRUE, !.status = "disconnected", !.attempt = a]
        BY <2>2 DEF Rescheduled
      <3> HIDE DEF a
      <3> QED
        BY <2>1, <3>1 DEF Objects
    <2>3. CASE ~k.active
      BY <2>3 DEF Rescheduled
    <2> QED
      BY <2>2, <2>3
  <1>2. /\ Rescheduled(k, immediate).socket = k.socket
        /\ Rescheduled(k, immediate).active => Rescheduled(k, immediate).timer
    BY DEF Rescheduled, Objects
  <1>3. /\ Detached(k) \in Objects /\ Detached(k).socket = None
        /\ Detached(k).active = k.active
    BY DEF Detached, Objects
  <1>4. /\ ShutDown(k) \in Objects /\ ~ShutDown(k).active
        /\ ShutDown(k).socket = IF k.active THEN None ELSE k.socket
    BY DEF ShutDown, Detached, Objects
  <1> QED
    BY <1>1, <1>2, <1>3, <1>4

\* A step that leaves the object, the calls suspended and the tokens alone, and
\* the client's end of every link.
LEMMA ServerStepKeeps ==
  ASSUME ClientInv, UNCHANGED clientVars, NEW c \in Conns, NEW x,
         Answered(conn[c], x), conn' = [conn EXCEPT ![c] = x]
  PROVE  ClientInv'
  <1>1. conn \in [Conns -> Good] /\ client \in Objects
    BY DEF ClientInv
  <1>2. conn' \in [Conns -> Good] /\ \A d \in Conns : conn'[d].client = conn[d].client
    BY <1>1 DEF Answered
  <1>3. ASSUME client.socket # None
        PROVE  Held(conn'[client.socket])
    BY <1>1, <1>3 DEF ClientInv, Objects, Held, Answered
  <1>4. Started' => Started
    BY <1>2 DEF Started, clientVars
  <1> QED
    BY <1>2, <1>3, <1>4 DEF ClientInv, clientVars, Waits

\* A step that lets go of the socket the field held.
LEMMA LettingGoKeeps ==
  ASSUME ClientInv, UNCHANGED <<opening, resolved>>, Moved(conn, conn'),
         client' \in Objects, client'.socket = None,
         client'.active => client'.timer
  PROVE  ClientInv'
  <1>1. \A c \in Conns :
          IF conn'[c].client = "none" THEN resolved'[c] = None ELSE resolved'[c] \in Tokens
    BY DEF ClientInv, Moved
  <1> QED
    BY <1>1 DEF ClientInv, Moved, Waits

\* A step that reads a frame and keeps the field, the timer and the activity.
LEMMA ReadingKeeps ==
  ASSUME ClientInv, UNCHANGED <<opening, resolved>>, NEW c \in Conns,
         conn[c].client = "open", conn[c].down # <<>>, conn' = Read(c),
         client' \in Objects, client'.socket = client.socket,
         client'.timer = client.timer, client'.active = client.active
  PROVE  ClientInv'
  <1>1. conn \in [Conns -> Good] /\ client \in Objects
    BY DEF ClientInv
  <1> DEFINE x == [conn[c] EXCEPT !.down = Tail(@)]
  <1>2. Answered(conn[c], x)
    BY <1>1, ReadMoves
  <1>3. conn' = [conn EXCEPT ![c] = x]
    BY DEF Read
  <1> HIDE DEF x
  <1>4. conn' \in [Conns -> Good] /\ \A d \in Conns : conn'[d].client = conn[d].client
    BY <1>1, <1>2, <1>3 DEF Answered
  <1>5. ASSUME client.socket # None
        PROVE  Held(conn'[client.socket])
    BY <1>1, <1>2, <1>3, <1>5 DEF ClientInv, Objects, Held, Answered
  <1>6. Started
    BY DEF Started
  <1> QED
    BY <1>4, <1>5, <1>6 DEF ClientInv, Waits

LEMMA ReadMoved ==
  ASSUME conn \in [Conns -> Good], NEW c \in Conns, conn[c].down # <<>>
  PROVE  Moved(conn, Read(c))
  BY ReadMoves, MovedExcept DEF Read, Answered, MovedTo

\* BeginOpen, from an object whose field is the client's.
LEMMA BeginOpenKeeps ==
  ASSUME ClientInv, UNCHANGED <<conn, resolved>>, NEW k \in Objects, BeginOpen(k),
         k.socket = client.socket
  PROVE  ClientInv'
  <1>1. client' \in Objects /\ client'.socket = client.socket
    BY DEF BeginOpen, Objects
  <1>2. k.token \in Tokens
    BY DEF Objects
  <1>3. opening' \in [Tokens -> Nat] /\ opening'[k.token] > 0
    BY <1>2 DEF BeginOpen, ClientInv
  <1>4. Waits(client', opening')
    BY <1>2, <1>3 DEF Waits
  <1> QED
    BY <1>1, <1>3, <1>4 DEF ClientInv

LEMMA OnOpenKeeps ==
  ASSUME ClientInv, NEW c \in Conns, OnOpen(c)
  PROVE  ClientInv'
  <1> DEFINE x == [conn[c] EXCEPT !.client = "open", !.down = Tail(@),
                                  !.protocol = Head(conn[c].down).protocol]
             w == [conn EXCEPT ![c] = x]
             d == client.socket
  <1>1. /\ conn \in [Conns -> Good] /\ client \in Objects
        /\ conn[c].client = "connecting" /\ HeadIs(conn[c].down, "accept")
        /\ UNCHANGED <<opening, resolved>>
    BY DEF ClientInv, OnOpen
  <1>2. x \in Good /\ x.up = <<>>
    BY <1>1, OpenedLink
  <1>3. x.client = "open"
    BY <1>1 DEF Good, Link
  <1>4. w = [conn EXCEPT ![c].client = "open", ![c].down = Tail(@),
                         ![c].protocol = Head(conn[c].down).protocol]
    BY <1>1
  <1> HIDE DEF x
  <1>5. Moved(conn, w) /\ w[c] = x /\ \A e \in Conns : e # c => w[e] = conn[e]
    BY <1>1, <1>2, <1>3, MovedExcept DEF MovedTo
  <1> HIDE DEF w
  <1>6. Started
    BY <1>1 DEF Started
  <1>7. CASE d = None
    <2>1. conn' = w /\ UNCHANGED client
      BY <1>4, <1>7 DEF OnOpen
    <2>2. client.active => Waits(client, opening)
      BY <1>6 DEF ClientInv
    <2>3. \A e \in Conns :
            IF w[e].client = "none" THEN resolved[e] = None ELSE resolved[e] \in Tokens
      BY <1>5 DEF ClientInv, Moved
    <2> QED
      BY <1>1, <1>5, <1>7, <2>1, <2>2, <2>3 DEF ClientInv, Moved, Waits
  <1>8. CASE d # None
    <2>1. d \in Conns /\ Held(conn[d])
      BY <1>1, <1>8 DEF ClientInv, Objects
    <2>2. resolved[c] \in Tokens
      BY <1>1 DEF ClientInv
    <2>3. PICK n \in Nat : /\ client' = [client EXCEPT !.last = n]
                           /\ conn' = [w EXCEPT ![d] = ClientSend(@, Subscribe(resolved[c], n))]
      <3> DEFINE n == IF w[d].protocol = "lsdp.v1.1" /\ client.last # Fresh
                      THEN client.last ELSE 0
      <3>1. n \in Nat
        BY <1>1 DEF Objects
      <3>2. /\ client' = [client EXCEPT !.last = n]
            /\ conn' = [w EXCEPT ![d] = ClientSend(@, Subscribe(resolved[c], n))]
        BY <1>4, <1>8 DEF OnOpen
      <3> HIDE DEF n
      <3> QED
        BY <3>1, <3>2
    <2>4. /\ w[d] \in Good /\ (w[d].up = <<>> \/ Subscribed(w[d]))
          /\ w[d].client \in {"connecting", "open"}
      BY <1>2, <1>3, <1>5, <2>1 DEF Moved, Held
    <2> DEFINE y == ClientSend(w[d], Subscribe(resolved[c], n))
    <2>5. MovedTo(w[d], y) /\ y.client = w[d].client /\ Subscribed(y)
      BY <2>2, <2>4, SubscribeMoves
    <2>6. conn' = [w EXCEPT ![d] = y]
      BY <2>3
    <2> HIDE DEF y
    <2>7. Moved(conn, conn') /\ Held(conn'[d])
      <3>1. w \in [Conns -> Good]
        BY <1>5 DEF Moved
      <3>2. Moved(w, conn')
        BY <2>1, <2>5, <2>6, <3>1, MovedExcept
      <3>3. conn'[d] = y
        BY <2>1, <2>6, <3>1
      <3> QED
        BY <1>5, <2>4, <2>5, <3>2, <3>3, MovedTransitive DEF Held
    <2>8. client' \in Objects /\ client'.socket = d
      BY <1>1, <2>3 DEF Objects
    <2>9. \A e \in Conns :
            IF conn'[e].client = "none" THEN resolved[e] = None ELSE resolved[e] \in Tokens
      BY <2>7 DEF ClientInv, Moved
    <2> QED
      BY <1>1, <1>8, <2>7, <2>8, <2>9 DEF ClientInv, Moved, Waits
  <1> QED
    BY <1>7, <1>8

LEMMA TokenResolvedKeeps ==
  ASSUME ClientInv, NEW t \in Tokens, NEW c, TokenResolved(t, c)
  PROVE  ClientInv'
  <1>1. /\ c \in Conns /\ conn[c].client = "none"
        /\ conn \in [Conns -> Good] /\ client \in Objects
        /\ resolved \in [Conns -> Tokens \cup {None}]
    BY DEF TokenResolved, Unused, ClientInv
  <1>2. opening' \in [Tokens -> Nat]
    BY DEF TokenResolved, ClientInv
  <1>3. CASE client.active
    <2> DEFINE x == [conn[c] EXCEPT !.client = "connecting"]
    <2>1. /\ conn' = [conn EXCEPT ![c] = x]
          /\ client' = [client EXCEPT !.socket = c]
          /\ resolved' = [resolved EXCEPT ![c] = t]
      BY <1>1, <1>3 DEF TokenResolved, Made
    <2>2. x \in Good /\ x.client = "connecting"
      <3>1. x \in Link(UpMsgs, DownMsgs) /\ x.up = conn[c].up /\ x.client = "connecting"
        BY <1>1 DEF Good, Link, EndStates
      <3>2. conn[c].up = <<>>
        BY <1>1 DEF Good, SpeaksFirst
      <3> HIDE DEF x
      <3> QED
        BY <3>1, <3>2 DEF Good, SpeaksFirst
    <2> HIDE DEF x
    <2>3. conn' \in [Conns -> Good] /\ Held(conn'[c])
      BY <1>1, <2>1, <2>2 DEF Held, Subscribed
    <2>4. client' \in Objects /\ client'.socket = c
      BY <1>1, <2>1 DEF Objects
    <2>5. resolved' \in [Conns -> Tokens \cup {None}]
      BY <1>1, <2>1
    <2>6. \A e \in Conns :
            IF conn'[e].client = "none" THEN resolved'[e] = None ELSE resolved'[e] \in Tokens
      BY <1>1, <2>1, <2>2 DEF ClientInv
    <2>7. Waits(client', opening')
      BY <1>1, <2>4, ClientAssumption DEF Waits
    <2> QED
      BY <1>2, <2>3, <2>4, <2>5, <2>6, <2>7 DEF ClientInv
  <1>4. CASE ~client.active
    BY <1>2, <1>4 DEF TokenResolved, ClientInv
  <1> QED
    BY <1>3, <1>4

LEMMA ClientInvStep == ClientInv /\ [Next]_vars => ClientInv'
  <1> SUFFICES ASSUME ClientInv, [Next]_vars PROVE ClientInv'
    OBVIOUS
  <1> USE DEF ClientInv
  <1>1. CASE Start
    BY <1>1, BeginOpenKeeps DEF Start
  <1>2. CASE CloseClient
    <2>1. /\ client' = ShutDown(client) /\ conn' = LinksShutDown(client, conn)
          /\ UNCHANGED <<opening, resolved>> /\ client.active
      BY <1>2 DEF CloseClient
    <2> QED
      BY <2>1, ObjectsKept, LinksClosedMoves, LettingGoKeeps
  <1>3. ASSUME NEW t \in Tokens, SetToken(t)
        PROVE  ClientInv'
    <2> DEFINE k == [client EXCEPT !.token = t]
    <2>1. k \in Objects /\ k.socket = client.socket /\ k.active = client.active
          /\ k.timer = client.timer /\ k.status = client.status /\ k.attempt = client.attempt
      BY DEF Objects
    <2>2. UNCHANGED <<opening, resolved>>
      BY <1>3 DEF SetToken
    <2>3. CASE client.active /\ client.socket # None
      <3>1. conn' = LinksClosed(k, conn) /\ client' = Rescheduled(Detached(k), TRUE)
        BY <1>3, <2>3 DEF SetToken
      <3> HIDE DEF k
      <3>2. Detached(k) \in Objects /\ Detached(k).socket = None
        BY <2>1, ObjectsKept
      <3>3. client' \in Objects /\ client'.socket = None /\ (client'.active => client'.timer)
        BY <3>1, <3>2, ObjectsKept
      <3> QED
        BY <2>1, <2>2, <3>1, <3>3, LinksClosedMoves, LettingGoKeeps
    <2>4. CASE ~(client.active /\ client.socket # None)
      <3>1. client' = k /\ UNCHANGED conn
        BY <1>3, <2>4 DEF SetToken
      <3> HIDE DEF k
      <3>2. Started' => Started
        BY <2>1, <2>2, <3>1 DEF Started
      <3> QED
        BY <2>1, <2>2, <3>1, <3>2 DEF Waits
    <2> QED
      BY <2>3, <2>4
  <1>4. ASSUME NEW p \in Inputs, SendInput(p)
        PROVE  ClientInv'
    <2> DEFINE d == client.socket
    <2>1. d \in Conns /\ Held(conn[d])
      BY <1>4 DEF SendInput, Objects
    <2>2. /\ conn' = [conn EXCEPT ![d] = ClientSend(conn[d], Input(p))]
          /\ UNCHANGED clientVars
      BY <1>4 DEF SendInput
    <2>3. Answered(conn[d], ClientSend(conn[d], Input(p)))
      BY <2>1, InputMoves
    <2> QED
      BY <2>1, <2>2, <2>3, ServerStepKeeps
  <1>5. CASE TimerFires
    <2> DEFINE k == [client EXCEPT !.timer = FALSE]
    <2>1. k \in Objects /\ k.socket = client.socket
      BY DEF Objects
    <2>2. BeginOpen(k) /\ UNCHANGED <<conn, resolved>>
      BY <1>5 DEF TimerFires
    <2> HIDE DEF k
    <2> QED
      BY <2>1, <2>2, BeginOpenKeeps
  <1>6. ASSUME NEW t \in Tokens, OpenFails(t)
        PROVE  ClientInv'
    <2>1. client' = Rescheduled(client, FALSE) /\ UNCHANGED <<conn, resolved>>
      BY <1>6 DEF OpenFails
    <2>2. opening' \in [Tokens -> Nat]
      BY <1>6 DEF OpenFails
    <2>3. /\ client' \in Objects /\ client'.socket = client.socket
          /\ client'.active => client'.timer
      BY <2>1, ObjectsKept
    <2> QED
      BY <2>1, <2>2, <2>3 DEF Waits
  <1>7. ASSUME NEW t \in Tokens, NEW c, TokenResolved(t, c)
        PROVE  ClientInv'
    BY <1>7, TokenResolvedKeeps
  <1>8. ASSUME NEW c \in Conns, OnOpen(c)
        PROVE  ClientInv'
    BY <1>8, OnOpenKeeps
  <1>9. ASSUME NEW c \in Conns, OnMessage(c)
        PROVE  ClientInv'
    <2>1. conn[c].client = "open" /\ conn[c].down # <<>> /\ UNCHANGED <<opening, resolved>>
      BY <1>9 DEF OnMessage, OnBreakingFrame, OnSnapshot, OnDelta, OnSceneChanged,
                  OnError, OnOutOfBand, Receives, HeadIs, clientVars
    <2>2. Moved(conn, Read(c)) /\ Read(c) \in [Conns -> Good]
      BY <2>1, ReadMoved DEF Moved
    <2>3. conn[c] \in Link(UpMsgs, DownMsgs) /\ conn[c].down \in Seq(DownMsgs)
      BY DEF Good, Link
    <2>4. Frame(c) \in DownMsgs
      BY <2>1, <2>3, HeadTailProperties DEF Frame
    <2>5. Frame(c).type \in {"snapshot", "delta"} => Frame(c).seq \in Nat
      BY <2>4, ClientAssumption DEF DownMsgs, CloseFrames
    <2>6. CASE OnBreakingFrame(c)
      <3>1. conn' = LinksClosed(client, Read(c)) /\ client' = Rescheduled(Detached(client), FALSE)
        BY <2>6 DEF OnBreakingFrame
      <3>2. Detached(client) \in Objects /\ Detached(client).socket = None
        BY ObjectsKept
      <3>3. client' \in Objects /\ client'.socket = None /\ (client'.active => client'.timer)
        BY <3>1, <3>2, ObjectsKept
      <3>4. Moved(conn, conn')
        BY <2>2, <3>1, LinksClosedMoves, MovedTransitive
      <3> QED
        BY <2>1, <3>3, <3>4, LettingGoKeeps
    <2>7. CASE OnSnapshot(c)
      <3> DEFINE n == Rebased(client.last, Frame(c).seq)
      <3>1. conn' = Read(c)
            /\ client' = [client EXCEPT !.last = n, !.attempt = 0, !.status = "live"]
        BY <2>7 DEF OnSnapshot
      <3>2. n \in Nat /\ 0 \in 0 .. MaxAttempt
        BY <2>5, <2>7, ClientAssumption
           DEF OnSnapshot, Receives, HeadIs, Frame, Rebased, Objects
      <3> HIDE DEF n
      <3>3. client' \in Objects /\ client'.socket = client.socket
            /\ client'.timer = client.timer /\ client'.active = client.active
        BY <3>1, <3>2 DEF Objects
      <3> QED
        BY <2>1, <3>1, <3>3, ReadingKeeps
    <2>8. CASE OnDelta(c)
      <3>1. conn' = Read(c)
            /\ client' = [client EXCEPT !.last = Observed(@, Frame(c).seq)]
        BY <2>8 DEF OnDelta
      <3>2. Observed(client.last, Frame(c).seq) \in Nat
        BY <2>5, <2>8 DEF OnDelta, Receives, HeadIs, Frame, Observed, Objects
      <3>3. client' \in Objects /\ client'.socket = client.socket
            /\ client'.timer = client.timer /\ client'.active = client.active
        BY <3>1, <3>2 DEF Objects
      <3> QED
        BY <2>1, <3>1, <3>3, ReadingKeeps
    <2>9. CASE OnSceneChanged(c)
      <3>1. conn' = Read(c) /\ client' = [client EXCEPT !.last = Fresh]
        BY <2>9 DEF OnSceneChanged
      <3>2. client' \in Objects /\ client'.socket = client.socket
            /\ client'.timer = client.timer /\ client'.active = client.active
        BY <3>1 DEF Objects, Fresh
      <3> QED
        BY <2>1, <3>1, <3>2, ReadingKeeps
    <2>10. CASE OnError(c)
      <3>1. CASE Frame(c).recoverable \/ ~client.active
        <4>1. conn' = Read(c) /\ UNCHANGED client
          BY <2>10, <3>1 DEF OnError, LinksShutDown, ShutDown
        <4> QED
          BY <2>1, <4>1, ReadingKeeps
      <3>2. CASE ~Frame(c).recoverable /\ client.active
        <4>1. conn' = LinksShutDown(client, Read(c)) /\ client' = ShutDown(client)
          BY <2>10, <3>2 DEF OnError
        <4>2. Moved(conn, conn')
          BY <2>2, <4>1, LinksClosedMoves, MovedTransitive
        <4> QED
          BY <2>1, <3>2, <4>1, <4>2, ObjectsKept, LettingGoKeeps
      <3> QED
        BY <3>1, <3>2
    <2>11. CASE OnOutOfBand(c)
      <3>1. conn' = Read(c) /\ UNCHANGED client
        BY <2>11 DEF OnOutOfBand, clientVars
      <3> QED
        BY <2>1, <3>1, ReadingKeeps
    <2> QED
      BY <1>9, <2>6, <2>7, <2>8, <2>9, <2>10, <2>11 DEF OnMessage
  <1>10. ASSUME NEW c \in Conns, OnClose(c)
         PROVE  ClientInv'
    <2> DEFINE k == Detached(client)
    <2>1. /\ k \in Objects /\ k.socket = None /\ k.active = client.active
      BY ObjectsKept
    <2>2. \/ ~client.active /\ client' = [k EXCEPT !.status = "disconnected"]
          \/ client.active /\ client' = ShutDown(k)
          \/ client.active /\ client' = Rescheduled(k, FALSE)
      BY <1>10 DEF OnClose
    <2> HIDE DEF k
    <2>3. client' \in Objects /\ client'.socket = None /\ (client'.active => client'.timer)
      <3>1. CASE ~client.active /\ client' = [k EXCEPT !.status = "disconnected"]
        BY <2>1, <3>1 DEF Objects
      <3>2. CASE client.active /\ client' = ShutDown(k)
        BY <2>1, <3>2, ObjectsKept
      <3>3. CASE client.active /\ client' = Rescheduled(k, FALSE)
        BY <2>1, <3>3, ObjectsKept
      <3> QED
        BY <2>2, <3>1, <3>2, <3>3
    <2>4. Moved(conn, conn')
      BY <1>10, ClosedMoves, MovedExcept DEF OnClose
    <2> QED
      BY <1>10, <2>3, <2>4, LettingGoKeeps DEF OnClose
  <1>11. ASSUME NEW c \in Conns, NEW p \in Negotiable, ServerAccepts(c, p)
         PROVE  ClientInv'
    BY <1>11, AcceptAnswers, ServerStepKeeps DEF ServerAccepts
  <1>12. ASSUME NEW c \in Conns, NEW f \in ServerFrames, ServerSends(c, f)
         PROVE  ClientInv'
    <2>1. /\ conn' = [conn EXCEPT ![c] = ServerSend(conn[c], <<f>>)] /\ UNCHANGED clientVars
      BY <1>12 DEF ServerSends
    <2>2. Answered(conn[c], ServerSend(conn[c], <<f>>))
      BY SendAnswers
    <2> QED
      BY <2>1, <2>2, ServerStepKeeps
  <1>13. ASSUME NEW c \in Conns, NEW code \in CloseCodes, ServerCloses(c, code)
         PROVE  ClientInv'
    BY <1>13, CloseAnswers, ServerStepKeeps DEF ServerCloses
  <1>14. ASSUME NEW c \in Conns, ServerSeesClose(c)
         PROVE  ClientInv'
    <2> DEFINE last == IF conn[c].up = <<>> THEN <<>> ELSE <<Last(conn[c].up)>>
               x == ServerClosed([conn[c] EXCEPT !.up = last])
    <2>1. Answered(conn[c], x)
      BY <1>14, ServerClosedAnswers DEF ServerSeesClose
    <2>2. conn' = [conn EXCEPT ![c] = x] /\ UNCHANGED clientVars
      BY <1>14 DEF ServerSeesClose
    <2> HIDE DEF x
    <2> QED
      BY <2>1, <2>2, ServerStepKeeps
  <1>15. ASSUME NEW c \in Conns, CutOff(c)
         PROVE  ClientInv'
    BY <1>15, SeveredAnswers, ServerStepKeeps DEF CutOff, Cut
  <1>16. CASE UNCHANGED vars
    BY <1>16 DEF vars, clientVars, Started, Waits, Held, Subscribed
  <1> QED
    BY <1>1, <1>2, <1>3, <1>4, <1>5, <1>6, <1>7, <1>8, <1>9, <1>10, <1>11, <1>12, <1>13,
       <1>14, <1>15, <1>16 DEF Next, HostCalls, Opens, OnEvent

LEMMA ClientInvariant == Spec => []ClientInv
  BY ClientInvInit, ClientInvStep, PTL DEF Spec

\* Every variable keeps its type, and a connection remembers a token exactly when
\* it was made.
THEOREM ClientTypeCorrect == Spec => []TypeOK
  <1>1. ClientInv => TypeOK
    BY DEF ClientInv, TypeOK, TypeOKLink, TypeOKClient, Objects, Good, Link,
           ServerStates, Unused
  <1> QED
    BY <1>1, ClientInvariant, PTL

\* A client that was started and not closed always has something that will wake
\* it: a live socket, an armed timer or a suspended openSocket.
THEOREM ClientNeverStranded == Spec => []NeverStranded
  <1>1. ClientInv => NeverStranded
    BY DEF ClientInv, NeverStranded, Waits, Held
  <1> QED
    BY <1>1, ClientInvariant, PTL

\* No connection is spoken on before its subscribe.
THEOREM ClientSubscribesFirst == Spec => []SubscribeComesFirst
  <1>1. ClientInv => SubscribeComesFirst
    BY DEF ClientInv, SubscribeComesFirst, Good, SpeaksFirst
  <1> QED
    BY <1>1, ClientInvariant, PTL

\* The socket the field holds carries its subscribe once it is open, whichever
\* socket's onopen sent it.
THEOREM ClientHeldIsSubscribed == Spec => []HeldSocketIsSubscribed
  <1>1. ClientInv => HeldSocketIsSubscribed
    <2> SUFFICES ASSUME ClientInv, client.socket # None, conn[client.socket].client = "open",
                        conn[client.socket].server # "closed", ~conn[client.socket].cut
                 PROVE  \E i \in DOMAIN conn[client.socket].up :
                            conn[client.socket].up[i].type = "subscribe"
      BY DEF HeldSocketIsSubscribed
    <2> DEFINE q == conn[client.socket].up
    <2>1. q # <<>> /\ Head(q).type = "subscribe"
      BY DEF ClientInv, Held, Subscribed
    <2>2. q \in Seq(UpMsgs)
      BY DEF ClientInv, Objects, Good, Link
    <2> HIDE DEF q
    <2>3. 1 \in DOMAIN q /\ q[1] = Head(q)
      BY <2>1, <2>2, EmptySeq, LenProperties
    <2>4. \E i \in DOMAIN q : q[i].type = "subscribe"
      BY <2>1, <2>3
    <2> QED
      BY <2>4 DEF q
  <1> QED
    BY <1>1, ClientInvariant, PTL
=============================================================================
