---------------------------- MODULE ServerProofs ----------------------------
(***************************************************************************)
(* What the reference server sends and to whom, for any number of clients, *)
(* scenes, tokens and subscribes, against clients that may say anything.   *)
(***************************************************************************)
EXTENDS ServerAnyClients, CommonProofs, FiniteSetTheorems

\* The codes of the close frames, and what travels in each direction.
Closes == [type : {"close"}, code : {1000, 1002, 1008, 1012}]
Datas == [type : {"snapshot", "delta"}, scene : Scenes, seq : Nat \ {0}]
ErrorCodes == {"AUTH_DENIED", "WRITE_FORBIDDEN", "INVALID_VALUE", "INTERNAL"}
Others == [type : {"accept"}, protocol : Protocols] \cup {Pong}
             \cup [type : {"error"}, code : ErrorCodes, recoverable : BOOLEAN]
Upward == ClientFrames \cup Closes
Downward == Datas \cup Others \cup Closes

\* The scene data in a queue, and the listeners that feed c from scene s.
DataOf(q) == {i \in DOMAIN q : SceneData(q[i])}
Feeds(c, s) == {l \in scenes[s].listeners : l[1] = c}

SceneOK(s) ==
    /\ scenes[s] \in [seq : Nat \ {0}, replay : Rings, listeners : SUBSET (Conns \X Nat)]
    /\ Holds(scenes[s].replay, scenes[s].seq)
    /\ IsFiniteSet(scenes[s].listeners)

Subscriptions(c) == [scene : Scenes, listener : {c} \X Nat]

ServerOK ==
    /\ conn \in [Conns -> Link(Upward, Downward)]
    /\ DOMAIN scenes = Scenes /\ \A s \in Scenes : SceneOK(s)
    /\ activeScene \in Scenes
    /\ subs \subseteq Conns
    /\ DOMAIN sub = Conns
    /\ \A c \in Conns : sub[c] \in [decision : {None} \cup {Grants[t] : t \in Tokens},
                                    unsubscribe : {None} \cup Subscriptions(c),
                                    subscribes : Nat]
    /\ auths \subseteq [conn : Conns, call : Nat, token : Tokens, since : Nat]
    /\ said \in [Conns -> Seq(ClientFrames)]

\* What is on its way to the server was said, and so was what is being
\* authenticated.
AsSaid(c) ==
    /\ conn[c].client \in {"none", "connecting"} => said[c] = <<>>
    /\ \A i \in DOMAIN conn[c].up : conn[c].up[i].type = "subscribe" =>
           \E k \in Subscribes(c) : said[c][k] = conn[c].up[i]
    /\ \A p \in auths : p.conn = c =>
           \E k \in Subscribes(c) : said[c][k].token = p.token /\ said[c][k].since = p.since

\* Whoever is fed or was sent scene data was let in, to a scene not rejected.
LetIn(c) == \E k \in Subscribes(c) : Grants[said[c][k].token] # None
Due(c) ==
    /\ \A s \in Scenes : Feeds(c, s) # {} => s \notin Rejected /\ LetIn(c)
    /\ \A i \in Data(c) : conn[c].down[i].scene \notin Rejected /\ LetIn(c)

\* An open connection is in reach of detachAllSubscribers, and all it was ever
\* sent is of the scene active now.
Settled(c) ==
    /\ conn[c].server = "open" =>
           /\ c \in subs
           /\ \A s \in Scenes \ {activeScene} : Feeds(c, s) = {}
           /\ \A i \in Data(c) : conn[c].down[i].scene = activeScene
    /\ \A i, j \in Data(c) : conn[c].down[i].scene = conn[c].down[j].scene

-----------------------------------------------------------------------------
\* The data of q is, in order, b + 1 .. n of scene s: a snapshot then deltas, or
\* the deltas past `since`.
Run(q, s, n, since) ==
    \E b \in Nat :
        /\ b <= n
        /\ \A i \in DataOf(q) : q[i].scene = s
        /\ \A i, j \in DataOf(q) : i < j => q[i].seq < q[j].seq
        /\ {q[i].seq : i \in DataOf(q)} = b + 1 .. n
        /\ \A i \in DataOf(q) : q[i].type = "snapshot" => q[i].seq = b + 1
        /\ (\A i \in DataOf(q) : q[i].type # "snapshot") => b = since

IsLive(c) == conn[c].client = "open" /\ conn[c].server = "open" /\ ~conn[c].cut

\* Where the only subscribe of c may be: nowhere, on the wire, being
\* authenticated, or served.
OnWire(c) == {i \in DOMAIN conn[c].up : conn[c].up[i].type = "subscribe"}
Awaited(c) == {p \in auths : p.conn = c}
Untouched(c) ==
    /\ sub[c].unsubscribe = None
    /\ Data(c) = {}
    /\ \A s \in Scenes : Feeds(c, s) = {}
ServedBy(c, s, l) ==
    /\ sub[c].unsubscribe = [scene |-> s, listener |-> l]
    /\ \A t \in Scenes : Feeds(c, t) \subseteq IF t = s THEN {l} ELSE {}
    /\ IsLive(c) => /\ l \in scenes[s].listeners
                    /\ \A k \in Subscribes(c) :
                         Run(conn[c].down, s, scenes[s].seq, said[c][k].since)

Once(c) == \A i, j \in Subscribes(c) : i = j
OnceInv(c) ==
    Once(c) =>
        \/ OnWire(c) = {} /\ Awaited(c) = {} /\ Untouched(c)
        \/ /\ Subscribes(c) # {} /\ Untouched(c)
           /\ \/ (\E i : OnWire(c) = {i}) /\ Awaited(c) = {}
              \/ OnWire(c) = {} /\ (\E p : Awaited(c) = {p})
        \/ /\ Subscribes(c) # {} /\ OnWire(c) = {} /\ Awaited(c) = {}
           /\ \E s \in Scenes, n \in Nat : ServedBy(c, s, Listener(c, n))

ServerInv ==
    ServerOK /\ \A c \in Conns : AsSaid(c) /\ Due(c) /\ Settled(c) /\ OnceInv(c)
-----------------------------------------------------------------------------
\* Lemmas on what the queues of a link carry.

SubsOf(u) == {i \in DOMAIN u : u[i].type = "subscribe"}

\* v carries no subscribe that u does not, and no more than one if u has one.
UpLess(u, v) ==
    /\ \A i \in SubsOf(v) : \E j \in SubsOf(u) : u[j] = v[i]
    /\ \A j : SubsOf(u) = {j} => SubsOf(v) = {} \/ \E i : SubsOf(v) = {i}

\* q carries no scene data that p does not; q carries the data of p in place.
DownLess(p, q) == \A i \in DataOf(q) : \E j \in DataOf(p) : q[i] = p[j]
DownSame(p, q) == DataOf(q) = DataOf(p) /\ \A i \in DataOf(p) : q[i] = p[i]

LEMMA FrameTypes ==
  /\ \A f \in Closes : f.type = "close"
  /\ \A f \in Datas : f.type \in {"snapshot", "delta"} /\ f.scene \in Scenes /\ f.seq \in Nat
  /\ \A f \in Others : f.type \in {"accept", "pong", "error"}
  /\ \A f \in Upward : f.type = "subscribe" =>
        f \in ClientFrames /\ f.token \in Tokens /\ f.since \in Nat
  /\ \A f \in Upward : f.type = "close" => f \in Closes
  /\ \A f \in Downward : f.type = "close" => f \in Closes
  /\ \A f \in Downward : SceneData(f) => f \in Datas
  <1>1. \A f \in Closes : f.type = "close"
    BY DEF Closes
  <1>2. \A f \in Datas : f.type \in {"snapshot", "delta"} /\ f.scene \in Scenes /\ f.seq \in Nat
    BY DEF Datas
  <1>3. \A f \in Others : f.type \in {"accept", "pong", "error"}
    BY DEF Others, Pong
  <1>4. ASSUME NEW f \in Upward, f.type = "subscribe"
        PROVE  f \in ClientFrames /\ f.token \in Tokens /\ f.since \in Nat
    <2>1. f \in ClientFrames
      BY <1>1, <1>4 DEF Upward
    <2> QED
      BY <1>4, <2>1, ClientFramesAssumption
  <1>5. \A f \in Upward : f.type = "close" => f \in Closes
    BY ClientFramesAssumption DEF Upward
  <1>6. \A f \in Downward : f.type = "close" => f \in Closes
    BY <1>2, <1>3 DEF Downward
  <1>7. \A f \in Downward : SceneData(f) => f \in Datas
    BY <1>1, <1>3 DEF Downward, SceneData
  <1> QED
    BY <1>1, <1>2, <1>3, <1>4, <1>5, <1>6, <1>7

Shifted(n, I) == {n + i : i \in I}

\* Where the data is in a queue that has grown.
LEMMA JoinedData ==
  ASSUME NEW S, NEW p \in Seq(S), NEW ms \in Seq(S)
  PROVE  /\ DataOf(p \o ms) = DataOf(p) \cup Shifted(Len(p), DataOf(ms))
         /\ \A i \in DataOf(p) : (p \o ms)[i] = p[i]
         /\ \A i \in DataOf(ms) : (p \o ms)[Len(p) + i] = ms[i]
  <1> DEFINE q == p \o ms
  <1>1. /\ Len(p) \in Nat /\ Len(ms) \in Nat
        /\ DOMAIN p = 1 .. Len(p) /\ DOMAIN ms = 1 .. Len(ms)
        /\ DOMAIN q = 1 .. Len(p) + Len(ms)
        /\ \A i \in 1 .. Len(p) : q[i] = p[i]
        /\ \A i \in 1 .. Len(ms) : q[Len(p) + i] = ms[i]
    BY JoinedQueue
  <1> HIDE DEF q
  <1>2. ASSUME NEW i \in DataOf(q) PROVE i \in DataOf(p) \cup Shifted(Len(p), DataOf(ms))
    <2>1. CASE i \in 1 .. Len(p)
      BY <1>1, <1>2, <2>1 DEF DataOf
    <2>2. CASE i \notin 1 .. Len(p)
      <3>1. i - Len(p) \in 1 .. Len(ms) /\ i = Len(p) + (i - Len(p))
        BY <1>1, <1>2, <2>2 DEF DataOf
      <3>2. i - Len(p) \in DataOf(ms)
        BY <1>1, <1>2, <3>1 DEF DataOf
      <3> QED
        BY <3>1, <3>2 DEF Shifted
    <2> QED
      BY <2>1, <2>2
  <1>3. ASSUME NEW i \in DataOf(p) PROVE i \in DataOf(q) /\ q[i] = p[i]
    BY <1>1, <1>3 DEF DataOf
  <1>4. ASSUME NEW i \in DataOf(ms)
        PROVE  Len(p) + i \in DataOf(q) /\ q[Len(p) + i] = ms[i]
    BY <1>1, <1>4 DEF DataOf
  <1>5. DataOf(q) = DataOf(p) \cup Shifted(Len(p), DataOf(ms))
    BY <1>2, <1>3, <1>4 DEF Shifted
  <1> QED
    BY <1>3, <1>4, <1>5 DEF q

LEMMA JoinedSame ==
  ASSUME NEW S, NEW p \in Seq(S), NEW ms \in Seq(S), DataOf(ms) = {}
  PROVE  DownSame(p, p \o ms)
  <1>1. DataOf(p \o ms) = DataOf(p) \cup Shifted(Len(p), DataOf(ms))
    BY JoinedData
  <1>2. \A i \in DataOf(p) : (p \o ms)[i] = p[i]
    <2>1. DOMAIN p = 1 .. Len(p) /\ \A i \in 1 .. Len(p) : (p \o ms)[i] = p[i]
      BY JoinedQueue
    <2> QED
      BY <2>1 DEF DataOf
  <1>3. Shifted(Len(p), DataOf(ms)) = {}
    BY DEF Shifted
  <1> QED
    BY <1>1, <1>2, <1>3 DEF DownSame

LEMMA DownSameLess ==
  ASSUME NEW p, NEW q, DownSame(p, q)
  PROVE  DownLess(p, q)
  BY DEF DownSame, DownLess

LEMMA UpLessCases ==
  ASSUME NEW S, NEW u \in Seq(S)
  PROVE  /\ UpLess(u, u) /\ UpLess(u, <<>>)
         /\ u # <<>> => UpLess(u, Tail(u))
         /\ \A m \in S : m.type = "close" => UpLess(u, Append(u, m))
  <1>1. UpLess(u, u)
    BY DEF UpLess
  <1>2. UpLess(u, <<>>)
    <2>1. SubsOf(<<>>) = {}
      BY DEF SubsOf
    <2> QED
      BY <2>1 DEF UpLess
  <1>3. ASSUME u # <<>> PROVE UpLess(u, Tail(u))
    <2> DEFINE v == Tail(u)
    <2>1. /\ Len(u) \in Nat \ {0} /\ DOMAIN u = 1 .. Len(u) /\ DOMAIN v = 1 .. Len(u) - 1
          /\ \A i \in DOMAIN v : v[i] = u[i + 1]
      BY <1>3, TailQueue
    <2> HIDE DEF v
    <2>2. ASSUME NEW i \in SubsOf(v) PROVE i \in Nat /\ i + 1 \in SubsOf(u) /\ u[i + 1] = v[i]
      BY <2>1, <2>2 DEF SubsOf
    <2>3. ASSUME NEW j, SubsOf(u) = {j}, SubsOf(v) # {} PROVE \E i : SubsOf(v) = {i}
      <3>1. PICK i \in SubsOf(v) : TRUE
        BY <2>3
      <3>2. \A k \in SubsOf(v) : k \in Nat /\ k + 1 = j
        BY <2>2, <2>3
      <3>3. \A k \in SubsOf(v) : k = i
        BY <3>1, <3>2
      <3> QED
        BY <3>1, <3>3
    <2> QED
      BY <2>2, <2>3 DEF UpLess, v
  <1>4. ASSUME NEW m \in S, m.type = "close" PROVE UpLess(u, Append(u, m))
    <2> DEFINE v == Append(u, m)
    <2>1. /\ Len(u) \in Nat /\ DOMAIN u = 1 .. Len(u) /\ DOMAIN v = 1 .. Len(u) + 1
          /\ \A i \in 1 .. Len(u) : v[i] = u[i]
          /\ v[Len(u) + 1] = m
      BY AppendProperties, LenProperties
    <2> HIDE DEF v
    <2>2. SubsOf(v) = SubsOf(u) /\ \A i \in SubsOf(u) : v[i] = u[i]
      BY <1>4, <2>1 DEF SubsOf
    <2> QED
      BY <2>2 DEF UpLess, v
  <1> QED
    BY <1>1, <1>2, <1>3, <1>4

LEMMA UpLessTransitive ==
  ASSUME NEW u, NEW v, NEW w, UpLess(u, v), UpLess(v, w)
  PROVE  UpLess(u, w)
  <1>1. \A i \in SubsOf(w) : \E j \in SubsOf(u) : u[j] = w[i]
    BY DEF UpLess
  <1>2. ASSUME NEW j, SubsOf(u) = {j} PROVE SubsOf(w) = {} \/ \E i : SubsOf(w) = {i}
    <2>1. SubsOf(v) = {} \/ \E i : SubsOf(v) = {i}
      BY <1>2 DEF UpLess
    <2> QED
      BY <2>1 DEF UpLess
  <1> QED
    BY <1>1, <1>2 DEF UpLess

-----------------------------------------------------------------------------
(***************************************************************************)
(* What an operation on a link that sends no scene data makes of it.       *)
(***************************************************************************)

Carries(w) == w.client = "open" /\ w.server = "open" /\ ~w.cut

\* x is what w may have become: no end reopened, no frame more but what is not
\* data, and nothing lost while both ends are open.
Quieter(w, x) ==
    /\ x.server = "open" => w.server = "open"
    /\ x.client \in {"none", "connecting"} => w.client \in {"none", "connecting"}
    /\ UpLess(w.up, x.up)
    /\ DownLess(w.down, x.down)
    /\ Carries(x) => Carries(w) /\ DownSame(w.down, x.down)

Wire == Link(Upward, Downward)

LEMMA QuieterTransitive ==
  ASSUME NEW w, NEW x, NEW y, Quieter(w, x), Quieter(x, y)
  PROVE  Quieter(w, y)
  <1>1. UpLess(w.up, y.up)
    BY UpLessTransitive DEF Quieter
  <1>2. DownLess(w.down, y.down)
    BY DEF Quieter, DownLess
  <1>3. Carries(y) => Carries(w) /\ DownSame(w.down, y.down)
    BY DEF Quieter, DownSame
  <1>4. /\ y.server = "open" => w.server = "open"
        /\ y.client \in {"none", "connecting"} => w.client \in {"none", "connecting"}
    BY DEF Quieter
  <1> QED
    BY <1>1, <1>2, <1>3, <1>4 DEF Quieter

LEMMA QuieterItself ==
  ASSUME NEW w \in Wire
  PROVE  Quieter(w, w)
  <1>1. UpLess(w.up, w.up)
    BY UpLessCases DEF Wire, Link
  <1>2. DownSame(w.down, w.down) /\ DownLess(w.down, w.down)
    BY DEF DownSame, DownLess
  <1> QED
    BY <1>1, <1>2 DEF Quieter

LEMMA TakenQuieter ==
  ASSUME NEW w \in Wire, w.up # <<>>
  PROVE  LET x == [w EXCEPT !.up = Tail(@)] IN
         /\ x \in Wire /\ x.down = w.down /\ Quieter(w, x)
         /\ x.server = w.server /\ x.client = w.client /\ x.cut = w.cut
         /\ x.up = Tail(w.up)
  <1> DEFINE x == [w EXCEPT !.up = Tail(@)]
  <1>1. w.up \in Seq(Upward) /\ Tail(w.up) \in Seq(Upward) /\ UpLess(w.up, Tail(w.up))
    BY UpLessCases, TailQueue DEF Wire, Link
  <1>2. x \in Wire /\ x.down = w.down /\ x.server = w.server /\ x.client = w.client
        /\ x.cut = w.cut /\ x.up = Tail(w.up)
    BY <1>1 DEF Wire, Link
  <1> HIDE DEF x
  <1>3. DownSame(w.down, x.down) /\ DownLess(w.down, x.down)
    BY <1>2 DEF DownSame, DownLess
  <1>4. Quieter(w, x)
    BY <1>1, <1>2, <1>3 DEF Quieter, Carries
  <1> QED
    BY <1>2, <1>4 DEF x

\* A link whose down queue may have grown by frames that are not data, and whose
\* ends are no more open.
LEMMA GrownQuieter ==
  ASSUME NEW w \in Wire, NEW x \in Wire, NEW ms \in Seq(Downward), DataOf(ms) = {},
         x.down = w.down \/ x.down = w.down \o ms,
         UpLess(w.up, x.up),
         x.client \in {w.client, "closing", "closed"},
         x.server \in {w.server, "closing", "closed"},
         w.cut => x.cut
  PROVE  Quieter(w, x)
  <1>1. w.down \in Seq(Downward)
    BY DEF Wire, Link
  <1>2. DownSame(w.down, w.down \o ms)
    BY <1>1, JoinedSame
  <1>3. DownSame(w.down, x.down)
    <2>1. DownSame(w.down, w.down)
      BY DEF DownSame
    <2> QED
      BY <1>2, <2>1
  <1>4. DownLess(w.down, x.down)
    BY <1>3, DownSameLess
  <1> QED
    BY <1>3, <1>4 DEF Quieter, Carries

\* A link that no longer carries anything, with its down queue emptied.
LEMMA EmptiedQuieter ==
  ASSUME NEW w \in Wire, NEW x \in Wire, DataOf(x.down) = {},
         UpLess(w.up, x.up), ~Carries(x),
         x.client \in {w.client, "closing", "closed"},
         x.server \in {w.server, "closing", "closed"}
  PROVE  Quieter(w, x)
  BY DEF Quieter, DownLess

LEMMA NoDataEmpty == DataOf(<<>>) = {}
  BY DEF DataOf

LEMMA SeveredQuieter ==
  ASSUME NEW w \in Wire
  PROVE  Severed(w) \in Wire /\ Quieter(w, Severed(w))
  <1> DEFINE x == Severed(w)
  <1>1. /\ x \in Wire /\ x.client = w.client /\ x.server = w.server
        /\ x.cut = TRUE /\ x.up = <<>> /\ x.down = <<>>
    <2>1. w \in Link(Upward, Downward)
      BY DEF Wire
    <2>2. /\ x \in Link(Upward, Downward)
          /\ x.client = w.client /\ x.server = w.server
          /\ x.cut = TRUE /\ x.up = <<>> /\ x.down = <<>>
      BY <2>1, SeveredLink
    <2> QED
      BY <2>2 DEF Wire
  <1> HIDE DEF x
  <1>2. UpLess(w.up, x.up)
    BY <1>1, UpLessCases DEF Wire, Link
  <1>3. DataOf(x.down) = {} /\ ~Carries(x)
    BY <1>1, NoDataEmpty DEF Carries
  <1>4. Quieter(w, x)
    BY <1>1, <1>2, <1>3, EmptiedQuieter
  <1> QED
    BY <1>1, <1>4 DEF x

LEMMA SendQuieter ==
  ASSUME NEW w \in Wire, NEW ms \in Seq(Downward), DataOf(ms) = {}
  PROVE  ServerSend(w, ms) \in Wire /\ Quieter(w, ServerSend(w, ms))
  <1> DEFINE x == ServerSend(w, ms)
  <1>1. /\ x \in Wire /\ SameButDown(w, x)
        /\ x.down = IF w.server = "open" /\ w.client \notin {"closing", "closed"} /\ ~w.cut
                    THEN w.down \o ms ELSE w.down
    BY ServerSendLink DEF Wire
  <1> HIDE DEF x
  <1>2. UpLess(w.up, x.up)
    BY <1>1, UpLessCases DEF Wire, Link, SameButDown
  <1>3. x.down = w.down \/ x.down = w.down \o ms
    BY <1>1
  <1>4. Quieter(w, x)
    BY <1>1, <1>2, <1>3, GrownQuieter DEF SameButDown
  <1> QED
    BY <1>1, <1>4 DEF x

LEMMA CloseQueue ==
  ASSUME NEW f \in Closes
  PROVE  <<f>> \in Seq(Downward) /\ DataOf(<<f>>) = {}
  <1>1. f \in Downward /\ ~SceneData(f)
    BY FrameTypes DEF Downward, SceneData
  <1> QED
    BY <1>1 DEF DataOf

LEMMA CloseQuieter ==
  ASSUME NEW w \in Wire, NEW code \in {1000, 1002, 1008, 1012}
  PROVE  ServerClose(w, code) \in Wire /\ Quieter(w, ServerClose(w, code))
         /\ ServerClose(w, code).server # "open"
  <1> DEFINE x == ServerClose(w, code)
             ms == <<CloseFrame(code)>>
  <1>1. CloseFrame(code) \in Closes
    BY DEF CloseFrame, Closes
  <1>2. ms \in Seq(Downward) /\ DataOf(ms) = {}
    BY <1>1, CloseQueue
  <1>3. /\ x \in Wire /\ x.client = w.client /\ x.up = w.up /\ x.cut = w.cut
        /\ x.server = IF w.server = "open" THEN "closing" ELSE w.server
        /\ x.down = IF w.server = "open" /\ ~w.cut THEN w.down \o ms ELSE w.down
    BY <1>1, ServerCloseLink DEF Wire, Downward
  <1> HIDE DEF x, ms
  <1>4. UpLess(w.up, x.up)
    BY <1>3, UpLessCases DEF Wire, Link
  <1>5. x.down = w.down \/ x.down = w.down \o ms
    BY <1>3
  <1>6. Quieter(w, x)
    <2>1. x.server \in {w.server, "closing", "closed"} /\ x \in Wire
          /\ x.client \in {w.client, "closing", "closed"} /\ (w.cut => x.cut)
      BY <1>3
    <2> QED
      BY <1>2, <1>4, <1>5, <2>1, GrownQuieter
  <1> QED
    BY <1>3, <1>6 DEF x

LEMMA ServerClosedQuieter ==
  ASSUME NEW w \in Wire, ServerClosable(w)
  PROVE  ServerClosed(w) \in Wire /\ Quieter(w, ServerClosed(w))
         /\ ServerClosed(w).server # "open"
  <1> DEFINE x == ServerClosed(w)
             f == CloseFrame(Head(w.up).code)
             ms == IF w.cut THEN <<>> ELSE <<f>>
  <1>1. ~w.cut => f \in Closes
    <2>1. ASSUME ~w.cut PROVE f \in Closes
      <3>1. w.up # <<>> /\ Head(w.up).type = "close" /\ w.up \in Seq(Upward)
        BY <2>1 DEF ServerClosable, HeadIs, Wire, Link
      <3>2. Head(w.up) \in Closes
        BY <3>1, TailQueue, FrameTypes
      <3> QED
        BY <3>2 DEF Closes, CloseFrame
    <2> QED
      BY <2>1
  <1>2. ms \in Seq(Downward) /\ DataOf(ms) = {}
    BY <1>1, CloseQueue, NoDataEmpty
  <1>3. w.server = "open" /\ ~w.cut => f \in Downward
    BY <1>1 DEF Downward
  <1>4. /\ x \in Wire /\ x.client = w.client /\ x.up = <<>> /\ x.cut = w.cut
        /\ x.server = "closed"
        /\ x.down = IF w.server = "open" /\ ~w.cut /\ w.client # "closed"
                    THEN w.down \o <<f>> ELSE w.down
    BY <1>3, ServerClosedLink DEF Wire
  <1>5. x.down = w.down \/ x.down = w.down \o ms
    BY <1>4
  <1> HIDE DEF x, ms, f
  <1>6. UpLess(w.up, x.up)
    BY <1>4, UpLessCases DEF Wire, Link
  <1>7. Quieter(w, x)
    BY <1>2, <1>4, <1>5, <1>6, GrownQuieter
  <1> QED
    BY <1>4, <1>7 DEF x

LEMMA CloseFrameUp ==
  /\ CloseFrame(1000) \in Upward
  /\ CloseFrame(1000).type = "close"
  /\ \A f \in Closes : CloseFrame(f.code) \in Upward /\ CloseFrame(f.code).type = "close"
  BY DEF CloseFrame, Closes, Upward

LEMMA ClientCloseQuieter ==
  ASSUME NEW w \in Wire
  PROVE  ClientClose(w) \in Wire /\ Quieter(w, ClientClose(w))
  <1> DEFINE x == ClientClose(w)
             m == CloseFrame(1000)
  <1>1. m \in Upward /\ m.type = "close"
    BY CloseFrameUp
  <1>2. w \in Link(Upward, Downward)
    BY DEF Wire
  <1>3. w.up \in Seq(Upward) /\ w.down \in Seq(Downward)
    BY DEF Wire, Link
  <1>4. /\ x \in Link(Upward, Downward)
        /\ x.server = w.server
        /\ x.client = IF w.client \in {"connecting", "open"} THEN "closing" ELSE w.client
        /\ x.up \in {w.up, <<>>, Append(w.up, m)}
        /\ x.down \in {w.down, <<>>, CloseOnly(w.down)}
    BY <1>1, <1>2, ClientCloseLink
  <1>5. CASE w.client \notin {"connecting", "open"}
    <2>1. x = w
      BY <1>5 DEF ClientClose
    <2> QED
      BY <2>1, QuieterItself
  <1>6. CASE w.client \in {"connecting", "open"}
    <2>1. x.down \in {<<>>, CloseOnly(w.down)}
      <3>1. CASE w.client = "connecting"
        <4> DEFINE u == Severed(w)
        <4>1. u \in Link(Upward, Downward) /\ u.down = <<>>
          BY <1>2, SeveredLink
        <4>2. x = [u EXCEPT !.client = "closing"]
          BY <3>1 DEF ClientClose
        <4> HIDE DEF u, x
        <4> QED
          BY <4>1, <4>2 DEF Link
      <3>2. CASE w.client = "open"
        <4> DEFINE u == Up(w, m)
        <4>1. u \in Link(Upward, Downward) /\ SameButUp(w, u)
          BY <1>1, <1>2, UpLink
        <4>2. x = [u EXCEPT !.client = "closing", !.down = CloseOnly(@)]
          BY <3>2 DEF ClientClose
        <4> HIDE DEF u, x
        <4>3. x.down = CloseOnly(w.down)
          BY <4>1, <4>2 DEF Link, SameButUp
        <4> QED
          BY <4>3
      <3> QED
        BY <1>6, <3>1, <3>2
    <2>2. DataOf(CloseOnly(w.down)) = {} /\ DataOf(<<>>) = {}
      BY DEF CloseOnly, DataOf, SceneData
    <2> HIDE DEF x, m
    <2>3. UpLess(w.up, x.up)
      BY <1>1, <1>3, <1>4, UpLessCases
    <2>4. DataOf(x.down) = {} /\ ~Carries(x)
      BY <1>4, <1>6, <2>1, <2>2 DEF Carries
    <2>5. x \in Wire /\ x.client \in {w.client, "closing", "closed"}
          /\ x.server \in {w.server, "closing", "closed"}
      BY <1>4, <1>6 DEF Wire
    <2>6. Quieter(w, x)
      BY <2>3, <2>4, <2>5, EmptiedQuieter
    <2> QED
      BY <2>5, <2>6 DEF x
  <1> QED
    BY <1>5, <1>6

LEMMA ClientClosedQuieter ==
  ASSUME NEW v \in Wire, NEW last \in Seq(Downward),
         ClientClosable([v EXCEPT !.down = last])
  PROVE  LET x == ClientClosed([v EXCEPT !.down = last]) IN x \in Wire /\ Quieter(v, x)
  <1> DEFINE w == [v EXCEPT !.down = last]
             x == ClientClosed(w)
             m == CloseFrame(Head(last).code)
  <1>1. w \in Link(Upward, Downward) /\ w.down = last /\ w.up = v.up /\ w.server = v.server
        /\ w.client = v.client /\ w.cut = v.cut
    BY DEF Wire, Link
  <1>2. ClientClosable(w)
    OBVIOUS
  <1> HIDE DEF w
  <1>3. w.client = "open" /\ ~w.cut => m \in Upward /\ m.type = "close"
    <2>1. ASSUME w.client = "open", ~w.cut PROVE m \in Upward /\ m.type = "close"
      <3>1. last # <<>> /\ Head(last).type = "close"
        BY <1>1, <1>2, <2>1 DEF ClientClosable, HeadIs
      <3>2. Head(last) \in Closes
        BY <3>1, TailQueue, FrameTypes
      <3> QED
        BY <3>2, CloseFrameUp
    <2> QED
      BY <2>1
  <1>4. /\ x \in Link(Upward, Downward)
        /\ x.client = "closed" /\ x.server = w.server
        /\ x.cut = w.cut /\ x.down = <<>>
        /\ x.up \in {w.up, Append(w.up, CloseFrame(Head(w.down).code))}
    BY <1>1, <1>2, <1>3, ClientClosedLink
  <1>5. x.up = v.up \/ (m \in Upward /\ m.type = "close" /\ x.up = Append(v.up, m))
    <2>1. CASE w.client = "open" /\ ~w.cut
      BY <1>1, <1>3, <1>4, <2>1
    <2>2. CASE ~(w.client = "open" /\ ~w.cut)
      <3>1. x = [w EXCEPT !.client = "closed", !.down = <<>>]
        BY <2>2 DEF ClientClosed
      <3> HIDE DEF x
      <3>2. x.up = w.up
        BY <1>1, <3>1 DEF Link
      <3> QED
        BY <1>1, <3>2
    <2> QED
      BY <2>1, <2>2
  <1> HIDE DEF x, m
  <1>6. UpLess(v.up, x.up)
    <2>1. v.up \in Seq(Upward)
      BY DEF Wire, Link
    <2> QED
      BY <1>5, <2>1, UpLessCases
  <1>7. DataOf(x.down) = {} /\ ~Carries(x) /\ x \in Wire
    BY <1>4, NoDataEmpty DEF Carries, Wire
  <1>8. x.client \in {v.client, "closing", "closed"} /\ x.server \in {v.server, "closing", "closed"}
    BY <1>1, <1>4
  <1>9. Quieter(v, x)
    BY <1>6, <1>7, <1>8, EmptiedQuieter
  <1> QED
    BY <1>7, <1>9 DEF x, w

-----------------------------------------------------------------------------
(***************************************************************************)
(* A connection that a step does not serve: its link is quieter, it is fed *)
(* from no more than before, and from the same while it carries.           *)
(***************************************************************************)
Undisturbed(c) ==
    /\ Quieter(conn[c], conn'[c])
    /\ \A s \in Scenes : Feeds(c, s)' \subseteq Feeds(c, s)
    /\ IsLive(c)' => \A s \in Scenes : Feeds(c, s) # {} =>
           Feeds(c, s)' = Feeds(c, s) /\ scenes'[s].seq = scenes[s].seq
    /\ sub'[c].unsubscribe = sub[c].unsubscribe
    /\ \A p \in auths' : p.conn = c => p \in auths
    /\ said'[c] = said[c]
    /\ conn'[c].server = "open" => activeScene' = activeScene /\ (c \in subs => c \in subs')

PeerInv(c) == AsSaid(c) /\ Due(c) /\ Settled(c) /\ OnceInv(c)

LEMMA UndisturbedAsSaid ==
  ASSUME NEW c \in Conns, AsSaid(c), Undisturbed(c)
  PROVE  AsSaid(c)'
  <1>1. Subscribes(c)' = Subscribes(c) /\ said'[c] = said[c]
    BY DEF Undisturbed, Subscribes
  <1>2. conn'[c].client \in {"none", "connecting"} => said'[c] = <<>>
    BY <1>1 DEF AsSaid, Undisturbed, Quieter
  <1>3. \A i \in DOMAIN conn'[c].up : conn'[c].up[i].type = "subscribe" =>
           \E k \in Subscribes(c) : said[c][k] = conn'[c].up[i]
    BY DEF AsSaid, Undisturbed, Quieter, UpLess, SubsOf
  <1>4. \A p \in auths' : p.conn = c =>
           \E k \in Subscribes(c) : said[c][k].token = p.token /\ said[c][k].since = p.since
    BY DEF AsSaid, Undisturbed
  <1> QED
    BY <1>1, <1>2, <1>3, <1>4 DEF AsSaid

LEMMA UndisturbedDue ==
  ASSUME NEW c \in Conns, Due(c), Undisturbed(c)
  PROVE  Due(c)'
  <1>1. LetIn(c)' = LetIn(c)
    BY DEF Undisturbed, LetIn, Subscribes
  <1>2. \A s \in Scenes : Feeds(c, s)' # {} => s \notin Rejected /\ LetIn(c)
    BY DEF Due, Undisturbed
  <1>3. ASSUME NEW i \in Data(c)' PROVE conn'[c].down[i].scene \notin Rejected /\ LetIn(c)
    <2>1. PICK j \in Data(c) : conn[c].down[j] = conn'[c].down[i]
      BY <1>3 DEF Undisturbed, Quieter, DownLess, Data, DataOf
    <2> QED
      BY <2>1 DEF Due
  <1> QED
    BY <1>1, <1>2, <1>3 DEF Due

LEMMA UndisturbedSettled ==
  ASSUME NEW c \in Conns, Settled(c), Undisturbed(c)
  PROVE  Settled(c)'
  <1>1. ASSUME NEW i \in Data(c)' PROVE \E j \in Data(c) : conn[c].down[j] = conn'[c].down[i]
    BY <1>1 DEF Undisturbed, Quieter, DownLess, Data, DataOf
  <1>2. \A i, j \in Data(c)' : conn'[c].down[i].scene = conn'[c].down[j].scene
    BY <1>1 DEF Settled
  <1>3. ASSUME conn'[c].server = "open"
        PROVE  /\ c \in subs'
               /\ \A s \in Scenes \ {activeScene'} : Feeds(c, s)' = {}
               /\ \A i \in Data(c)' : conn'[c].down[i].scene = activeScene'
    <2>1. conn[c].server = "open" /\ activeScene' = activeScene /\ c \in subs'
      BY <1>3 DEF Undisturbed, Quieter, Settled
    <2>2. \A s \in Scenes \ {activeScene'} : Feeds(c, s)' = {}
      BY <2>1 DEF Undisturbed, Settled
    <2> QED
      BY <1>1, <2>1, <2>2 DEF Settled
  <1> QED
    BY <1>2, <1>3 DEF Settled

\* A run depends on the data of the queue only.
LEMMA RunSame ==
  ASSUME NEW p, NEW q, NEW s, NEW n, NEW since, DownSame(p, q), Run(p, s, n, since)
  PROVE  Run(q, s, n, since)
  <1>1. DataOf(q) = DataOf(p) /\ \A i \in DataOf(p) : q[i] = p[i]
    BY DEF DownSame
  <1>2. PICK b \in Nat :
          /\ b <= n
          /\ \A i \in DataOf(p) : p[i].scene = s
          /\ \A i, j \in DataOf(p) : i < j => p[i].seq < p[j].seq
          /\ {p[i].seq : i \in DataOf(p)} = b + 1 .. n
          /\ \A i \in DataOf(p) : p[i].type = "snapshot" => p[i].seq = b + 1
          /\ (\A i \in DataOf(p) : p[i].type # "snapshot") => b = since
    BY DEF Run
  <1>3. {q[i].seq : i \in DataOf(q)} = {p[i].seq : i \in DataOf(p)}
    BY <1>1
  <1>4. /\ \A i \in DataOf(q) : q[i].scene = s
        /\ \A i, j \in DataOf(q) : i < j => q[i].seq < q[j].seq
        /\ \A i \in DataOf(q) : q[i].type = "snapshot" => q[i].seq = b + 1
        /\ (\A i \in DataOf(q) : q[i].type # "snapshot") => b = since
    BY <1>1, <1>2
  <1> QED
    BY <1>2, <1>3, <1>4 DEF Run

\* What becomes of the wire part, the awaited part and the data of a connection.
LEMMA UndisturbedParts ==
  ASSUME NEW c \in Conns, Undisturbed(c)
  PROVE  /\ Subscribes(c)' = Subscribes(c) /\ (Once(c)' <=> Once(c))
         /\ OnWire(c) = {} => OnWire(c)' = {}
         /\ (\E i : OnWire(c) = {i}) => OnWire(c)' = {} \/ \E i : OnWire(c)' = {i}
         /\ Awaited(c)' \subseteq Awaited(c)
         /\ Untouched(c) => Untouched(c)'
  <1>1. Subscribes(c)' = Subscribes(c)
    BY DEF Undisturbed, Subscribes
  <1>2. Once(c)' <=> Once(c)
    BY <1>1 DEF Once
  <1>3. OnWire(c) = SubsOf(conn[c].up) /\ OnWire(c)' = SubsOf(conn'[c].up)
    BY DEF OnWire, SubsOf
  <1>4. OnWire(c) = {} => OnWire(c)' = {}
    BY <1>3 DEF Undisturbed, Quieter, UpLess
  <1>5. (\E i : OnWire(c) = {i}) => OnWire(c)' = {} \/ \E i : OnWire(c)' = {i}
    BY <1>3 DEF Undisturbed, Quieter, UpLess
  <1>6. Awaited(c)' \subseteq Awaited(c)
    BY DEF Undisturbed, Awaited
  <1>7. Data(c) = {} => Data(c)' = {}
    BY DEF Undisturbed, Quieter, DownLess, Data, DataOf
  <1>8. Untouched(c) => Untouched(c)'
    BY <1>7 DEF Untouched, Undisturbed
  <1> QED
    BY <1>1, <1>2, <1>4, <1>5, <1>6, <1>8

LEMMA UndisturbedServed ==
  ASSUME NEW c \in Conns, Undisturbed(c), NEW s \in Scenes, NEW n \in Nat,
         ServedBy(c, s, Listener(c, n))
  PROVE  ServedBy(c, s, Listener(c, n))'
  <1> DEFINE l == Listener(c, n)
  <1>1. l[1] = c
    BY DEF Listener
  <1> HIDE DEF l
  <1>2. sub'[c].unsubscribe = [scene |-> s, listener |-> l]
    BY DEF ServedBy, Undisturbed, l
  <1>3. \A t \in Scenes : Feeds(c, t)' \subseteq IF t = s THEN {l} ELSE {}
    BY DEF ServedBy, Undisturbed, l
  <1>4. ASSUME IsLive(c)'
        PROVE  /\ l \in scenes'[s].listeners
               /\ \A k \in Subscribes(c)' : Run(conn'[c].down, s, scenes'[s].seq, said'[c][k].since)
    <2>1. IsLive(c) /\ DownSame(conn[c].down, conn'[c].down)
      BY <1>4 DEF IsLive, Undisturbed, Quieter, Carries
    <2>2. l \in scenes[s].listeners
          /\ \A k \in Subscribes(c) : Run(conn[c].down, s, scenes[s].seq, said[c][k].since)
      BY <2>1 DEF ServedBy, l
    <2>3. l \in Feeds(c, s)
      BY <1>1, <2>2 DEF Feeds
    <2>4. l \in Feeds(c, s)' /\ scenes'[s].seq = scenes[s].seq
      BY <1>4, <2>3 DEF Undisturbed
    <2>5. l \in scenes'[s].listeners
      BY <2>4 DEF Feeds
    <2>6. Subscribes(c)' = Subscribes(c) /\ said'[c] = said[c]
      BY DEF Undisturbed, Subscribes
    <2>7. \A k \in Subscribes(c) : Run(conn'[c].down, s, scenes[s].seq, said[c][k].since)
      BY <2>1, <2>2, RunSame
    <2> QED
      BY <2>4, <2>5, <2>6, <2>7
  <1> QED
    BY <1>2, <1>3, <1>4 DEF ServedBy, l, Listener

LEMMA UndisturbedOnce ==
  ASSUME NEW c \in Conns, OnceInv(c), Undisturbed(c)
  PROVE  OnceInv(c)'
  <1> SUFFICES ASSUME Once(c)' PROVE OnceInv(c)'
    BY DEF OnceInv
  <1>1. /\ Subscribes(c)' = Subscribes(c) /\ Once(c)
        /\ OnWire(c) = {} => OnWire(c)' = {}
        /\ (\E i : OnWire(c) = {i}) => OnWire(c)' = {} \/ \E i : OnWire(c)' = {i}
        /\ Awaited(c)' \subseteq Awaited(c)
        /\ Untouched(c) => Untouched(c)'
    BY UndisturbedParts
  <1>2. CASE OnWire(c) = {} /\ Awaited(c) = {} /\ Untouched(c)
    BY <1>1, <1>2 DEF OnceInv
  <1>3. CASE /\ Subscribes(c) # {} /\ Untouched(c)
             /\ (\E i : OnWire(c) = {i}) /\ Awaited(c) = {}
    BY <1>1, <1>3 DEF OnceInv
  <1>4. CASE /\ Subscribes(c) # {} /\ Untouched(c)
             /\ OnWire(c) = {} /\ \E p : Awaited(c) = {p}
    <2>1. Awaited(c)' = {} \/ \E p : Awaited(c)' = {p}
      BY <1>1, <1>4
    <2> QED
      BY <1>1, <1>4, <2>1 DEF OnceInv
  <1>5. CASE /\ Subscribes(c) # {} /\ OnWire(c) = {} /\ Awaited(c) = {}
             /\ \E s \in Scenes, n \in Nat : ServedBy(c, s, Listener(c, n))
    <2>1. PICK s \in Scenes, n \in Nat : ServedBy(c, s, Listener(c, n))
      BY <1>5
    <2>2. ServedBy(c, s, Listener(c, n))'
      BY <2>1, UndisturbedServed
    <2> QED
      BY <1>1, <1>5, <2>2 DEF OnceInv
  <1> QED
    BY <1>1, <1>2, <1>3, <1>4, <1>5 DEF OnceInv

LEMMA UndisturbedKeeps ==
  ASSUME NEW c \in Conns, PeerInv(c), Undisturbed(c)
  PROVE  PeerInv(c)'
  BY UndisturbedAsSaid, UndisturbedDue, UndisturbedSettled, UndisturbedOnce DEF PeerInv

-----------------------------------------------------------------------------
(***************************************************************************)
(* What the operations on the scenes make of them.                         *)
(***************************************************************************)
LEMMA UnsubscribedScenes ==
  ASSUME ServerOK, NEW C \in SUBSET Conns, scenes' = Unsubscribed(C)
  PROVE  /\ DOMAIN scenes' = Scenes
         /\ \A s \in Scenes :
              /\ SceneOK(s)'
              /\ scenes'[s].seq = scenes[s].seq /\ scenes'[s].replay = scenes[s].replay
              /\ \A c \in Conns : /\ Feeds(c, s)' \subseteq Feeds(c, s)
                                  /\ c \notin C => Feeds(c, s)' = Feeds(c, s)
  <1> DEFINE Gone(s) == { sub[c].unsubscribe.listener : c \in
                            { d \in C : sub[d].unsubscribe # None
                                         /\ sub[d].unsubscribe.scene = s } }
  <1>1. scenes' = [s \in Scenes |-> [scenes[s] EXCEPT !.listeners = @ \ Gone(s)]]
    BY DEF Unsubscribed
  <1>2. ASSUME NEW s \in Scenes, NEW l \in Gone(s) PROVE l[1] \in C
    <2>1. PICK c \in C : sub[c].unsubscribe # None /\ l = sub[c].unsubscribe.listener
      BY <1>2
    <2>2. sub[c].unsubscribe \in Subscriptions(c)
      BY <2>1 DEF ServerOK
    <2>3. l \in {c} \X Nat
      BY <2>1, <2>2 DEF Subscriptions
    <2> QED
      BY <2>3
  <1> HIDE DEF Gone
  <1>3. ASSUME NEW s \in Scenes
        PROVE  /\ SceneOK(s)'
               /\ scenes'[s].seq = scenes[s].seq /\ scenes'[s].replay = scenes[s].replay
               /\ scenes'[s].listeners = scenes[s].listeners \ Gone(s)
    <2>1. SceneOK(s)
      BY DEF ServerOK
    <2>2. scenes'[s] = [scenes[s] EXCEPT !.listeners = @ \ Gone(s)]
      BY <1>1
    <2>3. /\ scenes'[s] \in [seq : Nat \ {0}, replay : Rings, listeners : SUBSET (Conns \X Nat)]
          /\ scenes'[s].seq = scenes[s].seq /\ scenes'[s].replay = scenes[s].replay
          /\ scenes'[s].listeners = scenes[s].listeners \ Gone(s)
      BY <2>1, <2>2 DEF SceneOK
    <2>4. IsFiniteSet(scenes'[s].listeners)
      <3>1. IsFiniteSet(scenes[s].listeners) /\ scenes'[s].listeners \subseteq scenes[s].listeners
        BY <2>1, <2>3 DEF SceneOK
      <3> QED
        BY <3>1, FS_Subset
    <2>5. Holds(scenes'[s].replay, scenes'[s].seq)
      BY <2>1, <2>3 DEF SceneOK
    <2> QED
      BY <2>3, <2>4, <2>5 DEF SceneOK
  <1>4. ASSUME NEW s \in Scenes, NEW c \in Conns
        PROVE  /\ Feeds(c, s)' \subseteq Feeds(c, s)
               /\ c \notin C => Feeds(c, s)' = Feeds(c, s)
    BY <1>2, <1>3 DEF Feeds
  <1> QED
    BY <1>1, <1>3, <1>4

\* Only c's link changes, and grows quieter; of the rest nothing that c or its
\* neighbours are served by.
LEMMA QuietStep ==
  ASSUME ServerOK, NEW c \in Conns, NEW x \in Wire, Quieter(conn[c], x),
         conn' = [conn EXCEPT ![c] = x],
         scenes' = scenes, activeScene' = activeScene, subs' = subs, said' = said,
         auths' \subseteq auths,
         DOMAIN sub' = Conns,
         \A d \in Conns : sub'[d] \in [decision : {None} \cup {Grants[t] : t \in Tokens},
                                       unsubscribe : {None} \cup Subscriptions(d),
                                       subscribes : Nat]
                          /\ sub'[d].unsubscribe = sub[d].unsubscribe
  PROVE  ServerOK' /\ \A d \in Conns : Undisturbed(d)
  <1>1. conn \in [Conns -> Wire]
    BY DEF ServerOK, Wire
  <1>2. conn' \in [Conns -> Wire] /\ conn'[c] = x /\ \A d \in Conns \ {c} : conn'[d] = conn[d]
    BY <1>1
  <1>3. ASSUME NEW d \in Conns PROVE Undisturbed(d)
    <2>1. Quieter(conn[d], conn'[d])
      BY <1>1, <1>2, QuieterItself
    <2>2. \A s \in Scenes : Feeds(d, s)' = Feeds(d, s)
      BY DEF Feeds
    <2> QED
      BY <2>1, <2>2 DEF Undisturbed
  <1>4. \A s \in Scenes : SceneOK(s)'
    BY DEF ServerOK, SceneOK
  <1>5. ServerOK'
    BY <1>2, <1>4 DEF ServerOK, Wire
  <1> QED
    BY <1>3, <1>5

\* The same when the rest does not change at all.
LEMMA LinkStep ==
  ASSUME ServerOK, NEW c \in Conns, NEW x \in Wire, Quieter(conn[c], x),
         conn' = [conn EXCEPT ![c] = x], UNCHANGED <<serverVars, said>>
  PROVE  ServerOK' /\ \A d \in Conns : Undisturbed(d)
  <1>1. /\ scenes' = scenes /\ activeScene' = activeScene /\ subs' = subs /\ said' = said
        /\ auths' \subseteq auths /\ sub' = sub
    BY DEF serverVars
  <1>2. DOMAIN sub' = Conns
        /\ \A d \in Conns : sub'[d] \in [decision : {None} \cup {Grants[t] : t \in Tokens},
                                         unsubscribe : {None} \cup Subscriptions(d),
                                         subscribes : Nat]
                            /\ sub'[d].unsubscribe = sub[d].unsubscribe
    BY <1>1 DEF ServerOK
  <1> QED
    BY <1>1, <1>2, QuietStep

-----------------------------------------------------------------------------
(***************************************************************************)
(* The steps that serve nobody.                                            *)
(***************************************************************************)
LEMMA OneOther ==
  ASSUME NEW f \in Others
  PROVE  <<f>> \in Seq(Downward) /\ DataOf(<<f>>) = {}
  <1>1. f \in Downward /\ ~SceneData(f)
    BY FrameTypes DEF Downward, SceneData
  <1> QED
    BY <1>1 DEF DataOf

LEMMA ErrorIsOther ==
  \A code \in ErrorCodes, r \in BOOLEAN : ErrorFrame(code, r) \in Others
  BY DEF ErrorFrame, Others

\* Sends f, then closes.
LEMMA SendCloseQuieter ==
  ASSUME NEW w \in Wire, NEW f \in Others, NEW code \in {1000, 1002, 1008, 1012}
  PROVE  LET x == ServerClose(ServerSend(w, <<f>>), code) IN x \in Wire /\ Quieter(w, x)
  <1> DEFINE v == ServerSend(w, <<f>>)
  <1>1. v \in Wire /\ Quieter(w, v)
    <2> DEFINE ms == <<f>>
    <2>1. ms \in Seq(Downward) /\ DataOf(ms) = {}
      BY OneOther
    <2> HIDE DEF ms
    <2>2. ServerSend(w, ms) \in Wire /\ Quieter(w, ServerSend(w, ms))
      BY <2>1, SendQuieter
    <2> QED
      BY <2>2 DEF ms
  <1> HIDE DEF v
  <1>2. ServerClose(v, code) \in Wire /\ Quieter(v, ServerClose(v, code))
    BY <1>1, CloseQuieter
  <1>3. Quieter(w, ServerClose(v, code))
    BY <1>1, <1>2, QuieterTransitive
  <1> QED
    BY <1>2, <1>3 DEF v

LEMMA ReceivedWire ==
  ASSUME ServerOK, NEW c \in Conns, NEW type, Receiving(c, type)
  PROVE  /\ conn[c] \in Wire /\ Taken(c) \in Wire /\ Quieter(conn[c], Taken(c))
         /\ Taken(c).down = conn[c].down /\ Taken(c).server = conn[c].server
         /\ Taken(c).client = conn[c].client /\ Taken(c).cut = conn[c].cut
         /\ Taken(c).up = Tail(conn[c].up)
         /\ conn[c].up # <<>> /\ conn[c].up \in Seq(Upward)
         /\ Head(conn[c].up) \in Upward /\ Head(conn[c].up).type = type
  <1>1. conn[c] \in Wire /\ conn[c].up # <<>> /\ Head(conn[c].up).type = type
    BY DEF ServerOK, Wire, Receiving, HeadIs
  <1>2. conn[c].up \in Seq(Upward)
    BY <1>1 DEF Wire, Link
  <1>3. Head(conn[c].up) \in Upward
    BY <1>1, <1>2, TailQueue
  <1> DEFINE w == conn[c]
             x == [w EXCEPT !.up = Tail(@)]
  <1>4. /\ x \in Wire /\ x.down = w.down /\ Quieter(w, x)
        /\ x.server = w.server /\ x.client = w.client /\ x.cut = w.cut
        /\ x.up = Tail(w.up)
    BY <1>1, TakenQuieter
  <1>5. x = Taken(c)
    BY DEF Taken
  <1> HIDE DEF x
  <1> QED
    BY <1>1, <1>2, <1>3, <1>4, <1>5

\* One frame that is not data in reply, the connection kept.
LEMMA ReplyQuieter ==
  ASSUME ServerOK, NEW c \in Conns, NEW type, Receiving(c, type), NEW f \in Others
  PROVE  ServerSend(Taken(c), <<f>>) \in Wire /\ Quieter(conn[c], ServerSend(Taken(c), <<f>>))
  <1>1. Taken(c) \in Wire /\ Quieter(conn[c], Taken(c))
    BY ReceivedWire
  <1>2. ServerSend(Taken(c), <<f>>) \in Wire /\ Quieter(Taken(c), ServerSend(Taken(c), <<f>>))
    BY <1>1, OneOther, SendQuieter
  <1> QED
    BY <1>1, <1>2, QuieterTransitive

LEMMA RefuseConnectionKeeps ==
  ASSUME ServerOK, NEW c \in Conns, RefuseConnection(c), said' = said
  PROVE  ServerOK' /\ \A d \in Conns : Undisturbed(d)
  <1> DEFINE x == Severed(conn[c])
  <1>1. conn[c] \in Wire
    BY DEF ServerOK, Wire
  <1>2. x \in Wire /\ Quieter(conn[c], x)
    BY <1>1, SeveredQuieter
  <1>3. conn' = [conn EXCEPT ![c] = x] /\ UNCHANGED <<serverVars, said>>
    BY DEF RefuseConnection
  <1> HIDE DEF x
  <1> QED
    BY <1>2, <1>3, LinkStep

LEMMA CutOffKeeps ==
  ASSUME ServerOK, NEW c \in Conns, CutOff(c)
  PROVE  ServerOK' /\ \A d \in Conns : Undisturbed(d)
  <1> DEFINE x == Severed(conn[c])
  <1>1. conn[c] \in Wire
    BY DEF ServerOK, Wire
  <1>2. x \in Wire /\ Quieter(conn[c], x)
    BY <1>1, SeveredQuieter
  <1>3. conn' = [conn EXCEPT ![c] = x] /\ UNCHANGED <<serverVars, said>>
    BY DEF CutOff, Cut
  <1> HIDE DEF x
  <1> QED
    BY <1>2, <1>3, LinkStep

LEMMA ClientConnectsKeeps ==
  ASSUME ServerOK, NEW c \in Conns, ClientConnects(c)
  PROVE  ServerOK' /\ \A d \in Conns : Undisturbed(d)
  <1> DEFINE w == conn[c]
             x == [w EXCEPT !.client = "connecting"]
  <1>1. w \in Wire /\ w.client = "none"
    BY DEF ServerOK, Wire, ClientConnects
  <1>2. conn' = [conn EXCEPT ![c] = x] /\ UNCHANGED <<serverVars, said>>
    BY DEF ClientConnects
  <1> HIDE DEF w
  <1>3. /\ x \in Wire /\ x.client = "connecting" /\ x.server = w.server /\ x.up = w.up
        /\ x.down = w.down /\ x.cut = w.cut
    BY <1>1 DEF Wire, Link, EndStates
  <1> HIDE DEF x
  <1>4. UpLess(w.up, x.up) /\ DownLess(w.down, x.down)
    BY <1>1, <1>3, UpLessCases DEF Wire, Link, DownLess
  <1>5. Quieter(w, x)
    BY <1>1, <1>3, <1>4 DEF Quieter, Carries
  <1> QED
    BY <1>2, <1>3, <1>5, LinkStep DEF w

LEMMA ClientLeavesKeeps ==
  ASSUME ServerOK, NEW c \in Conns, ClientLeaves(c)
  PROVE  ServerOK' /\ \A d \in Conns : Undisturbed(d)
  <1> DEFINE x == ClientClose(conn[c])
  <1>1. conn[c] \in Wire
    BY DEF ServerOK, Wire
  <1>2. x \in Wire /\ Quieter(conn[c], x)
    BY <1>1, ClientCloseQuieter
  <1>3. conn' = [conn EXCEPT ![c] = x] /\ UNCHANGED <<serverVars, said>>
    BY DEF ClientLeaves
  <1> HIDE DEF x
  <1> QED
    BY <1>2, <1>3, LinkStep

LEMMA ClientSeesCloseKeeps ==
  ASSUME ServerOK, NEW c \in Conns, ClientSeesClose(c)
  PROVE  ServerOK' /\ \A d \in Conns : Undisturbed(d)
  <1> DEFINE last == IF conn[c].down = <<>> THEN <<>> ELSE <<Last(conn[c].down)>>
             x == ClientClosed([conn[c] EXCEPT !.down = last])
  <1>1. conn[c] \in Wire /\ conn[c].down \in Seq(Downward)
    BY DEF ServerOK, Wire, Link
  <1>2. last \in Seq(Downward)
    <2>1. CASE conn[c].down = <<>>
      BY <2>1
    <2>2. CASE conn[c].down # <<>>
      <3>1. Last(conn[c].down) \in Downward
        BY <1>1, <2>2 DEF Last
      <3> QED
        BY <2>2, <3>1
    <2> QED
      BY <2>1, <2>2
  <1>3. ClientClosable([conn[c] EXCEPT !.down = last])
        /\ conn' = [conn EXCEPT ![c] = x] /\ UNCHANGED <<serverVars, said>>
    BY DEF ClientSeesClose
  <1> HIDE DEF last
  <1>4. x \in Wire /\ Quieter(conn[c], x)
    BY <1>1, <1>2, <1>3, ClientClosedQuieter
  <1> HIDE DEF x
  <1> QED
    BY <1>3, <1>4, LinkStep

LEMMA RejectInputKeeps ==
  ASSUME ServerOK, NEW c \in Conns, RejectInput(c), said' = said
  PROVE  ServerOK' /\ \A d \in Conns : Undisturbed(d)
  <1>1. Receiving(c, "input") /\ UNCHANGED <<serverVars, said>>
    BY DEF RejectInput
  <1>2. \E f \in Others : conn' = [conn EXCEPT ![c] = ServerSend(Taken(c), <<f>>)]
    <2>1. /\ ErrorFrame("AUTH_DENIED", FALSE) \in Others
          /\ ErrorFrame("WRITE_FORBIDDEN", TRUE) \in Others
          /\ ErrorFrame("INVALID_VALUE", TRUE) \in Others
      BY ErrorIsOther DEF ErrorCodes
    <2> QED
      BY <2>1 DEF RejectInput
  <1>3. PICK f \in Others : conn' = [conn EXCEPT ![c] = ServerSend(Taken(c), <<f>>)]
    BY <1>2
  <1> DEFINE x == ServerSend(Taken(c), <<f>>)
  <1>4. x \in Wire /\ Quieter(conn[c], x)
    BY <1>1, ReplyQuieter
  <1> HIDE DEF x
  <1> QED
    BY <1>1, <1>3, <1>4, LinkStep DEF x

LEMMA RecvPingKeeps ==
  ASSUME ServerOK, NEW c \in Conns, RecvPing(c), said' = said
  PROVE  ServerOK' /\ \A d \in Conns : Undisturbed(d)
  <1> DEFINE x == ServerSend(Taken(c), <<Pong>>)
  <1>1. Receiving(c, "ping") /\ conn' = [conn EXCEPT ![c] = x] /\ UNCHANGED <<serverVars, said>>
    BY DEF RecvPing
  <1>2. Pong \in Others
    BY DEF Others
  <1>3. x \in Wire /\ Quieter(conn[c], x)
    BY <1>1, <1>2, ReplyQuieter
  <1> HIDE DEF x
  <1> QED
    BY <1>1, <1>3, LinkStep

LEMMA RecvUnsubscribeKeeps ==
  ASSUME ServerOK, NEW c \in Conns, RecvUnsubscribe(c), said' = said
  PROVE  ServerOK' /\ \A d \in Conns : Undisturbed(d)
  <1> DEFINE x == ServerClose(Taken(c), 1000)
  <1>1. /\ Receiving(c, "unsubscribe")
        /\ conn' = [conn EXCEPT ![c] = x] /\ UNCHANGED <<serverVars, said>>
    BY DEF RecvUnsubscribe
  <1>2. Taken(c) \in Wire /\ Quieter(conn[c], Taken(c))
    BY <1>1, ReceivedWire
  <1>3. x \in Wire /\ Quieter(Taken(c), x)
    BY <1>2, CloseQuieter
  <1>4. Quieter(conn[c], x)
    BY <1>2, <1>3, QuieterTransitive
  <1> HIDE DEF x
  <1> QED
    BY <1>1, <1>3, <1>4, LinkStep

LEMMA RecvMalformedKeeps ==
  ASSUME ServerOK, NEW c \in Conns, RecvMalformed(c), said' = said
  PROVE  ServerOK' /\ \A d \in Conns : Undisturbed(d)
  <1> DEFINE t == Taken(c)
             kind == Head(conn[c].up).kind
             f == ErrorFrame("INTERNAL", FALSE)
             g == ErrorFrame("INVALID_VALUE", TRUE)
             x == CASE kind = "version" -> ServerClose(t, 1002)
                    [] kind = "fatal" -> ServerClose(ServerSend(t, <<f>>), 1002)
                    [] kind = "value" -> ServerSend(t, <<g>>)
  <1>1. /\ Receiving(c, "malformed") /\ UNCHANGED <<serverVars, said>>
        /\ conn' = [conn EXCEPT ![c] = x]
    BY DEF RecvMalformed, ServerOK
  <1>2. t \in Wire /\ Quieter(conn[c], t) /\ kind \in {"version", "fatal", "value"}
    <2>1. /\ t \in Wire /\ Quieter(conn[c], t)
          /\ Head(conn[c].up) \in Upward /\ Head(conn[c].up).type = "malformed"
      BY <1>1, ReceivedWire
    <2>2. Head(conn[c].up) \in ClientFrames
      BY <2>1, FrameTypes DEF Upward
    <2> QED
      BY <2>1, <2>2, ClientFramesAssumption
  <1>3. f \in Others /\ g \in Others
    BY ErrorIsOther DEF ErrorCodes
  <1> HIDE DEF t, kind, f, g
  <1>4. x \in Wire /\ Quieter(t, x)
    <2>1. CASE kind = "version"
      BY <1>2, <2>1, CloseQuieter
    <2>2. CASE kind = "fatal"
      BY <1>2, <1>3, <2>2, SendCloseQuieter
    <2>3. CASE kind = "value"
      <3> DEFINE ms == <<g>>
      <3>1. ms \in Seq(Downward) /\ DataOf(ms) = {}
        BY <1>3, OneOther
      <3>2. x = ServerSend(t, ms)
        BY <2>3
      <3> HIDE DEF ms, x
      <3>3. ServerSend(t, ms) \in Wire /\ Quieter(t, ServerSend(t, ms))
        BY <1>2, <3>1, SendQuieter
      <3> QED
        BY <3>2, <3>3
    <2> QED
      BY <1>2, <2>1, <2>2, <2>3
  <1> HIDE DEF x
  <1>5. Quieter(conn[c], x)
    BY <1>2, <1>4, QuieterTransitive
  <1> QED
    BY <1>1, <1>4, <1>5, LinkStep

\* A refusal after authenticate: an error, then the close.
LEMMA RefusedKeeps ==
  ASSUME ServerOK, NEW p \in auths, AuthRefused(p) \/ RefuseScene(p), said' = said
  PROVE  ServerOK' /\ \A d \in Conns : Undisturbed(d)
  <1>1. PICK f \in Others :
          conn' = [conn EXCEPT ![p.conn] = ServerClose(ServerSend(conn[p.conn], <<f>>), 1008)]
    <2> DEFINE denied == ErrorFrame("AUTH_DENIED", FALSE)
               rejected == ErrorFrame("INVALID_VALUE", FALSE)
    <2>1. denied \in Others /\ rejected \in Others
      BY ErrorIsOther DEF ErrorCodes
    <2>2. \/ conn' = [conn EXCEPT ![p.conn] = ServerClose(ServerSend(@, <<denied>>), 1008)]
          \/ conn' = [conn EXCEPT ![p.conn] = ServerClose(ServerSend(@, <<rejected>>), 1008)]
      BY DEF AuthRefused, RefuseScene
    <2> HIDE DEF denied, rejected
    <2> QED
      BY <2>1, <2>2
  <1> DEFINE c == p.conn
             x == ServerClose(ServerSend(conn[c], <<f>>), 1008)
  <1>2. /\ scenes' = scenes /\ activeScene' = activeScene /\ subs' = subs
        /\ auths' \subseteq auths
        /\ sub' = sub \/ sub' = [sub EXCEPT ![c].decision = Grants[p.token]]
    BY DEF AuthRefused, RefuseScene
  <1>3. c \in Conns /\ p.token \in Tokens
    BY DEF ServerOK
  <1>4. conn[c] \in Wire
    BY <1>3 DEF ServerOK, Wire
  <1>5. x \in Wire /\ Quieter(conn[c], x)
    BY <1>4, SendCloseQuieter
  <1>6. conn' = [conn EXCEPT ![c] = x]
    BY <1>1
  <1> HIDE DEF x
  <1>7. DOMAIN sub' = Conns
        /\ \A d \in Conns : sub'[d] \in [decision : {None} \cup {Grants[t] : t \in Tokens},
                                         unsubscribe : {None} \cup Subscriptions(d),
                                         subscribes : Nat]
                            /\ sub'[d].unsubscribe = sub[d].unsubscribe
    <2> DEFINE role == Grants[p.token]
               T(d) == [decision : {None} \cup {Grants[t] : t \in Tokens},
                        unsubscribe : {None} \cup Subscriptions(d), subscribes : Nat]
    <2>1. role \in {None} \cup {Grants[t] : t \in Tokens}
      BY <1>3
    <2>2. DOMAIN sub = Conns /\ \A d \in Conns : sub[d] \in T(d)
      BY DEF ServerOK
    <2>3. sub' = sub \/ sub' = [sub EXCEPT ![c].decision = role]
      BY <1>2
    <2> HIDE DEF role
    <2>4. ASSUME NEW d \in Conns
          PROVE  sub'[d] \in T(d) /\ sub'[d].unsubscribe = sub[d].unsubscribe
      BY <1>3, <2>1, <2>2, <2>3
    <2> QED
      BY <2>2, <2>3, <2>4
  <1> HIDE DEF c
  <1> QED
    BY <1>2, <1>3, <1>5, <1>6, <1>7, QuietStep

LEMMA OnServerCloseKeeps ==
  ASSUME ServerOK, NEW c \in Conns, OnServerClose(c), said' = said
  PROVE  ServerOK' /\ \A d \in Conns : Undisturbed(d)
  <1> DEFINE x == ServerClosed(conn[c])
             C == {c}
  <1>1. /\ ServerClosable(conn[c]) /\ conn' = [conn EXCEPT ![c] = x]
        /\ scenes' = Unsubscribed(C) /\ subs' = subs \ {c}
        /\ activeScene' = activeScene /\ sub' = sub /\ auths' = auths /\ said' = said
    BY DEF OnServerClose
  <1>2. conn \in [Conns -> Wire]
    BY DEF ServerOK, Wire
  <1>3. x \in Wire /\ Quieter(conn[c], x) /\ x.server # "open"
    BY <1>1, <1>2, ServerClosedQuieter
  <1> HIDE DEF x
  <1>4. conn' \in [Conns -> Wire] /\ conn'[c] = x /\ \A d \in Conns \ {c} : conn'[d] = conn[d]
    BY <1>1, <1>2, <1>3
  <1>5. C \in SUBSET Conns
    OBVIOUS
  <1> HIDE DEF C
  <1>6. /\ DOMAIN scenes' = Scenes
        /\ \A s \in Scenes :
             /\ SceneOK(s)'
             /\ scenes'[s].seq = scenes[s].seq /\ scenes'[s].replay = scenes[s].replay
             /\ \A d \in Conns : /\ Feeds(d, s)' \subseteq Feeds(d, s)
                                 /\ d \notin C => Feeds(d, s)' = Feeds(d, s)
    BY <1>1, <1>5, UnsubscribedScenes
  <1>7. ServerOK'
    BY <1>1, <1>4, <1>6 DEF ServerOK, Wire
  <1>8. Undisturbed(c)
    <2>1. ~IsLive(c)'
      BY <1>3, <1>4 DEF IsLive
    <2> QED
      BY <1>1, <1>3, <1>4, <1>6, <2>1 DEF Undisturbed
  <1>9. ASSUME NEW d \in Conns \ {c} PROVE Undisturbed(d)
    <2>1. Quieter(conn[d], conn'[d])
      BY <1>2, <1>4, QuieterItself
    <2>2. \A s \in Scenes : Feeds(d, s)' = Feeds(d, s) /\ scenes'[s].seq = scenes[s].seq
      BY <1>6 DEF C
    <2> QED
      BY <1>1, <2>1, <2>2 DEF Undisturbed
  <1> QED
    BY <1>7, <1>8, <1>9

\* A swap or a reset: every open connection is in the set, so none stays open.
LEMMA DetachAllKeeps ==
  ASSUME ServerOK, \A d \in Conns : PeerInv(d), NEW code \in {1000, 1012}, DetachAll(code),
         activeScene' \in Scenes, sub' = sub, auths' = auths, said' = said
  PROVE  ServerOK' /\ \A d \in Conns : Undisturbed(d)
  <1>1. /\ scenes' = Unsubscribed(subs) /\ subs' = {}
        /\ conn' = [d \in Conns |-> IF d \in subs THEN ServerClose(conn[d], code) ELSE conn[d]]
    BY DEF DetachAll
  <1>2. conn \in [Conns -> Wire] /\ subs \in SUBSET Conns
    BY DEF ServerOK, Wire
  <1>3. ASSUME NEW d \in Conns
        PROVE  conn'[d] \in Wire /\ Quieter(conn[d], conn'[d]) /\ conn'[d].server # "open"
    <2>1. CASE d \in subs
      <3>1. conn'[d] = ServerClose(conn[d], code)
        BY <1>1, <2>1
      <3> QED
        BY <1>2, <3>1, CloseQuieter
    <2>2. CASE d \notin subs
      <3>1. conn'[d] = conn[d]
        BY <1>1, <2>2
      <3>2. conn[d].server # "open"
        BY <2>2 DEF PeerInv, Settled
      <3> QED
        BY <1>2, <3>1, <3>2, QuieterItself
    <2> QED
      BY <2>1, <2>2
  <1>4. conn' \in [Conns -> Wire]
    <2>1. conn' = [d \in Conns |-> conn'[d]]
      BY <1>1
    <2> QED
      BY <1>3, <2>1
  <1>5. /\ DOMAIN scenes' = Scenes
        /\ \A s \in Scenes :
             /\ SceneOK(s)'
             /\ scenes'[s].seq = scenes[s].seq /\ scenes'[s].replay = scenes[s].replay
             /\ \A d \in Conns : /\ Feeds(d, s)' \subseteq Feeds(d, s)
                                 /\ d \notin subs => Feeds(d, s)' = Feeds(d, s)
    BY <1>1, <1>2, UnsubscribedScenes
  <1>6. ServerOK'
    BY <1>1, <1>4, <1>5 DEF ServerOK, Wire
  <1>7. ASSUME NEW d \in Conns PROVE Undisturbed(d)
    BY <1>3, <1>5 DEF Undisturbed, IsLive
  <1> QED
    BY <1>6, <1>7

-----------------------------------------------------------------------------
(***************************************************************************)
(* A connection none of whose frames was read yet.                         *)
(***************************************************************************)
LEMMA NothingSaid ==
  ASSUME NEW c \in Conns, PeerInv(c), conn[c].client \in {"none", "connecting"}
  PROVE  /\ said[c] = <<>> /\ Subscribes(c) = {} /\ Once(c)
         /\ OnWire(c) = {} /\ Awaited(c) = {} /\ Untouched(c)
  <1>1. said[c] = <<>>
    BY DEF PeerInv, AsSaid
  <1>2. Subscribes(c) = {}
    BY <1>1 DEF Subscribes
  <1>3. Once(c)
    BY <1>2 DEF Once
  <1>4. OnWire(c) = {} /\ Awaited(c) = {} /\ Untouched(c)
    BY <1>2, <1>3 DEF PeerInv, OnceInv
  <1> QED
    BY <1>1, <1>2, <1>3, <1>4

\* The upgrade is answered: the connection becomes open, and was sent nothing.
LEMMA AcceptKeeps ==
  ASSUME ServerOK, \A d \in Conns : PeerInv(d), NEW c \in Conns, AcceptConnection(c),
         said' = said
  PROVE  ServerOK' /\ \A d \in Conns : PeerInv(d)'
  <1> DEFINE w == conn[c]
             ps == IF "lsdp.v1.1" \in Offers THEN "lsdp.v1.1" ELSE "lsdp.v1"
             ms == <<Accept(ps)>>
             v == Down(w, ms)
             x == [v EXCEPT !.server = "open"]
  <1>1. /\ w.client = "connecting" /\ w.server = "none" /\ ~w.cut
        /\ conn' = [conn EXCEPT ![c] = x] /\ subs' = subs \cup {c}
        /\ scenes' = scenes /\ activeScene' = activeScene /\ sub' = sub /\ auths' = auths
    BY DEF AcceptConnection
  <1>2. conn \in [Conns -> Wire] /\ w \in Link(Upward, Downward)
    BY DEF ServerOK, Wire
  <1>3. Accept(ps) \in Others
    BY DEF Accept, Others, Protocols
  <1> HIDE DEF ps
  <1>4. ms \in Seq(Downward) /\ DataOf(ms) = {}
    BY <1>3, OneOther
  <1> HIDE DEF ms, w
  <1>5. /\ v \in Link(Upward, Downward) /\ SameButDown(w, v)
        /\ v.down = IF w.cut THEN w.down ELSE w.down \o ms
    BY <1>2, <1>4, DownLink
  <1> HIDE DEF v
  <1>6. /\ x \in Wire /\ x.server = "open" /\ x.client = "connecting" /\ x.up = w.up
        /\ x.down = w.down \o ms
    BY <1>1, <1>5 DEF Link, SameButDown, Wire, ServerStates
  <1> HIDE DEF x
  <1>7. conn' \in [Conns -> Wire] /\ conn'[c] = x /\ \A d \in Conns \ {c} : conn'[d] = conn[d]
    BY <1>1, <1>2, <1>6
  <1>8. \A s \in Scenes : SceneOK(s)'
    BY <1>1 DEF ServerOK, SceneOK
  <1>9. ServerOK'
    BY <1>1, <1>7, <1>8 DEF ServerOK, Wire
  <1>10. \A d \in Conns, s \in Scenes : Feeds(d, s)' = Feeds(d, s)
    BY <1>1 DEF Feeds
  <1>11. ASSUME NEW d \in Conns \ {c} PROVE PeerInv(d)'
    <2>1. Quieter(conn[d], conn'[d])
      BY <1>2, <1>7, QuieterItself
    <2>2. Undisturbed(d)
      BY <1>1, <1>10, <2>1 DEF Undisturbed
    <2> QED
      BY <2>2, UndisturbedKeeps
  <1>12. PeerInv(c)'
    <2>1. /\ said[c] = <<>> /\ Subscribes(c) = {} /\ Once(c)
          /\ OnWire(c) = {} /\ Awaited(c) = {} /\ Untouched(c)
      BY <1>1, NothingSaid DEF w
    <2>2. Data(c)' = {}
      <3>1. w.down \in Seq(Downward)
        BY <1>2 DEF Link, w
      <3>2. DownSame(w.down, w.down \o ms)
        BY <1>4, <3>1, JoinedSame
      <3> QED
        BY <1>6, <1>7, <2>1, <3>2 DEF DownSame, Data, DataOf, Untouched, w
    <2>3. /\ Subscribes(c)' = {} /\ OnWire(c)' = {} /\ Awaited(c)' = {}
          /\ said'[c] = <<>> /\ \A s \in Scenes : Feeds(c, s)' = {}
      BY <1>1, <1>6, <1>7, <1>10, <2>1 DEF Subscribes, OnWire, Awaited, Untouched, w
    <2>4. Untouched(c)'
      BY <1>1, <2>1, <2>2, <2>3 DEF Untouched
    <2>5. OnceInv(c)'
      BY <2>3, <2>4 DEF OnceInv
    <2>6. AsSaid(c)'
      BY <2>3 DEF AsSaid, OnWire, Awaited
    <2>7. Due(c)' /\ Settled(c)'
      BY <1>1, <2>2, <2>3 DEF Due, Settled
    <2> QED
      BY <2>5, <2>6, <2>7 DEF PeerInv
  <1> QED
    BY <1>9, <1>11, <1>12

\* The socket opens on the client's side: it has read the answer to its upgrade.
LEMMA ClientOpensKeeps ==
  ASSUME ServerOK, \A d \in Conns : PeerInv(d), NEW c \in Conns, ClientOpens(c)
  PROVE  ServerOK' /\ \A d \in Conns : PeerInv(d)'
  <1> DEFINE w == conn[c]
             x == [w EXCEPT !.client = "open", !.down = Tail(@), !.protocol = Head(w.down).protocol]
  <1>1. /\ w.client = "connecting" /\ w.down # <<>> /\ Head(w.down).type = "accept"
        /\ conn' = [conn EXCEPT ![c] = x]
        /\ subs' = subs /\ scenes' = scenes /\ activeScene' = activeScene /\ sub' = sub
        /\ auths' = auths /\ said' = said
    BY DEF ClientOpens, serverVars, HeadIs
  <1>2. conn \in [Conns -> Wire] /\ w \in Link(Upward, Downward) /\ w.down \in Seq(Downward)
    BY DEF ServerOK, Wire, Link
  <1>3. /\ Tail(w.down) \in Seq(Downward) /\ Len(w.down) \in Nat \ {0}
        /\ DOMAIN w.down = 1 .. Len(w.down) /\ DOMAIN Tail(w.down) = 1 .. Len(w.down) - 1
        /\ \A i \in DOMAIN Tail(w.down) : Tail(w.down)[i] = w.down[i + 1]
        /\ Head(w.down) \in Downward
    BY <1>1, <1>2, TailQueue
  <1>4. Head(w.down).protocol \in Protocols
    BY <1>1, <1>3 DEF Downward, Datas, Others, Closes, Pong
  <1>5. /\ x \in Wire /\ x.server = w.server /\ x.client = "open" /\ x.up = w.up
        /\ x.down = Tail(w.down)
    BY <1>2, <1>3, <1>4 DEF Link, Wire, EndStates
  <1> HIDE DEF x
  <1>6. conn' \in [Conns -> Wire] /\ conn'[c] = x /\ \A d \in Conns \ {c} : conn'[d] = conn[d]
    BY <1>1, <1>2, <1>5
  <1>7. \A s \in Scenes : SceneOK(s)'
    BY <1>1 DEF ServerOK, SceneOK
  <1>8. ServerOK'
    BY <1>1, <1>6, <1>7 DEF ServerOK, Wire
  <1>9. \A d \in Conns, s \in Scenes : Feeds(d, s)' = Feeds(d, s)
    BY <1>1 DEF Feeds
  <1>10. ASSUME NEW d \in Conns \ {c} PROVE PeerInv(d)'
    <2>1. Quieter(conn[d], conn'[d])
      BY <1>2, <1>6, QuieterItself
    <2>2. Undisturbed(d)
      BY <1>1, <1>9, <2>1 DEF Undisturbed
    <2> QED
      BY <2>2, UndisturbedKeeps
  <1>11. PeerInv(c)'
    <2>1. /\ said[c] = <<>> /\ Subscribes(c) = {} /\ Once(c)
          /\ OnWire(c) = {} /\ Awaited(c) = {} /\ Untouched(c)
      BY <1>1, NothingSaid
    <2>2. DataOf(w.down) = {}
      BY <2>1 DEF Untouched, Data, DataOf
    <2>3. DataOf(Tail(w.down)) = {}
      <3>1. ASSUME NEW i \in DataOf(Tail(w.down)) PROVE i + 1 \in DataOf(w.down)
        BY <1>3, <3>1 DEF DataOf
      <3> QED
        BY <2>2, <3>1
    <2>4. Data(c)' = {}
      BY <1>5, <1>6, <2>3 DEF Data, DataOf
    <2>5. /\ Subscribes(c)' = {} /\ OnWire(c)' = {} /\ Awaited(c)' = {}
          /\ said'[c] = <<>> /\ \A s \in Scenes : Feeds(c, s)' = {}
      BY <1>1, <1>5, <1>6, <1>9, <2>1 DEF Subscribes, OnWire, Awaited, Untouched
    <2>6. Untouched(c)'
      BY <1>1, <2>1, <2>4, <2>5 DEF Untouched
    <2>7. OnceInv(c)'
      BY <2>5, <2>6 DEF OnceInv
    <2>8. AsSaid(c)'
      BY <2>5 DEF AsSaid, OnWire, Awaited
    <2>9. Due(c)' /\ Settled(c)'
      <3>1. conn'[c].server = "open" => c \in subs'
        BY <1>1, <1>5, <1>6 DEF PeerInv, Settled
      <3> QED
        BY <1>1, <2>4, <2>5, <3>1 DEF Due, Settled
    <2> QED
      BY <2>7, <2>8, <2>9 DEF PeerInv
  <1> QED
    BY <1>8, <1>10, <1>11

-----------------------------------------------------------------------------
\* A client speaks.
LEMMA ClientSaysKeeps ==
  ASSUME ServerOK, \A d \in Conns : PeerInv(d), NEW c \in Conns, NEW f \in ClientFrames,
         ClientSays(c, f)
  PROVE  ServerOK' /\ \A d \in Conns : PeerInv(d)'
  <1> DEFINE w == conn[c]
             x == ClientSend(w, f)
             n == Len(said[c])
             heard == Append(said[c], f)
  <1>1. /\ w.client = "open"
        /\ conn' = [conn EXCEPT ![c] = x] /\ said' = [said EXCEPT ![c] = heard]
        /\ subs' = subs /\ scenes' = scenes /\ activeScene' = activeScene /\ sub' = sub
        /\ auths' = auths
    BY DEF ClientSays, serverVars
  <1>2. conn \in [Conns -> Wire] /\ w \in Link(Upward, Downward) /\ w.up \in Seq(Upward)
        /\ said \in [Conns -> Seq(ClientFrames)] /\ said[c] \in Seq(ClientFrames)
        /\ f \in Upward
    BY DEF ServerOK, Wire, Link, Upward
  <1>3. /\ heard \in Seq(ClientFrames) /\ n \in Nat
        /\ DOMAIN said[c] = 1 .. n /\ DOMAIN heard = 1 .. n + 1
        /\ \A k \in 1 .. n : heard[k] = said[c][k]
        /\ heard[n + 1] = f
    BY <1>2, AppendProperties, LenProperties
  <1>4. /\ x \in Wire /\ SameButUp(w, x)
        /\ x.up = w.up \/ x.up = Append(w.up, f)
    <2>1. /\ x \in Link(Upward, Downward) /\ SameButUp(w, x)
          /\ x.up = IF w.cut \/ w.server = "closed" \/ w.client # "open"
                    THEN w.up ELSE Append(w.up, f)
      BY <1>2, ClientSendLink
    <2> QED
      BY <2>1 DEF Wire
  <1> HIDE DEF x, heard, n
  <1>5. /\ conn' \in [Conns -> Wire] /\ conn'[c] = x /\ \A d \in Conns \ {c} : conn'[d] = conn[d]
        /\ said'[c] = heard /\ \A d \in Conns \ {c} : said'[d] = said[d]
        /\ said' \in [Conns -> Seq(ClientFrames)]
    BY <1>1, <1>2, <1>3, <1>4
  <1>6. \A s \in Scenes : SceneOK(s)'
    BY <1>1 DEF ServerOK, SceneOK
  <1>7. ServerOK'
    BY <1>1, <1>5, <1>6 DEF ServerOK, Wire
  <1>8. \A d \in Conns, s \in Scenes : Feeds(d, s)' = Feeds(d, s)
    BY <1>1 DEF Feeds
  <1>9. ASSUME NEW d \in Conns \ {c} PROVE PeerInv(d)'
    <2>1. Quieter(conn[d], conn'[d])
      BY <1>2, <1>5, QuieterItself
    <2>2. Undisturbed(d)
      BY <1>1, <1>5, <1>8, <2>1 DEF Undisturbed
    <2> QED
      BY <2>2, UndisturbedKeeps
  <1>10. /\ Subscribes(c) \subseteq Subscribes(c)'
         /\ \A k \in Subscribes(c) : k \in 1 .. n /\ said'[c][k] = said[c][k]
         /\ f.type = "subscribe" => n + 1 \in Subscribes(c)'
         /\ f.type # "subscribe" => Subscribes(c)' = Subscribes(c)
         /\ said'[c][n + 1] = f
    BY <1>3, <1>5 DEF Subscribes
  <1>11. \/ /\ OnWire(c)' = OnWire(c)
            /\ \A i \in OnWire(c) : x.up[i] = w.up[i]
         \/ /\ f.type = "subscribe" /\ x.up[Len(w.up) + 1] = f
            /\ OnWire(c)' = OnWire(c) \cup {Len(w.up) + 1}
            /\ \A i \in OnWire(c) : x.up[i] = w.up[i]
    <2>1. CASE x.up = w.up
      BY <1>5, <2>1 DEF OnWire
    <2>2. CASE x.up = Append(w.up, f)
      <3> DEFINE m == Len(w.up)
      <3>1. /\ m \in Nat /\ DOMAIN w.up = 1 .. m /\ DOMAIN x.up = 1 .. m + 1
            /\ \A i \in 1 .. m : x.up[i] = w.up[i]
            /\ x.up[m + 1] = f
        BY <1>2, <2>2, AppendProperties, LenProperties
      <3> HIDE DEF m
      <3>2. \A i \in OnWire(c) : x.up[i] = w.up[i] /\ i \in OnWire(c)'
        BY <1>5, <3>1 DEF OnWire
      <3>3. \A i \in OnWire(c)' : i \in OnWire(c) \/ (i = m + 1 /\ f.type = "subscribe")
        BY <1>5, <3>1 DEF OnWire
      <3>4. f.type = "subscribe" => m + 1 \in OnWire(c)'
        BY <1>5, <3>1 DEF OnWire
      <3> QED
        BY <3>1, <3>2, <3>3, <3>4 DEF m
    <2> QED
      BY <1>4, <2>1, <2>2
  <1>12. /\ x.client = "open" /\ x.server = w.server /\ x.down = w.down /\ x.cut = w.cut
         /\ Data(c)' = Data(c)
    BY <1>1, <1>4, <1>5 DEF SameButUp, Data
  <1>13. AsSaid(c)'
    <2>1. ASSUME NEW i \in OnWire(c)' PROVE \E k \in Subscribes(c)' : said'[c][k] = x.up[i]
      <3>1. CASE i \in OnWire(c)
        <4>1. x.up[i] = w.up[i] /\ \E k \in Subscribes(c) : said[c][k] = w.up[i]
          BY <1>11, <3>1 DEF PeerInv, AsSaid, OnWire
        <4> QED
          BY <1>10, <4>1
      <3>2. CASE i \notin OnWire(c)
        <4>1. f.type = "subscribe" /\ x.up[i] = f
          BY <1>11, <2>1, <3>2
        <4> QED
          BY <1>10, <4>1
      <3> QED
        BY <3>1, <3>2
    <2>2. \A p \in auths' : p.conn = c =>
             \E k \in Subscribes(c)' : said'[c][k].token = p.token /\ said'[c][k].since = p.since
      BY <1>1, <1>10 DEF PeerInv, AsSaid
    <2> QED
      BY <1>5, <1>12, <2>1, <2>2 DEF AsSaid, OnWire
  <1>14. Due(c)' /\ Settled(c)'
    <2>1. LetIn(c) => LetIn(c)'
      BY <1>10 DEF LetIn
    <2>2. Due(c)'
      BY <1>5, <1>8, <1>12, <2>1 DEF PeerInv, Due
    <2>3. Settled(c)'
      BY <1>1, <1>5, <1>8, <1>12 DEF PeerInv, Settled
    <2> QED
      BY <2>2, <2>3
  <1>15. Untouched(c) => Untouched(c)'
    BY <1>1, <1>8, <1>12 DEF Untouched
  <1>16. Awaited(c)' = Awaited(c)
    BY <1>1 DEF Awaited
  <1>17. OnceInv(c)'
    <2> SUFFICES ASSUME Once(c)' PROVE OnceInv(c)'
      BY DEF OnceInv
    <2>1. Once(c)
      BY <1>10 DEF Once
    <2>2. CASE f.type = "subscribe"
      <3>1. Subscribes(c) = {}
        BY <1>3, <1>10, <2>2 DEF Once
      <3>2. OnWire(c) = {} /\ Awaited(c) = {} /\ Untouched(c)
        BY <2>1, <3>1 DEF PeerInv, OnceInv
      <3>3. OnWire(c)' = {} \/ \E i : OnWire(c)' = {i}
        BY <1>11, <3>2
      <3>4. Subscribes(c)' # {}
        BY <1>10, <2>2
      <3> QED
        BY <1>15, <1>16, <3>2, <3>3, <3>4 DEF OnceInv
    <2>3. CASE f.type # "subscribe"
      <3>1. Subscribes(c)' = Subscribes(c) /\ OnWire(c)' = OnWire(c)
        BY <1>10, <1>11, <2>3
      <3>2. ASSUME NEW s \in Scenes, NEW l, ServedBy(c, s, l) PROVE ServedBy(c, s, l)'
        <4>1. IsLive(c)' <=> IsLive(c)
          BY <1>1, <1>5, <1>12 DEF IsLive
        <4>2. conn'[c].down = conn[c].down /\ scenes' = scenes
              /\ \A k \in Subscribes(c) : said'[c][k] = said[c][k]
          BY <1>1, <1>5, <1>10, <1>12
        <4>3. sub'[c].unsubscribe = [scene |-> s, listener |-> l]
              /\ \A t \in Scenes : Feeds(c, t)' \subseteq IF t = s THEN {l} ELSE {}
          BY <1>1, <1>8, <3>2 DEF ServedBy
        <4>4. IsLive(c)' => /\ l \in scenes'[s].listeners
                            /\ \A k \in Subscribes(c)' :
                                 Run(conn'[c].down, s, scenes'[s].seq, said'[c][k].since)
          BY <3>1, <3>2, <4>1, <4>2 DEF ServedBy
        <4> QED
          BY <4>3, <4>4 DEF ServedBy
      <3> QED
        BY <1>15, <1>16, <2>1, <3>1, <3>2 DEF PeerInv, OnceInv, Listener
    <2> QED
      BY <2>2, <2>3
  <1> QED
    BY <1>7, <1>9, <1>13, <1>14, <1>17 DEF PeerInv

\* A subscribe is read: its token is being authenticated.
LEMMA RecvSubscribeKeeps ==
  ASSUME ServerOK, \A d \in Conns : PeerInv(d), NEW c \in Conns, RecvSubscribe(c), said' = said
  PROVE  ServerOK' /\ \A d \in Conns : PeerInv(d)'
  <1> DEFINE w == conn[c]
             x == Taken(c)
             f == Head(w.up)
             p == [conn |-> c, call |-> sub[c].subscribes + 1, token |-> f.token, since |-> f.since]
  <1>1. /\ Receiving(c, "subscribe") /\ conn' = [conn EXCEPT ![c] = x]
        /\ sub' = [sub EXCEPT ![c].subscribes = @ + 1] /\ auths' = auths \cup {p}
        /\ subs' = subs /\ scenes' = scenes /\ activeScene' = activeScene /\ said' = said
    BY DEF RecvSubscribe, RecvSubscribeAs
  <1>2. /\ conn[c] \in Wire /\ x \in Wire /\ Quieter(w, x)
        /\ x.down = w.down /\ x.server = w.server /\ x.client = w.client /\ x.cut = w.cut
        /\ x.up = Tail(w.up)
        /\ w.up # <<>> /\ w.up \in Seq(Upward) /\ f \in Upward /\ f.type = "subscribe"
    BY <1>1, ReceivedWire
  <1>3. /\ Len(w.up) \in Nat \ {0} /\ DOMAIN w.up = 1 .. Len(w.up)
        /\ DOMAIN Tail(w.up) = 1 .. Len(w.up) - 1
        /\ \A i \in DOMAIN Tail(w.up) : Tail(w.up)[i] = w.up[i + 1]
        /\ f = w.up[1]
    BY <1>2, TailQueue
  <1>4. conn \in [Conns -> Wire]
    BY DEF ServerOK, Wire
  <1>5. f.token \in Tokens /\ f.since \in Nat
    BY <1>2, FrameTypes
  <1> HIDE DEF x, f
  <1>6. conn' \in [Conns -> Wire] /\ conn'[c] = x /\ \A d \in Conns \ {c} : conn'[d] = conn[d]
    BY <1>1, <1>2, <1>4
  <1>7. DOMAIN sub' = Conns
        /\ \A d \in Conns : sub'[d] \in [decision : {None} \cup {Grants[t] : t \in Tokens},
                                         unsubscribe : {None} \cup Subscriptions(d),
                                         subscribes : Nat]
                            /\ sub'[d].unsubscribe = sub[d].unsubscribe
    <2> DEFINE T(d) == [decision : {None} \cup {Grants[t] : t \in Tokens},
                        unsubscribe : {None} \cup Subscriptions(d), subscribes : Nat]
    <2>1. DOMAIN sub = Conns /\ \A d \in Conns : sub[d] \in T(d)
      BY DEF ServerOK
    <2>2. \A d \in Conns : sub'[d] \in T(d) /\ sub'[d].unsubscribe = sub[d].unsubscribe
      BY <1>1, <2>1
    <2> QED
      BY <1>1, <2>1, <2>2
  <1>8. p \in [conn : Conns, call : Nat, token : Tokens, since : Nat]
    <2>1. sub[c].subscribes \in Nat
      BY DEF ServerOK
    <2> QED
      BY <1>5, <2>1
  <1>9. \A s \in Scenes : SceneOK(s)'
    BY <1>1 DEF ServerOK, SceneOK
  <1>10. ServerOK'
    BY <1>1, <1>6, <1>7, <1>8, <1>9 DEF ServerOK, Wire
  <1>11. p.conn = c /\ p.token = f.token /\ p.since = f.since
    OBVIOUS
  <1> HIDE DEF p
  <1>12. \A d \in Conns, s \in Scenes : Feeds(d, s)' = Feeds(d, s)
    BY <1>1 DEF Feeds
  <1>13. ASSUME NEW d \in Conns \ {c} PROVE PeerInv(d)'
    <2>1. Quieter(conn[d], conn'[d])
      BY <1>4, <1>6, QuieterItself
    <2>2. Undisturbed(d)
      BY <1>1, <1>7, <1>11, <1>12, <2>1 DEF Undisturbed
    <2> QED
      BY <2>2, UndisturbedKeeps
  <1>14. Subscribes(c)' = Subscribes(c) /\ said' = said /\ Data(c)' = Data(c)
    BY <1>1, <1>2, <1>6 DEF Subscribes, Data
  <1>15. 1 \in OnWire(c) /\ \E k \in Subscribes(c) : said[c][k] = f
    <2>1. 1 \in OnWire(c)
      BY <1>2, <1>3 DEF OnWire, f
    <2> QED
      BY <1>3, <2>1 DEF PeerInv, AsSaid, OnWire
  <1>16. AsSaid(c)'
    <2>1. ASSUME NEW i \in DOMAIN x.up, x.up[i].type = "subscribe"
          PROVE  \E k \in Subscribes(c) : said[c][k] = x.up[i]
      BY <1>2, <2>1 DEF Quieter, UpLess, SubsOf, PeerInv, AsSaid
    <2>2. \A q \in auths' : q.conn = c =>
             \E k \in Subscribes(c) : said[c][k].token = q.token /\ said[c][k].since = q.since
      BY <1>1, <1>11, <1>15 DEF PeerInv, AsSaid
    <2>3. conn'[c].client \in {"none", "connecting"} => said'[c] = <<>>
      BY <1>2, <1>6, <1>14 DEF PeerInv, AsSaid
    <2> QED
      BY <1>6, <1>14, <2>1, <2>2, <2>3 DEF AsSaid
  <1>17. Due(c)' /\ Settled(c)'
    <2>1. LetIn(c)' = LetIn(c)
      BY <1>14 DEF LetIn
    <2> QED
      BY <1>1, <1>2, <1>6, <1>12, <1>14, <2>1 DEF PeerInv, Due, Settled
  <1>18. OnceInv(c)'
    <2> SUFFICES ASSUME Once(c)' PROVE OnceInv(c)'
      BY DEF OnceInv
    <2>1. Once(c)
      BY <1>14 DEF Once
    <2>2. /\ Subscribes(c) # {} /\ Untouched(c)
          /\ (\E i : OnWire(c) = {i}) /\ Awaited(c) = {}
      BY <1>15, <2>1 DEF PeerInv, OnceInv
    <2>3. Awaited(c)' = {p}
      BY <1>1, <1>11, <2>2 DEF Awaited
    <2>4. OnWire(c)' = {}
      <3>1. ASSUME NEW i \in OnWire(c)' PROVE i \in Nat \ {0} /\ i + 1 \in OnWire(c)
        <4>1. i \in DOMAIN x.up /\ x.up[i].type = "subscribe"
          BY <1>6, <3>1 DEF OnWire
        <4>2. i \in 1 .. Len(w.up) - 1 /\ x.up[i] = w.up[i + 1]
          BY <1>2, <1>3, <4>1
        <4>3. i \in Nat \ {0} /\ i + 1 \in DOMAIN w.up
          BY <1>3, <4>2
        <4> QED
          BY <4>1, <4>2, <4>3 DEF OnWire
      <3>2. ASSUME NEW i \in OnWire(c)' PROVE FALSE
        <4>1. i \in Nat \ {0} /\ i + 1 \in OnWire(c) /\ 1 \in OnWire(c)
          BY <1>15, <3>1
        <4>2. i + 1 = 1
          BY <2>2, <4>1
        <4> QED
          BY <4>1, <4>2
      <3> QED
        BY <3>2
    <2>5. Untouched(c)'
      BY <1>7, <1>12, <1>14, <2>2 DEF Untouched
    <2> QED
      BY <1>14, <2>2, <2>3, <2>4, <2>5 DEF OnceInv
  <1> QED
    BY <1>10, <1>13, <1>16, <1>17, <1>18 DEF PeerInv

-----------------------------------------------------------------------------
(***************************************************************************)
(* The answer to a subscribe, and the deltas after it.                     *)
(***************************************************************************)

\* A holds the numbers b + 1 .. n of s: one snapshot, or deltas from `since`.
Answers(A, s, n, since, b) ==
    /\ A \in Seq(Datas) /\ Len(A) = n - b /\ b <= n
    /\ \A i \in 1 .. n - b : A[i].scene = s /\ A[i].seq = b + i
    /\ \A i \in 1 .. n - b : A[i].type = "snapshot" => i = 1
    /\ (\A i \in 1 .. n - b : A[i].type # "snapshot") => b = since

LEMMA AnswerContent ==
  ASSUME ServerOK, NEW s \in Scenes, NEW since \in Nat
  PROVE  \E b \in Nat : Answers(Answer(s, since), s, scenes[s].seq, since, b)
  <1> DEFINE n == scenes[s].seq
             A == Answer(s, since)
  <1>1. n \in Nat \ {0} /\ Holds(scenes[s].replay, n)
    BY DEF ServerOK, SceneOK
  <1> HIDE DEF n
  <1>2. CASE Resumable(s, since)
    <2>1. since \in 1 .. n /\ Covered(scenes[s].replay, since)
      BY <1>1, <1>2 DEF Resumable, n
    <2>2. Missed(scenes[s].replay, since) = [i \in 1 .. n - since |-> since + i]
      BY <1>1, <2>1, MissedContent
    <2> DEFINE missed == Missed(scenes[s].replay, since)
               m == n - since
    <2>3. m \in Nat /\ \A i \in 1 .. m : since + i \in Nat \ {0}
      BY <1>1, <2>1
    <2>4. missed \in Seq(Nat) /\ Len(missed) = m /\ \A i \in 1 .. m : missed[i] = since + i
      BY <2>2, <2>3
    <2>5. A = [i \in 1 .. Len(missed) |-> Delta(s, missed[i])]
      BY <1>2 DEF Answer
    <2> HIDE DEF missed, A, m
    <2>6. A = [i \in 1 .. m |-> Delta(s, since + i)]
      BY <2>4, <2>5
    <2>7. \A i \in 1 .. m : Delta(s, since + i) \in Datas
      BY <2>3 DEF Delta, Datas
    <2>8. A \in Seq(Datas) /\ Len(A) = m
      BY <2>3, <2>6, <2>7
    <2>9. \A i \in 1 .. m : A[i].scene = s /\ A[i].seq = since + i /\ A[i].type = "delta"
      BY <2>6 DEF Delta
    <2>10. Answers(A, s, n, since, since)
      BY <1>1, <2>1, <2>8, <2>9 DEF Answers, m
    <2> QED
      BY <2>10 DEF A, n
  <1>3. CASE ~Resumable(s, since)
    <2> DEFINE f == Snapshot(s, n)
    <2>1. A = <<f>>
      BY <1>3 DEF Answer, n
    <2>2. f \in Datas /\ f.scene = s /\ f.seq = n /\ f.type = "snapshot"
      BY <1>1 DEF Snapshot, Datas
    <2> HIDE DEF f, A
    <2>3. A \in Seq(Datas) /\ Len(A) = 1 /\ A[1] = f
      BY <2>1, <2>2
    <2>4. n - (n - 1) = 1 /\ n - 1 \in Nat /\ n - 1 <= n /\ (n - 1) + 1 = n
      BY <1>1
    <2>5. Answers(A, s, n, since, n - 1)
      BY <2>2, <2>3, <2>4 DEF Answers
    <2> QED
      BY <2>4, <2>5 DEF A, n
  <1> QED
    BY <1>2, <1>3

\* Scene data makes up a queue of its own.
LEMMA DatasQueue ==
  ASSUME NEW A \in Seq(Datas)
  PROVE  A \in Seq(Downward) /\ DataOf(A) = 1 .. Len(A) /\ Len(A) \in Nat
         /\ \A i \in 1 .. Len(A) : A[i] \in Datas
  <1>1. Len(A) \in Nat /\ DOMAIN A = 1 .. Len(A) /\ \A i \in 1 .. Len(A) : A[i] \in Datas
    BY ElementOfSeq, LenProperties
  <1>2. DataOf(A) = 1 .. Len(A)
    BY <1>1, FrameTypes DEF DataOf, SceneData
  <1>3. A \in Seq(Downward)
    BY <1>1 DEF Downward
  <1> QED
    BY <1>1, <1>2, <1>3

\* The data of a queue that data of s was put on.
LEMMA SentData ==
  ASSUME NEW q \in Seq(Downward), NEW A \in Seq(Datas), NEW s,
         \A i \in 1 .. Len(A) : A[i].scene = s
  PROVE  \A i \in DataOf(q \o A) : \/ i \in DataOf(q) /\ (q \o A)[i] = q[i]
                                   \/ (q \o A)[i].scene = s
  <1> DEFINE r == q \o A
  <1>1. A \in Seq(Downward) /\ DataOf(A) = 1 .. Len(A)
    BY DatasQueue
  <1>2. DataOf(r) = DataOf(q) \cup Shifted(Len(q), DataOf(A))
    BY <1>1, JoinedData
  <1>3. \A i \in DataOf(q) : r[i] = q[i]
    BY <1>1, JoinedData
  <1>4. \A i \in 1 .. Len(A) : r[Len(q) + i] = A[i]
    BY <1>1, JoinedQueue
  <1> HIDE DEF r
  <1>5. \A i \in DataOf(r) : i \in DataOf(q) \/ \E j \in 1 .. Len(A) : i = Len(q) + j
    BY <1>1, <1>2 DEF Shifted
  <1>6. \A i \in DataOf(r) : (i \in DataOf(q) /\ r[i] = q[i]) \/ r[i].scene = s
    BY <1>3, <1>4, <1>5
  <1> QED
    BY <1>6 DEF r

\* After an answer on a queue without data, the data is a run.
LEMMA AnsweredRun ==
  ASSUME NEW q \in Seq(Downward), DataOf(q) = {},
         NEW A, NEW s, NEW n \in Nat, NEW since, NEW b \in Nat, Answers(A, s, n, since, b)
  PROVE  Run(q \o A, s, n, since)
  <1> DEFINE r == q \o A
             m == n - b
             L == Len(q)
  <1>1. /\ A \in Seq(Datas) /\ Len(A) = m /\ b <= n /\ m \in Nat
        /\ \A i \in 1 .. m : A[i].scene = s /\ A[i].seq = b + i
        /\ \A i \in 1 .. m : A[i].type = "snapshot" => i = 1
        /\ (\A i \in 1 .. m : A[i].type # "snapshot") => b = since
    <2>1. /\ A \in Seq(Datas) /\ Len(A) = n - b /\ b <= n
          /\ \A i \in 1 .. n - b : A[i].scene = s /\ A[i].seq = b + i
          /\ \A i \in 1 .. n - b : A[i].type = "snapshot" => i = 1
          /\ (\A i \in 1 .. n - b : A[i].type # "snapshot") => b = since
      BY DEF Answers
    <2>2. n - b \in Nat
      BY <2>1
    <2> QED
      BY <2>1, <2>2
  <1>2. A \in Seq(Downward) /\ DataOf(A) = 1 .. m
    BY <1>1, DatasQueue
  <1>3. /\ L \in Nat
        /\ \A i \in 1 .. m : r[L + i] = A[i]
        /\ DataOf(r) = {L + i : i \in 1 .. m}
    <2>1. L \in Nat /\ DOMAIN A = 1 .. Len(A) /\ \A i \in 1 .. Len(A) : r[L + i] = A[i]
      BY <1>2, JoinedQueue
    <2>2. DataOf(r) = DataOf(q) \cup Shifted(Len(q), DataOf(A))
      BY <1>2, JoinedData
    <2> QED
      BY <1>1, <1>2, <2>1, <2>2 DEF Shifted
  <1> HIDE DEF r, m, L
  <1>4. \A i \in DataOf(r) : \E k \in 1 .. m : i = L + k /\ r[i] = A[k]
    BY <1>3
  <1>5. \A k \in 1 .. m : L + k \in DataOf(r) /\ r[L + k] = A[k]
    BY <1>3
  <1>6. \A i \in DataOf(r) : r[i].scene = s /\ r[i].seq \in b + 1 .. n
    BY <1>1, <1>4 DEF m
  <1>7. \A i, j \in DataOf(r) : i < j => r[i].seq < r[j].seq
    <2>1. ASSUME NEW i \in DataOf(r), NEW j \in DataOf(r), i < j PROVE r[i].seq < r[j].seq
      <3>0. \A x \in DataOf(r) : \E k \in 1 .. m : x = L + k /\ r[x].seq = b + k
        <4>1. ASSUME NEW x \in DataOf(r)
              PROVE  \E k \in 1 .. m : x = L + k /\ r[x].seq = b + k
          <5>1. PICK k \in 1 .. m : x = L + k /\ r[x] = A[k]
            BY <1>4
          <5>2. A[k].seq = b + k
            BY <1>1
          <5> QED
            BY <5>1, <5>2
        <4> QED
          BY <4>1
      <3>1. PICK k \in 1 .. m : i = L + k /\ r[i].seq = b + k
        BY <3>0
      <3>2. PICK h \in 1 .. m : j = L + h /\ r[j].seq = b + h
        BY <3>0
      <3> QED
        BY <1>3, <2>1, <3>1, <3>2
    <2> QED
      BY <2>1
  <1>8. {r[i].seq : i \in DataOf(r)} = b + 1 .. n
    <2>1. ASSUME NEW v \in b + 1 .. n PROVE v \in {r[i].seq : i \in DataOf(r)}
      <3>1. v - b \in 1 .. m /\ b + (v - b) = v
        BY <1>1 DEF m
      <3>2. L + (v - b) \in DataOf(r) /\ r[L + (v - b)].seq = v
        BY <1>1, <1>5, <3>1
      <3> QED
        BY <3>2
    <2> QED
      BY <1>6, <2>1
  <1>9. \A i \in DataOf(r) : r[i].type = "snapshot" => r[i].seq = b + 1
    BY <1>1, <1>4
  <1>10. (\A i \in DataOf(r) : r[i].type # "snapshot") => b = since
    BY <1>1, <1>5
  <1> QED
    BY <1>1, <1>6, <1>7, <1>8, <1>9, <1>10 DEF Run, r

\* One delta more, the next number.
LEMMA RunGrows ==
  ASSUME NEW q \in Seq(Downward), NEW s \in Scenes, NEW n \in Nat, NEW since, Run(q, s, n, since)
  PROVE  Run(q \o <<Delta(s, n + 1)>>, s, n + 1, since)
  <1> DEFINE f == Delta(s, n + 1)
             A == <<f>>
             r == q \o A
             L == Len(q)
  <1>1. f \in Datas /\ f.scene = s /\ f.seq = n + 1 /\ f.type = "delta"
    BY DEF Delta, Datas
  <1> HIDE DEF f
  <1>2. A \in Seq(Datas) /\ Len(A) = 1 /\ A[1] = f
    BY <1>1
  <1> HIDE DEF A
  <1>3. A \in Seq(Downward)
    BY <1>2, DatasQueue
  <1>30. DataOf(A) = {1}
    <2>1. DataOf(A) = 1 .. Len(A)
      BY <1>2, DatasQueue
    <2> QED
      BY <1>2, <2>1
  <1>4. /\ L \in Nat /\ DataOf(r) = DataOf(q) \cup {L + 1}
        /\ r[L + 1] = f /\ \A i \in DataOf(q) : i \in 1 .. L /\ r[i] = q[i]
    <2>1. /\ L \in Nat /\ DOMAIN q = 1 .. L /\ \A i \in 1 .. Len(q) : r[i] = q[i]
          /\ \A i \in 1 .. Len(A) : r[L + i] = A[i]
      BY <1>3, JoinedQueue
    <2>2. DataOf(r) = DataOf(q) \cup Shifted(Len(q), DataOf(A))
      BY <1>3, JoinedData
    <2>3. Shifted(L, {1}) = {L + 1}
      BY DEF Shifted
    <2>4. \A i \in DataOf(q) : i \in 1 .. L
      BY <2>1 DEF DataOf
    <2>5. DataOf(r) = DataOf(q) \cup {L + 1}
      BY <1>30, <2>2, <2>3
    <2>6. r[L + 1] = f
      <3>1. 1 \in 1 .. Len(A)
        BY <1>2
      <3> HIDE DEF r, L
      <3>2. r[L + 1] = A[1]
        BY <2>1, <3>1
      <3> QED
        BY <1>2, <3>2
    <2> HIDE DEF r, L
    <2> QED
      BY <2>1, <2>4, <2>5, <2>6
  <1> HIDE DEF r, L
  <1>5. PICK b \in Nat :
          /\ b <= n
          /\ \A i \in DataOf(q) : q[i].scene = s
          /\ \A i, j \in DataOf(q) : i < j => q[i].seq < q[j].seq
          /\ {q[i].seq : i \in DataOf(q)} = b + 1 .. n
          /\ \A i \in DataOf(q) : q[i].type = "snapshot" => q[i].seq = b + 1
          /\ (\A i \in DataOf(q) : q[i].type # "snapshot") => b = since
    BY DEF Run
  <1>6. \A i \in DataOf(q) : q[i].seq \in b + 1 .. n
    BY <1>5
  <1>7. \A i \in DataOf(r) : r[i].scene = s
    BY <1>1, <1>4, <1>5
  <1>8. \A i, j \in DataOf(r) : i < j => r[i].seq < r[j].seq
    <2>1. ASSUME NEW i \in DataOf(r), NEW j \in DataOf(r), i < j PROVE r[i].seq < r[j].seq
      <3>1. i \in DataOf(q)
        <4>1. i # L + 1
          BY <1>4, <2>1
        <4> QED
          BY <1>4, <4>1
      <3>2. CASE j \in DataOf(q)
        BY <1>4, <1>5, <2>1, <3>1, <3>2
      <3>3. CASE j = L + 1
        <4>1. r[j].seq = n + 1
          BY <1>1, <1>4, <3>3
        <4>2. r[i].seq \in b + 1 .. n
          BY <1>4, <1>6, <3>1
        <4> QED
          BY <4>1, <4>2
      <3> QED
        BY <1>4, <3>2, <3>3
    <2> QED
      BY <2>1
  <1>9. {r[i].seq : i \in DataOf(r)} = b + 1 .. n + 1
    <2>1. ASSUME NEW v \in b + 1 .. n + 1 PROVE v \in {r[i].seq : i \in DataOf(r)}
      <3>1. CASE v = n + 1
        BY <1>1, <1>4, <3>1
      <3>2. CASE v # n + 1
        <4>1. v \in {q[i].seq : i \in DataOf(q)}
          <5>1. v \in b + 1 .. n
            BY <1>5, <2>1, <3>2
          <5> QED
            BY <1>5, <5>1
        <4>2. PICK i \in DataOf(q) : v = q[i].seq
          BY <4>1
        <4> QED
          BY <1>4, <4>2
      <3> QED
        BY <3>1, <3>2
    <2>2. ASSUME NEW i \in DataOf(r) PROVE r[i].seq \in b + 1 .. n + 1
      <3>1. CASE i \in DataOf(q)
        <4>1. r[i].seq \in b + 1 .. n
          BY <1>4, <1>6, <3>1
        <4> QED
          BY <4>1
      <3>2. CASE i = L + 1
        BY <1>1, <1>4, <1>5, <3>2
      <3> QED
        BY <1>4, <3>1, <3>2
    <2> QED
      BY <2>1, <2>2
  <1>10. \A i \in DataOf(r) : r[i].type = "snapshot" => r[i].seq = b + 1
    BY <1>1, <1>4, <1>5
  <1>11. (\A i \in DataOf(r) : r[i].type # "snapshot") => b = since
    BY <1>4, <1>5
  <1>12. n + 1 \in Nat /\ b <= n + 1
    BY <1>5
  <1> QED
    BY <1>5, <1>7, <1>8, <1>9, <1>10, <1>11, <1>12 DEF Run, r, A, f

\* A subscriber that was let in is answered and registered.
LEMMA ServeSceneKeeps ==
  ASSUME ServerOK, \A d \in Conns : PeerInv(d), NEW p \in auths, ServeScene(p), said' = said
  PROVE  ServerOK' /\ \A d \in Conns : PeerInv(d)'
  <1>0. PICK a \in Scenes : a = activeScene
    BY DEF ServerOK
  <1> DEFINE c == p.conn
             w == conn[c]
             n == scenes[a].seq
             A == Answer(a, p.since)
             x == ServerSend(w, A)
             l == Listener(c, p.call)
             role == Grants[p.token]
             old == scenes[a].listeners
  <1>1. /\ role # None /\ a \notin Rejected
        /\ auths' = auths \ {p}
        /\ conn' = [conn EXCEPT ![c] = x]
        /\ scenes' = [scenes EXCEPT ![a].listeners = @ \cup {l}]
        /\ sub' = [sub EXCEPT ![c].decision = role,
                              ![c].unsubscribe = [scene |-> a, listener |-> l]]
        /\ activeScene' = a /\ activeScene = a /\ subs' = subs /\ said' = said
    BY <1>0 DEF ServeScene, Served
  <1>2. /\ p \in [conn : Conns, call : Nat, token : Tokens, since : Nat] /\ p \in auths
        /\ conn \in [Conns -> Wire] /\ a \in Scenes /\ SceneOK(a)
    BY <1>0 DEF ServerOK, Wire
  <1>3. /\ c \in Conns /\ w \in Wire /\ p.since \in Nat /\ p.call \in Nat /\ n \in Nat \ {0}
        /\ role \in {None} \cup {Grants[t] : t \in Tokens}
        /\ l \in {c} \X Nat /\ l[1] = c /\ l \in Conns \X Nat /\ a \in Scenes
    BY <1>2 DEF SceneOK, Listener
  <1>4. PICK b \in Nat : Answers(A, a, n, p.since, b)
    BY <1>2, <1>3, AnswerContent
  <1> HIDE DEF A, role, l
  <1>5. /\ A \in Seq(Datas) /\ A \in Seq(Downward) /\ Len(A) \in Nat
        /\ DataOf(A) = 1 .. Len(A) /\ \A i \in 1 .. Len(A) : A[i].scene = a
    <2>1. A \in Seq(Datas) /\ Len(A) = n - b /\ \A i \in 1 .. n - b : A[i].scene = a
      BY <1>4 DEF Answers
    <2>2. A \in Seq(Downward) /\ DataOf(A) = 1 .. Len(A) /\ Len(A) \in Nat
      BY <2>1, DatasQueue
    <2> QED
      BY <2>1, <2>2
  <1>6. /\ x \in Wire /\ SameButDown(w, x)
        /\ x.down = IF w.server = "open" /\ w.client \notin {"closing", "closed"} /\ ~w.cut
                    THEN w.down \o A ELSE w.down
    <2>1. w \in Link(Upward, Downward)
      BY <1>3 DEF Wire
    <2>2. /\ x \in Link(Upward, Downward) /\ SameButDown(w, x)
          /\ x.down = IF w.server = "open" /\ w.client \notin {"closing", "closed"} /\ ~w.cut
                      THEN w.down \o A ELSE w.down
      BY <1>5, <2>1, ServerSendLink
    <2> QED
      BY <2>2 DEF Wire
  <1> HIDE DEF x
  <1>7. conn' \in [Conns -> Wire] /\ conn'[c] = x /\ \A d \in Conns \ {c} : conn'[d] = conn[d]
    BY <1>1, <1>2, <1>3, <1>6
  <1>8. /\ DOMAIN sub' = Conns
        /\ \A d \in Conns \ {c} : sub'[d] = sub[d]
        /\ sub'[c].unsubscribe = [scene |-> a, listener |-> l]
        /\ \A d \in Conns : sub'[d] \in [decision : {None} \cup {Grants[t] : t \in Tokens},
                                         unsubscribe : {None} \cup Subscriptions(d),
                                         subscribes : Nat]
    <2> DEFINE T(d) == [decision : {None} \cup {Grants[t] : t \in Tokens},
                        unsubscribe : {None} \cup Subscriptions(d), subscribes : Nat]
               u == [scene |-> a, listener |-> l]
    <2>1. DOMAIN sub = Conns /\ \A d \in Conns : sub[d] \in T(d)
      BY DEF ServerOK
    <2>2. u \in Subscriptions(c)
      BY <1>3 DEF Subscriptions
    <2>3. sub' = [sub EXCEPT ![c].decision = role, ![c].unsubscribe = u]
      BY <1>1
    <2> HIDE DEF u, c
    <2>4. DOMAIN sub' = Conns /\ \A d \in Conns \ {c} : sub'[d] = sub[d]
      BY <2>1, <2>3
    <2>5. sub'[c] = [sub[c] EXCEPT !.decision = role, !.unsubscribe = u]
      BY <1>3, <2>1, <2>3
    <2>6. sub[c] \in T(c)
      BY <1>3, <2>1
    <2>7. sub'[c] \in T(c) /\ sub'[c].unsubscribe = u
      BY <1>3, <2>2, <2>5, <2>6
    <2> QED
      BY <2>1, <2>4, <2>7 DEF u
  <1>9. /\ DOMAIN scenes' = Scenes
        /\ \A s \in Scenes \ {a} : scenes'[s] = scenes[s]
        /\ scenes'[a] = [scenes[a] EXCEPT !.listeners = @ \cup {l}]
    BY <1>1, <1>3 DEF ServerOK
  <1>10. scenes'[a].seq = n /\ scenes'[a].listeners = old \cup {l} /\ SceneOK(a)'
    <2>1. /\ scenes[a] \in [seq : Nat \ {0}, replay : Rings, listeners : SUBSET (Conns \X Nat)]
          /\ Holds(scenes[a].replay, scenes[a].seq)
          /\ IsFiniteSet(old)
      BY <1>2 DEF SceneOK
    <2>2. old \cup {l} \in SUBSET (Conns \X Nat)
      BY <1>3, <2>1
    <2>3. /\ scenes'[a] \in [seq : Nat \ {0}, replay : Rings, listeners : SUBSET (Conns \X Nat)]
          /\ scenes'[a].seq = n /\ scenes'[a].replay = scenes[a].replay
          /\ scenes'[a].listeners = old \cup {l}
      BY <1>9, <2>1, <2>2
    <2>4. IsFiniteSet(old \cup {l})
      BY <2>1, FS_AddElement
    <2> QED
      BY <1>1, <2>1, <2>3, <2>4 DEF SceneOK
  <1>11. \A s \in Scenes \ {a} : SceneOK(s)'
    BY <1>9 DEF ServerOK, SceneOK
  <1>12. ServerOK'
    BY <1>1, <1>2, <1>7, <1>8, <1>9, <1>10, <1>11 DEF ServerOK, Wire
  <1>13. /\ \A d \in Conns, s \in Scenes \ {a} : Feeds(d, s)' = Feeds(d, s)
         /\ \A d \in Conns \ {c} : Feeds(d, a)' = Feeds(d, a)
         /\ Feeds(c, a)' = Feeds(c, a) \cup {l}
    <2> HIDE DEF c
    <2>1. \A d \in Conns, s \in Scenes \ {a} : Feeds(d, s)' = Feeds(d, s)
      BY <1>9 DEF Feeds
    <2>2. scenes'[a].listeners = scenes[a].listeners \cup {l}
      BY <1>10 DEF old
    <2>3. \A d \in Conns \ {c} : Feeds(d, a)' = Feeds(d, a)
      BY <1>3, <2>2 DEF Feeds
    <2>4. Feeds(c, a)' = Feeds(c, a) \cup {l}
      BY <1>3, <2>2 DEF Feeds
    <2> QED
      BY <2>1, <2>3, <2>4
  <1>14. ASSUME NEW d \in Conns \ {c} PROVE PeerInv(d)'
    <2>1. Quieter(conn[d], conn'[d])
      BY <1>2, <1>7, QuieterItself
    <2>2. \A s \in Scenes : Feeds(d, s)' = Feeds(d, s) /\ scenes'[s].seq = scenes[s].seq
      BY <1>9, <1>10, <1>13
    <2>3. Undisturbed(d)
      BY <1>1, <1>8, <2>1, <2>2 DEF Undisturbed
    <2> QED
      BY <2>3, UndisturbedKeeps
  <1> HIDE DEF n, old
  <1>15. /\ AsSaid(c) /\ Due(c) /\ Settled(c) /\ OnceInv(c)
         /\ Subscribes(c)' = Subscribes(c) /\ said' = said
    BY <1>1, <1>3 DEF PeerInv, Subscribes
  <1>16. PICK k \in Subscribes(c) : said[c][k].token = p.token /\ said[c][k].since = p.since
    BY <1>2, <1>15 DEF AsSaid
  <1>17. AsSaid(c)'
    BY <1>1, <1>6, <1>7, <1>15 DEF AsSaid, SameButDown
  <1>18. LetIn(c) /\ LetIn(c)'
    BY <1>1, <1>15, <1>16 DEF LetIn, role
  <1>19. \/ conn'[c].down = w.down /\ Data(c)' = Data(c)
         \/ /\ w.server = "open" /\ conn'[c].down = w.down \o A
            /\ \A i \in Data(c)' : \/ i \in Data(c) /\ conn'[c].down[i] = w.down[i]
                                   \/ conn'[c].down[i].scene = a
    <2>1. CASE x.down = w.down
      BY <1>7, <2>1 DEF Data
    <2>2. CASE w.server = "open" /\ x.down = w.down \o A
      <3>1. w.down \in Seq(Downward)
        BY <1>3 DEF Wire, Link
      <3>4. \A i \in DataOf(x.down) : \/ i \in DataOf(w.down) /\ x.down[i] = w.down[i]
                                      \/ x.down[i].scene = a
        <4> DEFINE q == w.down
        <4>1. q \in Seq(Downward) /\ x.down = q \o A
          BY <2>2, <3>1
        <4> HIDE DEF q
        <4>2. \A i \in DataOf(q \o A) : \/ i \in DataOf(q) /\ (q \o A)[i] = q[i]
                                        \/ (q \o A)[i].scene = a
          BY <1>5, <4>1, SentData
        <4> QED
          BY <4>1, <4>2 DEF q
      <3> QED
        BY <1>7, <2>2, <3>4 DEF Data, DataOf
    <2> QED
      BY <1>6, <2>1, <2>2
  <1>20. Due(c)'
    <2>1. \A s \in Scenes : Feeds(c, s)' # {} => s \notin Rejected
      BY <1>1, <1>3, <1>13, <1>15 DEF Due
    <2>2. \A i \in Data(c)' : conn'[c].down[i].scene \notin Rejected
      BY <1>1, <1>15, <1>19 DEF Due
    <2> QED
      BY <1>18, <2>1, <2>2 DEF Due
  <1>21. Settled(c)'
    <2>1. conn'[c].server = w.server
      BY <1>6, <1>7 DEF SameButDown
    <2>2. CASE w.server = "open"
      <3>1. /\ c \in subs /\ \A s \in Scenes \ {a} : Feeds(c, s) = {}
            /\ \A i \in Data(c) : w.down[i].scene = a
        BY <1>1, <1>15, <2>2 DEF Settled
      <3>2. \A i \in Data(c)' : conn'[c].down[i].scene = a
        BY <1>19, <3>1
      <3>3. \A s \in Scenes \ {a} : Feeds(c, s)' = {}
        BY <1>3, <1>13, <3>1
      <3> QED
        BY <1>1, <3>1, <3>2, <3>3 DEF Settled
    <2>3. CASE w.server # "open"
      <3>1. conn'[c].down = w.down /\ Data(c)' = Data(c)
        BY <1>19, <2>3
      <3>2. \A i, j \in Data(c) : w.down[i].scene = w.down[j].scene
        BY <1>15 DEF Settled
      <3> QED
        BY <2>1, <2>3, <3>1, <3>2 DEF Settled
    <2> QED
      BY <2>2, <2>3
  <1>22. OnceInv(c)'
    <2> SUFFICES ASSUME Once(c)' PROVE OnceInv(c)'
      BY DEF OnceInv
    <2>1. Once(c) /\ p \in Awaited(c)
      BY <1>2, <1>15 DEF Once, Awaited
    <2>2. /\ Subscribes(c) # {} /\ Untouched(c) /\ OnWire(c) = {} /\ Awaited(c) = {p}
      BY <1>15, <2>1 DEF OnceInv, ServedBy
    <2>3. Awaited(c)' = {}
      BY <1>1, <2>2 DEF Awaited
    <2>4. OnWire(c)' = {}
      BY <1>6, <1>7, <2>2 DEF OnWire, SameButDown
    <2>5. \A t \in Scenes : Feeds(c, t)' \subseteq IF t = a THEN {l} ELSE {}
      <3> HIDE DEF c
      <3>1. \A t \in Scenes : Feeds(c, t) = {}
        BY <2>2 DEF Untouched
      <3>2. Feeds(c, a)' = {l}
        BY <1>13, <3>1
      <3>3. \A t \in Scenes \ {a} : Feeds(c, t)' = {}
        BY <1>3, <1>13, <3>1
      <3> QED
        BY <3>2, <3>3
    <2>6. ASSUME IsLive(c)'
          PROVE  /\ l \in scenes'[a].listeners
                 /\ \A j \in Subscribes(c)' : Run(conn'[c].down, a, scenes'[a].seq, said'[c][j].since)
      <3>1. conn'[c].down = w.down \o A
        BY <1>6, <1>7, <2>6 DEF IsLive, SameButDown
      <3>2. w.down \in Seq(Downward) /\ DataOf(w.down) = {}
        BY <1>3, <2>2 DEF Wire, Link, Untouched, Data, DataOf
      <3>3. Run(w.down \o A, a, n, p.since)
        BY <1>3, <1>4, <3>2, AnsweredRun
      <3>4. \A j \in Subscribes(c)' : said'[c][j].since = p.since
        BY <1>15, <1>16, <2>1 DEF Once
      <3> QED
        BY <1>10, <3>1, <3>3, <3>4
    <2>7. ServedBy(c, a, l)'
      BY <1>1, <1>8, <2>5, <2>6 DEF ServedBy
    <2>8. \E s \in Scenes, m \in Nat : ServedBy(c, s, Listener(c, m))'
      BY <1>2, <1>3, <2>7 DEF l, Listener
    <2> QED
      BY <1>15, <2>2, <2>3, <2>4, <2>8 DEF OnceInv, Listener
  <1> QED
    BY <1>3, <1>12, <1>14, <1>17, <1>20, <1>21, <1>22 DEF PeerInv

\* An update goes, once, to whom the scene feeds.
LEMMA EmitKeeps ==
  ASSUME ServerOK, \A d \in Conns : PeerInv(d), NEW s \in Scenes, NEW w \in [Conns -> Wire],
         \A d \in Conns : Quieter(conn[d], w[d]) /\ SameButUp(conn[d], w[d]),
         Emit(s, w),
         activeScene' = activeScene, subs' = subs, sub' = sub, auths' = auths, said' = said
  PROVE  ServerOK' /\ \A d \in Conns : PeerInv(d)'
  <1> DEFINE n == scenes[s].seq
             f == Delta(s, n + 1)
             Ms(d) == [i \in 1 .. Cardinality(Feeds(d, s)) |-> f]
             x(d) == ServerSend(w[d], Ms(d))
  <1>1. /\ conn \in [Conns -> Wire] /\ SceneOK(s) /\ n \in Nat \ {0}
        /\ DOMAIN scenes = Scenes
    BY DEF ServerOK, Wire, SceneOK
  <1>2. /\ scenes' = [scenes EXCEPT ![s].seq = n + 1, ![s].replay = Pushed(@, n + 1)]
        /\ conn' = [d \in Conns |-> x(d)]
    BY DEF Emit, Fanout, Feeds
  <1>3. /\ DOMAIN scenes' = Scenes
        /\ \A t \in Scenes \ {s} : scenes'[t] = scenes[t]
        /\ scenes'[s] = [scenes[s] EXCEPT !.seq = n + 1, !.replay = Pushed(@, n + 1)]
    BY <1>1, <1>2
  <1>4. /\ SceneOK(s)' /\ scenes'[s].seq = n + 1
        /\ scenes'[s].listeners = scenes[s].listeners
    <2>1. /\ scenes[s] \in [seq : Nat \ {0}, replay : Rings, listeners : SUBSET (Conns \X Nat)]
          /\ Holds(scenes[s].replay, n) /\ IsFiniteSet(scenes[s].listeners)
      BY <1>1 DEF SceneOK
    <2>2. Holds(Pushed(scenes[s].replay, n + 1), n + 1)
      BY <1>1, <2>1, PushedHolds
    <2>3. Pushed(scenes[s].replay, n + 1) \in Rings
      BY <2>2 DEF Holds
    <2> HIDE DEF n
    <2>4. /\ scenes'[s] \in [seq : Nat \ {0}, replay : Rings, listeners : SUBSET (Conns \X Nat)]
          /\ scenes'[s].seq = n + 1 /\ scenes'[s].replay = Pushed(scenes[s].replay, n + 1)
          /\ scenes'[s].listeners = scenes[s].listeners
      <3> DEFINE old == scenes[s]
                 ring == Pushed(old.replay, n + 1)
      <3>1. scenes'[s] = [old EXCEPT !.seq = n + 1, !.replay = ring]
        BY <1>3
      <3>2. /\ old \in [seq : Nat \ {0}, replay : Rings, listeners : SUBSET (Conns \X Nat)]
            /\ ring \in Rings /\ n + 1 \in Nat \ {0}
        BY <1>1, <2>1, <2>3 DEF n
      <3> HIDE DEF ring, old
      <3>3. /\ scenes'[s] \in [seq : Nat \ {0}, replay : Rings, listeners : SUBSET (Conns \X Nat)]
            /\ scenes'[s].seq = n + 1 /\ scenes'[s].replay = ring
            /\ scenes'[s].listeners = old.listeners
        BY <3>1, <3>2
      <3> QED
        BY <3>3 DEF ring, old
    <2> QED
      BY <2>1, <2>2, <2>4 DEF SceneOK
  <1>5. \A d \in Conns, t \in Scenes : Feeds(d, t)' = Feeds(d, t)
    BY <1>3, <1>4 DEF Feeds
  <1>6. \A t \in Scenes : SceneOK(t)'
    BY <1>3, <1>4 DEF ServerOK, SceneOK
  <1>7. f \in Datas /\ f.scene = s
    BY <1>1 DEF Delta, Datas
  <1> HIDE DEF n, f
  <1>8. ASSUME NEW d \in Conns
        PROVE  /\ Cardinality(Feeds(d, s)) \in Nat
               /\ Feeds(d, s) = {} => Cardinality(Feeds(d, s)) = 0
               /\ Ms(d) \in Seq(Datas) /\ Len(Ms(d)) = Cardinality(Feeds(d, s))
               /\ \A i \in 1 .. Len(Ms(d)) : Ms(d)[i] = f
    <2>1. IsFiniteSet(Feeds(d, s))
      <3>1. IsFiniteSet(scenes[s].listeners) /\ Feeds(d, s) \subseteq scenes[s].listeners
        BY <1>1 DEF SceneOK, Feeds
      <3> QED
        BY <3>1, FS_Subset
    <2>2. Cardinality(Feeds(d, s)) \in Nat
      BY <2>1, FS_CardinalityType
    <2>3. Feeds(d, s) = {} => Cardinality(Feeds(d, s)) = 0
      BY FS_EmptySet
    <2> DEFINE m == Cardinality(Feeds(d, s))
    <2> HIDE DEF m
    <2>4. Ms(d) = [i \in 1 .. m |-> f]
      BY DEF m
    <2>5. m \in Nat
      BY <2>2 DEF m
    <2> HIDE DEF Ms
    <2>6. Ms(d) \in Seq(Datas) /\ Len(Ms(d)) = m /\ \A i \in 1 .. m : Ms(d)[i] = f
      BY <1>7, <2>4, <2>5
    <2> QED
      BY <2>2, <2>3, <2>6 DEF m
  <1> HIDE DEF Ms
  <1>9. ASSUME NEW d \in Conns
        PROVE  /\ x(d) \in Wire /\ SameButDown(w[d], x(d)) /\ Ms(d) \in Seq(Downward)
               /\ x(d).down = IF w[d].server = "open" /\ w[d].client \notin {"closing", "closed"}
                                 /\ ~w[d].cut
                              THEN w[d].down \o Ms(d) ELSE w[d].down
    <2>1. w[d] \in Link(Upward, Downward) /\ Ms(d) \in Seq(Downward)
      BY <1>8, DatasQueue DEF Wire
    <2> QED
      BY <2>1, ServerSendLink DEF Wire
  <1>10. \A d \in Conns : conn'[d] = x(d)
    BY <1>2
  <1>11. conn' \in [Conns -> Wire]
    <2>1. \A d \in Conns : x(d) \in Wire
      BY <1>9
    <2> HIDE DEF x
    <2> QED
      BY <1>2, <2>1
  <1>12. ServerOK'
    BY <1>3, <1>6, <1>11 DEF ServerOK, Wire
  <1>13. ASSUME NEW d \in Conns, Feeds(d, s) = {} PROVE PeerInv(d)'
    <2>1. Ms(d) \in Seq(Downward) /\ DataOf(Ms(d)) = {}
      <3>1. Ms(d) \in Seq(Datas) /\ Len(Ms(d)) = 0
        BY <1>8, <1>13
      <3>2. Ms(d) \in Seq(Downward) /\ DataOf(Ms(d)) = 1 .. Len(Ms(d))
        BY <3>1, DatasQueue
      <3> QED
        BY <3>1, <3>2
    <2>2. Quieter(w[d], x(d))
      BY <2>1, SendQuieter
    <2>3. Quieter(conn[d], conn'[d])
      BY <1>10, <2>2, QuieterTransitive
    <2>4. \A t \in Scenes : /\ Feeds(d, t)' = Feeds(d, t)
                            /\ Feeds(d, t) # {} => scenes'[t].seq = scenes[t].seq
      BY <1>3, <1>5, <1>13
    <2>5. Undisturbed(d)
      BY <2>3, <2>4 DEF Undisturbed
    <2> QED
      BY <2>5, UndisturbedKeeps
  <1>14. ASSUME NEW d \in Conns, Feeds(d, s) # {} PROVE PeerInv(d)'
    <2> DEFINE q == conn[d].down
               r == conn'[d].down
    <2>1. /\ AsSaid(d) /\ Due(d) /\ Settled(d) /\ OnceInv(d)
          /\ Subscribes(d)' = Subscribes(d)
      BY DEF PeerInv, Subscribes
    <2>2. /\ conn'[d].client = conn[d].client /\ conn'[d].server = conn[d].server
          /\ conn'[d].cut = conn[d].cut /\ conn'[d].up = w[d].up
          /\ UpLess(conn[d].up, conn'[d].up)
      BY <1>9, <1>10 DEF SameButDown, SameButUp, Quieter
    <2>3. q \in Seq(Downward) /\ w[d].down = q
      BY <1>1 DEF Wire, Link, SameButUp
    <2>4. r = IF conn[d].server = "open" /\ conn[d].client \notin {"closing", "closed"}
                 /\ ~conn[d].cut
              THEN q \o Ms(d) ELSE q
      BY <1>9, <1>10, <2>2, <2>3 DEF SameButDown, SameButUp
    <2>5. Data(d) = DataOf(q) /\ Data(d)' = DataOf(r)
      BY DEF Data, DataOf
    <2> HIDE DEF q, r
    <2>6. \/ r = q
          \/ /\ conn[d].server = "open"
             /\ \A i \in DataOf(r) : (i \in DataOf(q) /\ r[i] = q[i]) \/ r[i].scene = s
      <3>1. Ms(d) \in Seq(Datas) /\ \A i \in 1 .. Len(Ms(d)) : Ms(d)[i].scene = s
        BY <1>7, <1>8
      <3>2. \A i \in DataOf(q \o Ms(d)) : \/ i \in DataOf(q) /\ (q \o Ms(d))[i] = q[i]
                                          \/ (q \o Ms(d))[i].scene = s
        BY <2>3, <3>1, SentData
      <3> QED
        BY <2>4, <3>2
    <2>7. AsSaid(d)'
      BY <2>1, <2>2 DEF AsSaid, UpLess, SubsOf
    <2>8. LetIn(d) /\ LetIn(d)' /\ s \notin Rejected
      BY <1>14, <2>1 DEF Due, LetIn
    <2>9. Due(d)'
      <3>1. \A t \in Scenes : Feeds(d, t)' # {} => t \notin Rejected
        BY <1>5, <2>1 DEF Due
      <3>2. \A i \in DataOf(q) : q[i].scene \notin Rejected
        BY <2>1, <2>5 DEF Due, q
      <3>3. \A i \in DataOf(r) : r[i].scene \notin Rejected
        BY <2>6, <2>8, <3>2
      <3> QED
        BY <2>5, <2>8, <3>1, <3>3 DEF Due, r
    <2>10. Settled(d)'
      <3>1. \A i, j \in DataOf(q) : q[i].scene = q[j].scene
        BY <2>1, <2>5 DEF Settled, q
      <3>2. ASSUME conn[d].server = "open"
            PROVE  /\ d \in subs /\ \A t \in Scenes \ {activeScene} : Feeds(d, t)' = {}
                   /\ \A i \in DataOf(r) : r[i].scene = activeScene
        <4>1. /\ d \in subs /\ \A t \in Scenes \ {activeScene} : Feeds(d, t) = {}
              /\ \A i \in DataOf(q) : q[i].scene = activeScene
          BY <2>1, <2>5, <3>2 DEF Settled, q
        <4>2. s = activeScene
          BY <1>14, <4>1
        <4> QED
          BY <1>5, <2>6, <4>1, <4>2
      <3>3. \A i, j \in DataOf(r) : r[i].scene = r[j].scene
        BY <2>6, <3>1, <3>2
      <3> QED
        BY <2>2, <2>5, <3>2, <3>3 DEF Settled, r
    <2>11. OnceInv(d)'
      <3> SUFFICES ASSUME Once(d)' PROVE OnceInv(d)'
        BY DEF OnceInv
      <3>1. Once(d) /\ ~Untouched(d)
        BY <1>14, <2>1 DEF Once, Untouched
      <3>2. /\ Subscribes(d) # {} /\ OnWire(d) = {} /\ Awaited(d) = {}
            /\ \E t \in Scenes, m \in Nat : ServedBy(d, t, Listener(d, m))
        BY <2>1, <3>1 DEF OnceInv
      <3>3. PICK t \in Scenes, m \in Nat : ServedBy(d, t, Listener(d, m))
        BY <3>2
      <3> DEFINE l == Listener(d, m)
      <3> HIDE DEF l
      <3>4. /\ sub[d].unsubscribe = [scene |-> t, listener |-> l]
            /\ \A u \in Scenes : Feeds(d, u) \subseteq IF u = t THEN {l} ELSE {}
            /\ IsLive(d) => /\ l \in scenes[t].listeners
                            /\ \A k \in Subscribes(d) :
                                  Run(q, t, scenes[t].seq, said[d][k].since)
        BY <3>3 DEF ServedBy, l, q
      <3>5. t = s /\ Feeds(d, s) = {l}
        BY <1>14, <3>4
      <3>6. Ms(d) = <<f>>
        <4>1. Cardinality(Feeds(d, s)) = 1
          BY <3>5, FS_Singleton
        <4>2. Ms(d) = [i \in 1 .. 1 |-> f]
          BY <4>1 DEF Ms
        <4> QED
          BY <4>2
      <3>7. OnWire(d)' = {} /\ Awaited(d)' = {}
        BY <2>2, <3>2 DEF OnWire, Awaited, UpLess, SubsOf
      <3>8. ASSUME IsLive(d)'
            PROVE  /\ l \in scenes'[s].listeners
                   /\ \A k \in Subscribes(d)' : Run(r, s, scenes'[s].seq, said'[d][k].since)
        <4>1. IsLive(d)
          BY <2>2, <3>8 DEF IsLive
        <4>2. r = q \o <<f>>
          BY <2>4, <3>6, <4>1 DEF IsLive
        <4>3. l \in scenes[s].listeners
              /\ \A k \in Subscribes(d) : Run(q, s, n, said[d][k].since)
          BY <3>4, <3>5, <4>1 DEF n
        <4>4. ASSUME NEW k \in Subscribes(d) PROVE Run(r, s, n + 1, said[d][k].since)
          <5> DEFINE since == said[d][k].since
          <5>1. Run(q, s, n, since)
            BY <4>3
          <5>2. n \in Nat
            BY <1>1 DEF n
          <5> HIDE DEF since
          <5>3. Run(q \o <<Delta(s, n + 1)>>, s, n + 1, since)
            BY <2>3, <5>1, <5>2, RunGrows
          <5> QED
            BY <4>2, <5>3 DEF f, since
        <4> QED
          BY <1>4, <2>1, <4>3, <4>4 DEF n
      <3>9. sub'[d].unsubscribe = [scene |-> s, listener |-> l]
        BY <3>4, <3>5
      <3>10. \A u \in Scenes : Feeds(d, u)' \subseteq IF u = s THEN {l} ELSE {}
        BY <1>5, <3>4, <3>5
      <3>11. ServedBy(d, s, l)'
        BY <3>8, <3>9, <3>10 DEF ServedBy, r
      <3>12. \E u \in Scenes, h \in Nat : ServedBy(d, u, Listener(d, h))'
        BY <3>3, <3>11 DEF l, Listener
      <3> QED
        BY <2>1, <3>2, <3>7, <3>12 DEF OnceInv, Listener
    <2> QED
      BY <2>7, <2>9, <2>10, <2>11 DEF PeerInv
  <1> QED
    BY <1>12, <1>13, <1>14

LEMMA SceneUpdateKeeps ==
  ASSUME ServerOK, \A d \in Conns : PeerInv(d), NEW s \in Scenes, SceneUpdate(s), said' = said
  PROVE  ServerOK' /\ \A d \in Conns : PeerInv(d)'
  <1>1. conn \in [Conns -> Wire]
    BY DEF ServerOK, Wire
  <1>2. \A d \in Conns : Quieter(conn[d], conn[d]) /\ SameButUp(conn[d], conn[d])
    BY <1>1, QuieterItself DEF SameButUp
  <1>3. /\ Emit(s, conn) /\ activeScene' = activeScene /\ subs' = subs /\ sub' = sub
        /\ auths' = auths
    BY DEF SceneUpdate
  <1> QED
    BY <1>1, <1>2, <1>3, EmitKeeps

LEMMA ApplyInputKeeps ==
  ASSUME ServerOK, \A d \in Conns : PeerInv(d), NEW c \in Conns, ApplyInput(c), said' = said
  PROVE  ServerOK' /\ \A d \in Conns : PeerInv(d)'
  <1> DEFINE w == [conn EXCEPT ![c] = Taken(c)]
  <1>1. /\ Receiving(c, "input") /\ Emit(activeScene, w) /\ activeScene \in Scenes
        /\ activeScene' = activeScene /\ subs' = subs /\ sub' = sub /\ auths' = auths
    BY DEF ApplyInput, ServerOK
  <1>2. conn \in [Conns -> Wire]
    BY DEF ServerOK, Wire
  <1>3. /\ Taken(c) \in Wire /\ Quieter(conn[c], Taken(c)) /\ SameButUp(conn[c], Taken(c))
    BY <1>1, ReceivedWire DEF SameButUp, Taken
  <1>4. w \in [Conns -> Wire] /\ w[c] = Taken(c) /\ \A d \in Conns \ {c} : w[d] = conn[d]
    BY <1>2, <1>3
  <1> HIDE DEF w
  <1>5. \A d \in Conns : Quieter(conn[d], w[d]) /\ SameButUp(conn[d], w[d])
    BY <1>2, <1>3, <1>4, QuieterItself DEF SameButUp
  <1>6. PICK s \in Scenes : s = activeScene
    BY <1>1
  <1>7. Emit(s, w)
    BY <1>1, <1>6
  <1> QED
    BY <1>1, <1>4, <1>5, <1>7, EmitKeeps

-----------------------------------------------------------------------------
(***************************************************************************)
(* The invariant.                                                          *)
(***************************************************************************)
LEMMA ServerInvInit == Init => ServerInv
  <1> SUFFICES ASSUME Init PROVE ServerInv
    OBVIOUS
  <1>1. /\ conn = [c \in Conns |-> NewConn]
        /\ scenes = [s \in Scenes |-> [seq |-> 1, replay |-> EmptyRing, listeners |-> {}]]
        /\ activeScene = FirstScene /\ subs = {} /\ sub = [c \in Conns |-> NewSub]
        /\ auths = {} /\ said = [c \in Conns |-> <<>>]
    BY DEF Init, ServerInit
  <1>2. NewConn \in Wire
    <2>1. <<>> \in Seq(Upward) /\ <<>> \in Seq(Downward)
      OBVIOUS
    <2> QED
      <3> DEFINE e == <<>>
      <3>1. e \in Seq(Upward) /\ e \in Seq(Downward)
        BY <2>1
      <3>2. NewConn = [client |-> "none", server |-> "none", protocol |-> None,
                       up |-> e, down |-> e, cut |-> FALSE]
        BY DEF NewConn
      <3> HIDE DEF e
      <3> QED
        BY <3>1, <3>2 DEF Wire, Link, EndStates, ServerStates
  <1>3. conn \in [Conns -> Link(Upward, Downward)]
    BY <1>1, <1>2 DEF Wire
  <1>4. \A s \in Scenes : SceneOK(s) /\ scenes[s].listeners = {}
    <2> SUFFICES ASSUME NEW s \in Scenes PROVE SceneOK(s) /\ scenes[s].listeners = {}
      OBVIOUS
    <2>1. scenes[s] = [seq |-> 1, replay |-> EmptyRing, listeners |-> {}]
      BY <1>1
    <2>2. EmptyRing \in Rings
      BY EmptyHolds DEF Holds
    <2>3. IsFiniteSet({})
      BY FS_EmptySet
    <2>4. Holds(EmptyRing, 1)
      BY EmptyHolds
    <2> HIDE <1>1
    <2>5. /\ scenes[s].seq = 1 /\ scenes[s].replay = EmptyRing /\ scenes[s].listeners = {}
          /\ scenes[s] \in [seq : Nat \ {0}, replay : Rings, listeners : SUBSET (Conns \X Nat)]
      BY <2>1, <2>2
    <2> QED
      BY <2>3, <2>4, <2>5 DEF SceneOK
  <1>5. \A c \in Conns : sub[c] = NewSub /\ NewSub.unsubscribe = None
    BY <1>1 DEF NewSub
  <1>6. /\ DOMAIN sub = Conns
        /\ \A c \in Conns : sub[c] \in [decision : {None} \cup {Grants[t] : t \in Tokens},
                                        unsubscribe : {None} \cup Subscriptions(c),
                                        subscribes : Nat]
    BY <1>1 DEF NewSub
  <1>7. said \in [Conns -> Seq(ClientFrames)]
    BY <1>1
  <1>8. ServerOK
    BY <1>1, <1>3, <1>4, <1>6, <1>7, ServerAssumption DEF ServerOK
  <1>9. ASSUME NEW c \in Conns PROVE PeerInv(c)
    <2>1. /\ conn[c].client = "none" /\ conn[c].server = "none"
          /\ conn[c].up = <<>> /\ conn[c].down = <<>> /\ said[c] = <<>>
      BY <1>1 DEF NewConn
    <2>2. DOMAIN conn[c].up = {} /\ DOMAIN conn[c].down = {} /\ DOMAIN said[c] = {}
      BY <2>1
    <2>3. \A s \in Scenes : Feeds(c, s) = {}
      BY <1>4 DEF Feeds
    <2>4. Subscribes(c) = {} /\ Data(c) = {} /\ OnWire(c) = {} /\ Awaited(c) = {}
      BY <1>1, <2>2 DEF Subscribes, Data, OnWire, Awaited
    <2>5. AsSaid(c)
      BY <1>1, <2>1, <2>2 DEF AsSaid
    <2>6. Due(c) /\ Settled(c)
      BY <2>1, <2>3, <2>4 DEF Due, Settled
    <2>7. OnceInv(c)
      BY <1>5, <2>3, <2>4 DEF OnceInv, Untouched
    <2> QED
      BY <2>5, <2>6, <2>7 DEF PeerInv
  <1> QED
    BY <1>8, <1>9 DEF ServerInv, PeerInv

LEMMA ServerInvStep == ServerInv /\ [Next]_vars => ServerInv'
  <1> SUFFICES ASSUME ServerInv, [Next]_vars PROVE ServerInv'
    OBVIOUS
  <1>1. ServerOK /\ \A d \in Conns : PeerInv(d)
    BY DEF ServerInv, PeerInv
  <1>2. SUFFICES ServerOK' /\ \A d \in Conns : PeerInv(d)'
    BY DEF ServerInv, PeerInv
  <1>3. ASSUME ServerOK' /\ \A d \in Conns : Undisturbed(d)
        PROVE  ServerOK' /\ \A d \in Conns : PeerInv(d)'
    BY <1>1, <1>3, UndisturbedKeeps
  <1>4. ASSUME NEW c \in Conns, ServerReceives(c), said' = said
        PROVE  ServerOK' /\ \A d \in Conns : PeerInv(d)'
    <2>1. CASE AcceptConnection(c)
      BY <1>1, <1>4, <2>1, AcceptKeeps
    <2>2. CASE RefuseConnection(c)
      BY <1>1, <1>3, <1>4, <2>2, RefuseConnectionKeeps
    <2>3. CASE OnServerClose(c)
      BY <1>1, <1>3, <1>4, <2>3, OnServerCloseKeeps
    <2>4. CASE RecvSubscribe(c)
      BY <1>1, <1>4, <2>4, RecvSubscribeKeeps
    <2>5. CASE RejectInput(c)
      BY <1>1, <1>3, <1>4, <2>5, RejectInputKeeps
    <2>6. CASE ApplyInput(c)
      BY <1>1, <1>4, <2>6, ApplyInputKeeps
    <2>7. CASE RecvPing(c)
      BY <1>1, <1>3, <1>4, <2>7, RecvPingKeeps
    <2>8. CASE RecvUnsubscribe(c)
      BY <1>1, <1>3, <1>4, <2>8, RecvUnsubscribeKeeps
    <2>9. CASE RecvMalformed(c)
      BY <1>1, <1>3, <1>4, <2>9, RecvMalformedKeeps
    <2> QED
      BY <1>4, <2>1, <2>2, <2>3, <2>4, <2>5, <2>6, <2>7, <2>8, <2>9 DEF ServerReceives
  <1>5. ASSUME NEW p \in auths, AuthRefused(p) \/ RefuseScene(p), said' = said
        PROVE  ServerOK' /\ \A d \in Conns : PeerInv(d)'
    BY <1>1, <1>3, <1>5, RefusedKeeps
  <1>7. ASSUME NEW code \in {1000, 1012}, DetachAll(code), activeScene' \in Scenes,
               sub' = sub, auths' = auths, said' = said
        PROVE  ServerOK' /\ \A d \in Conns : PeerInv(d)'
    BY <1>1, <1>3, <1>7, DetachAllKeeps
  <1>8. activeScene \in Scenes
    BY <1>1 DEF ServerOK
  <1>9. CASE \E c \in Conns : \/ ServerReceives(c) /\ UNCHANGED said
                              \/ ClientConnects(c) \/ ClientOpens(c) \/ ClientLeaves(c)
                              \/ ClientSeesClose(c) \/ CutOff(c)
                              \/ \E f \in ClientFrames : ClientSays(c, f)
    <2> PICK c \in Conns : \/ ServerReceives(c) /\ UNCHANGED said
                           \/ ClientConnects(c) \/ ClientOpens(c) \/ ClientLeaves(c)
                           \/ ClientSeesClose(c) \/ CutOff(c)
                           \/ \E f \in ClientFrames : ClientSays(c, f)
      BY <1>9
    <2>1. CASE ServerReceives(c) /\ UNCHANGED said
      BY <1>4, <2>1
    <2>2. CASE ClientConnects(c)
      BY <1>1, <1>3, <2>2, ClientConnectsKeeps
    <2>3. CASE ClientOpens(c)
      BY <1>1, <2>3, ClientOpensKeeps
    <2>4. CASE ClientLeaves(c)
      BY <1>1, <1>3, <2>4, ClientLeavesKeeps
    <2>5. CASE ClientSeesClose(c)
      BY <1>1, <1>3, <2>5, ClientSeesCloseKeeps
    <2>6. CASE CutOff(c)
      BY <1>1, <1>3, <2>6, CutOffKeeps
    <2>7. CASE \E f \in ClientFrames : ClientSays(c, f)
      BY <1>1, <2>7, ClientSaysKeeps
    <2> QED
      BY <2>1, <2>2, <2>3, <2>4, <2>5, <2>6, <2>7
  <1>10. CASE \E p \in auths : Authenticated(p) /\ UNCHANGED said
    <2> PICK p \in auths : Authenticated(p) /\ said' = said
      BY <1>10
    <2>1. CASE AuthRefused(p)
      BY <1>5, <2>1
    <2>2. CASE RefuseScene(p)
      BY <1>5, <2>2
    <2>3. CASE ServeScene(p)
      BY <1>1, <2>3, ServeSceneKeeps
    <2> QED
      BY <2>1, <2>2, <2>3 DEF Authenticated
  <1>11. CASE \E s \in Scenes : (SceneUpdate(s) \/ SetActiveScene(s)) /\ UNCHANGED said
    <2> PICK s \in Scenes : (SceneUpdate(s) \/ SetActiveScene(s)) /\ said' = said
      BY <1>11
    <2>1. CASE SceneUpdate(s)
      BY <1>1, <2>1, SceneUpdateKeeps
    <2>2. CASE SetActiveScene(s)
      BY <1>7, <2>2 DEF SetActiveScene
    <2> QED
      BY <2>1, <2>2
  <1>12. CASE (Reset \/ Close) /\ UNCHANGED said
    BY <1>7, <1>8, <1>12 DEF Reset, Close
  <1>13. CASE UNCHANGED vars
    <2>1. /\ conn' = conn /\ scenes' = scenes /\ activeScene' = activeScene /\ subs' = subs
          /\ sub' = sub /\ auths' = auths /\ said' = said
      BY <1>13 DEF vars, serverVars
    <2>2. \A s \in Scenes : SceneOK(s)'
      BY <1>1, <2>1 DEF ServerOK, SceneOK
    <2>3. ServerOK'
      BY <1>1, <2>1, <2>2 DEF ServerOK
    <2>4. ASSUME NEW d \in Conns PROVE Undisturbed(d)
      <3>1. Quieter(conn[d], conn'[d])
        BY <1>1, <2>1, QuieterItself DEF ServerOK, Wire
      <3>2. \A s \in Scenes : Feeds(d, s)' = Feeds(d, s)
        BY <2>1 DEF Feeds
      <3> QED
        BY <2>1, <3>1, <3>2 DEF Undisturbed
    <2> QED
      BY <1>3, <2>3, <2>4
  <1> QED
    BY <1>9, <1>10, <1>11, <1>12, <1>13 DEF Next

\* The invariant the properties follow from.
THEOREM ServerInvariant == Spec => []ServerInv
  <1>1. Init => ServerInv
    BY ServerInvInit
  <1>2. ServerInv /\ [Next]_vars => ServerInv'
    BY ServerInvStep
  <1> QED
    BY <1>1, <1>2, PTL DEF Spec

-----------------------------------------------------------------------------
(***************************************************************************)
(* The properties.                                                         *)
(***************************************************************************)

\* A run whose first element is a snapshot, or that starts after `since`.
LEMMA RunIsComplete ==
  ASSUME NEW c \in Conns, NEW s \in Scenes, scenes[s].seq \in Nat, NEW since,
         conn[c].down \in Seq(Downward), Run(conn[c].down, s, scenes[s].seq, since)
  PROVE  Complete(c, s, since)
  <1> DEFINE q == conn[c].down
             n == scenes[s].seq
             snaps == {i \in Data(c) : q[i].type = "snapshot"}
             base == IF snaps = {} THEN since ELSE q[CHOOSE i \in snaps : TRUE].seq - 1
  <1>1. Data(c) = DataOf(q) /\ DataOf(q) \subseteq Nat
    BY LenProperties DEF Data, DataOf
  <1> HIDE DEF q
  <1>2. PICK b \in Nat :
          /\ b <= n
          /\ \A i \in DataOf(q) : q[i].scene = s
          /\ \A i, j \in DataOf(q) : i < j => q[i].seq < q[j].seq
          /\ {q[i].seq : i \in DataOf(q)} = b + 1 .. n
          /\ \A i \in DataOf(q) : q[i].type = "snapshot" => q[i].seq = b + 1
          /\ (\A i \in DataOf(q) : q[i].type # "snapshot") => b = since
    BY DEF Run, q
  <1> HIDE DEF n
  <1>3. \A i \in DataOf(q) : q[i].seq \in b + 1 .. n
    BY <1>2
  <1>4. \A i \in snaps : i \in DataOf(q) /\ q[i].seq = b + 1
    BY <1>1, <1>2
  <1>5. \A i \in snaps : \A j \in Data(c) : i <= j
    <2> SUFFICES ASSUME NEW i \in snaps, NEW j \in Data(c), j < i PROVE FALSE
      BY <1>1
    <2>1. q[j].seq < q[i].seq
      BY <1>1, <1>2, <1>4
    <2> QED
      BY <1>1, <1>2, <1>3, <1>4, <2>1
  <1>6. base = b
    <2>1. CASE snaps = {}
      BY <1>1, <1>2, <2>1
    <2>2. CASE snaps # {}
      <3>1. PICK i \in snaps : i = CHOOSE j \in snaps : TRUE
        BY <2>2
      <3>2. q[i].seq = b + 1
        BY <1>4
      <3>3. base = q[i].seq - 1
        BY <2>2, <3>1
      <3> QED
        BY <3>2, <3>3
    <2> QED
      BY <2>1, <2>2
  <1>7. {q[i].seq : i \in Data(c)} = base + 1 .. n
    BY <1>1, <1>2, <1>6
  <1>8. /\ \A i, j \in Data(c) : i < j => q[i].seq < q[j].seq
        /\ \A i \in Data(c) : q[i].scene = s
    BY <1>1, <1>2
  <1> QED
    BY <1>5, <1>7, <1>8 DEF Complete, q, n

\* A subscriber has been sent every number from its starting point to the
\* scene's current one, each once and in order, whatever went on while it was
\* being authenticated (server.ts handleSubscribe).
THEOREM ServerStreamComplete == Spec => []StreamComplete
  <1>1. ServerInv => StreamComplete
    <2> SUFFICES ASSUME ServerInv, NEW c \in Conns, NEW k \in Subscribes(c),
                        Attached(c), Subscribes(c) = {k}
                 PROVE  Complete(c, sub[c].unsubscribe.scene, said[c][k].since)
      BY DEF StreamComplete
    <2>1. OnceInv(c) /\ Once(c)
      BY DEF ServerInv, Once
    <2>2. sub[c].unsubscribe # None /\ IsLive(c)
      BY DEF Attached, IsLive
    <2>3. \E s \in Scenes, n \in Nat : ServedBy(c, s, Listener(c, n))
      BY <2>1, <2>2 DEF OnceInv, Untouched
    <2>4. PICK s \in Scenes, n \in Nat : ServedBy(c, s, Listener(c, n))
      BY <2>3
    <2>5. /\ sub[c].unsubscribe.scene = s
          /\ Run(conn[c].down, s, scenes[s].seq, said[c][k].since)
      BY <2>2, <2>4 DEF ServedBy
    <2>6. scenes[s].seq \in Nat /\ conn[c].down \in Seq(Downward)
      BY DEF ServerInv, ServerOK, SceneOK, Link
    <2> QED
      BY <2>5, <2>6, RunIsComplete
  <1> QED
    BY <1>1, ServerInvariant, PTL

\* Only the scene active now has a listener of an open connection, although
\* authentication may end long after the subscribe (server.ts setActiveScene).
THEOREM ServerOpenFollowsActive == Spec => []OpenFollowsActive
  <1>1. ServerInv => OpenFollowsActive
    <2> SUFFICES ASSUME ServerInv, NEW s \in Scenes \ {activeScene},
                        NEW l \in scenes[s].listeners
                 PROVE  conn[l[1]].server # "open"
      BY DEF OpenFollowsActive
    <2>1. l[1] \in Conns /\ l \in Feeds(l[1], s)
      BY DEF ServerInv, ServerOK, SceneOK, Feeds
    <2> QED
      BY <2>1 DEF ServerInv, Settled
  <1> QED
    BY <1>1, ServerInvariant, PTL

\* One connection never carries two scenes (server.ts detachAllSubscribers).
THEOREM ServerOneScene == Spec => []OneScenePerConnection
  <1>1. ServerInv => OneScenePerConnection
    BY DEF ServerInv, Settled, OneScenePerConnection
  <1> QED
    BY <1>1, ServerInvariant, PTL

\* No scene data without an accepted token, and none of a rejected scene
\* (server.ts handleSubscribe, auth.ts).
THEOREM ServerServesWhatIsDue == Spec => []ServedOnlyWhatIsDue
  <1>1. ServerInv => ServedOnlyWhatIsDue
    BY DEF ServerInv, Due, LetIn, ServedOnlyWhatIsDue
  <1> QED
    BY <1>1, ServerInvariant, PTL

-----------------------------------------------------------------------------
(***************************************************************************)
(* Every scene of the server is a Scene.                                   *)
(***************************************************************************)

\* Scenes that keep number and ring, or one that emits.
LEMMA SceneSteps ==
  ASSUME ServerInv, [Next]_vars, NEW s \in Scenes
  PROVE  [SceneOf(s)!Next]_(SceneOf(s)!vars)
  <1>1. ServerOK
    BY DEF ServerInv
  <1>2. ASSUME scenes'[s].seq = scenes[s].seq, scenes'[s].replay = scenes[s].replay
        PROVE  [SceneOf(s)!Next]_(SceneOf(s)!vars)
    BY <1>2 DEF SceneOf!vars
  <1>3. ASSUME scenes' = scenes
        PROVE  [SceneOf(s)!Next]_(SceneOf(s)!vars)
    BY <1>2, <1>3
  <1>4. ASSUME NEW C \in SUBSET Conns, scenes' = Unsubscribed(C)
        PROVE  [SceneOf(s)!Next]_(SceneOf(s)!vars)
    BY <1>1, <1>2, <1>4, UnsubscribedScenes
  <1>5. ASSUME NEW t \in Scenes, NEW w, Emit(t, w)
        PROVE  [SceneOf(s)!Next]_(SceneOf(s)!vars)
    <2> DEFINE n == scenes[t].seq
               ring == Pushed(scenes[t].replay, n + 1)
    <2>1. /\ n < MaxSeq /\ DOMAIN scenes = Scenes
          /\ scenes' = [scenes EXCEPT ![t].seq = @ + 1, ![t].replay = Pushed(@, n + 1)]
      BY <1>1, <1>5 DEF Emit, ServerOK
    <2>2. scenes[t] \in [seq : Nat \ {0}, replay : Rings, listeners : SUBSET (Conns \X Nat)]
      BY <1>1 DEF ServerOK, SceneOK
    <2>3. CASE s # t
      BY <1>2, <2>1, <2>3
    <2>4. CASE s = t
      <3>1. scenes'[t] = [scenes[t] EXCEPT !.seq = n + 1, !.replay = ring]
        BY <2>1
      <3> HIDE DEF ring
      <3>2. scenes'[t].seq = n + 1 /\ scenes'[t].replay = ring
        BY <2>2, <3>1
      <3>3. SceneOf(s)!Emit
        BY <2>1, <2>4, <3>2 DEF SceneOf!Emit, SceneOf!Pushed, Pushed, ring
      <3> QED
        BY <3>3 DEF SceneOf!Next
    <2> QED
      BY <2>3, <2>4
  <1>6. ASSUME NEW c \in Conns, ServerReceives(c)
        PROVE  [SceneOf(s)!Next]_(SceneOf(s)!vars)
    <2>1. CASE OnServerClose(c)
      <3> DEFINE C == {c}
      <3>1. C \in SUBSET Conns /\ scenes' = Unsubscribed(C)
        BY <2>1 DEF OnServerClose
      <3> HIDE DEF C
      <3> QED
        BY <1>4, <3>1
    <2>2. CASE ApplyInput(c)
      <3>1. activeScene \in Scenes /\ Emit(activeScene, [conn EXCEPT ![c] = Taken(c)])
        BY <1>1, <2>2 DEF ServerOK, ApplyInput
      <3> QED
        BY <1>5, <3>1
    <2>3. CASE \/ AcceptConnection(c) \/ RefuseConnection(c) \/ RecvSubscribe(c)
               \/ RejectInput(c) \/ RecvPing(c) \/ RecvUnsubscribe(c) \/ RecvMalformed(c)
      <3>1. scenes' = scenes
        BY <2>3 DEF AcceptConnection, RefuseConnection, RecvSubscribe, RecvSubscribeAs,
                    RejectInput, RecvPing, RecvUnsubscribe, RecvMalformed, serverVars
      <3> QED
        BY <1>3, <3>1
    <2> QED
      BY <1>6, <2>1, <2>2, <2>3 DEF ServerReceives
  <1>7. ASSUME NEW p \in auths, Authenticated(p)
        PROVE  [SceneOf(s)!Next]_(SceneOf(s)!vars)
    <2>1. CASE AuthRefused(p) \/ RefuseScene(p)
      BY <1>3, <2>1 DEF AuthRefused, RefuseScene
    <2>2. CASE ServeScene(p)
      <3> DEFINE l == Listener(p.conn, p.call)
      <3>1. /\ scenes' = [scenes EXCEPT ![activeScene].listeners = @ \cup {l}]
            /\ DOMAIN scenes = Scenes /\ activeScene \in Scenes /\ SceneOK(activeScene)
        BY <1>1, <2>2 DEF ServeScene, Served, ServerOK
      <3> HIDE DEF l
      <3>2. scenes'[s].seq = scenes[s].seq /\ scenes'[s].replay = scenes[s].replay
        BY <3>1 DEF SceneOK
      <3> QED
        BY <1>2, <3>2
    <2> QED
      BY <1>7, <2>1, <2>2 DEF Authenticated
  <1>8. ASSUME NEW code, DetachAll(code)
        PROVE  [SceneOf(s)!Next]_(SceneOf(s)!vars)
    BY <1>1, <1>4, <1>8 DEF DetachAll, ServerOK
  <1>9. CASE UNCHANGED vars
    BY <1>3, <1>9 DEF vars, serverVars
  <1>10. CASE \E c \in Conns : \/ ServerReceives(c) /\ UNCHANGED said
                               \/ ClientConnects(c) \/ ClientOpens(c) \/ ClientLeaves(c)
                               \/ ClientSeesClose(c) \/ CutOff(c)
                               \/ \E f \in ClientFrames : ClientSays(c, f)
    <2> PICK c \in Conns : \/ ServerReceives(c) /\ UNCHANGED said
                           \/ ClientConnects(c) \/ ClientOpens(c) \/ ClientLeaves(c)
                           \/ ClientSeesClose(c) \/ CutOff(c)
                           \/ \E f \in ClientFrames : ClientSays(c, f)
      BY <1>10
    <2>1. ServerReceives(c) \/ scenes' = scenes
      BY DEF ClientConnects, ClientOpens, ClientLeaves, ClientSeesClose, CutOff, ClientSays,
             serverVars
    <2> QED
      BY <1>3, <1>6, <2>1
  <1>11. CASE \E p \in auths : Authenticated(p) /\ UNCHANGED said
    BY <1>7, <1>11
  <1>12. CASE \E t \in Scenes : (SceneUpdate(t) \/ SetActiveScene(t)) /\ UNCHANGED said
    <2> PICK t \in Scenes : SceneUpdate(t) \/ SetActiveScene(t)
      BY <1>12
    <2>1. CASE SceneUpdate(t)
      BY <1>5, <2>1 DEF SceneUpdate
    <2>2. CASE SetActiveScene(t)
      BY <1>8, <2>2 DEF SetActiveScene
    <2> QED
      BY <2>1, <2>2
  <1>13. CASE (Reset \/ Close) /\ UNCHANGED said
    BY <1>8, <1>13 DEF Reset, Close
  <1> QED
    BY <1>9, <1>10, <1>11, <1>12, <1>13 DEF Next

\* Each scene numbers and records its updates as Scene prescribes, with any
\* number of subscribers, inputs, swaps and resets going on (scene.ts).
THEOREM ServerScenesNumberUpdates == Spec => ScenesNumberUpdates
  <1>1. Init => \A s \in Scenes : SceneOf(s)!Init
    <2> SUFFICES ASSUME Init, NEW s \in Scenes PROVE SceneOf(s)!Init
      OBVIOUS
    <2>1. scenes[s].seq = 1 /\ scenes[s].replay = EmptyRing
      BY DEF Init, ServerInit
    <2> QED
      BY <2>1 DEF SceneOf!Init, SceneOf!EmptyRing, SceneOf!Slots, SceneOf!NoRecord,
                  EmptyRing, Slots, NoRecord
  <1>2. ServerInv /\ [Next]_vars =>
           [\A s \in Scenes : [SceneOf(s)!Next]_(SceneOf(s)!vars)]_vars
    BY SceneSteps
  <1> QED
    BY <1>1, <1>2, ServerInvariant, PTL DEF Spec, ScenesNumberUpdates
=============================================================================
