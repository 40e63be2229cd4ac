------------------------------ MODULE DevProofs ------------------------------
(***************************************************************************)
(* An adapter on the development server, for any connections, scenes,      *)
(* updates, resets and troubles: what it shows is a state the server was   *)
(* in, no number is ever missing, and once disposed of it is silent.       *)
(***************************************************************************)
EXTENDS DevSession, CommonProofs

UpFrames == {Subscribe, Input, Malformed} \cup [type : {"close"}, code : Nat]
Accepts == [type : {"accept"}, protocol : Protocols \cup {None}]
Snapshots == [type : {"snapshot"}, seq : {1}, scene : Scenes, state : SUBSET Nat, resets : Nat]
Deltas == [type : {"delta"}, seq : Nat \ {0}, patches : SUBSET Nat]
Changes == [type : {"scene_changed"}, seq : Nat, scene : Scenes]
DownFrames ==
    Accepts \cup Snapshots \cup Deltas \cup Changes
      \cup [type : {"error"}, seq : Nat] \cup [type : {"close"}, code : Nat]
Links == Link(UpFrames, DownFrames)

Adapters ==
    [active : BOOLEAN, opening : BOOLEAN, timer : BOOLEAN, backoff : Nat,
     ws : Conns \cup {None}, last : Nat, state : SUBSET Nat,
     status : {"connecting", "disconnected", "live"}, scene : Scenes \cup {None},
     resets : Nat]
Devs ==
    [scene : Scenes, state : SUBSET Nat, bundles : SUBSET Scenes,
     subs : SUBSET Conns, seq : [Conns -> Nat], serving : BOOLEAN]

DevTypes ==
    /\ adapter \in Adapters /\ conn \in [Conns -> Links] /\ dev \in Devs
    /\ updates \in Nat /\ resets \in Nat /\ published \subseteq SUBSET Nat

(***************************************************************************)
(* What a client that reads a connection from its start has been told at   *)
(* some point of it: the number reached, NoNumber between a scene change   *)
(* and its snapshot, and the state, its scene and the reset it dates from. *)
(* A view is sound if it is a state the server has been in, or dates from  *)
(* before a reset.                                                         *)
(***************************************************************************)
NoNumber == -1
Views == [num : Nat \cup {NoNumber}, state : SUBSET Nat, scene : Scenes, resets : Nat]
Sound ==
    {x \in Views : /\ x.resets <= resets
                   /\ x.resets = resets => x.state \in published /\ x.scene \in dev.bundles}

\* Frame f takes view x to view y.
Moves(x, f, y) ==
    CASE f.type = "snapshot" ->
            y = [num |-> 1, state |-> f.state, scene |-> f.scene, resets |-> f.resets]
      [] f.type = "delta" ->
            f.seq = x.num + 1 /\ y = [x EXCEPT !.num = f.seq, !.state = @ \cup f.patches]
      [] f.type = "scene_changed" -> y = [x EXCEPT !.num = NoNumber]
      [] OTHER -> y = x

\* The frames of q take x to y, through views of V.
Reach(q, x, y, V) ==
    \E S \in [0 .. Len(q) -> V] :
        /\ S[0] = x /\ S[Len(q)] = y
        /\ \A i \in 1 .. Len(q) : Moves(S[i - 1], q[i], S[i])

\* What the server sends on w arrives.
Whole(w) == w.server = "open" /\ ~w.cut /\ w.client \notin {"closing", "closed"}

\* View y is where a server is that has numbered the connection up to n, whose
\* state is st and whose resets are r.
AtServer(y, n, st, r) == y.num = n /\ (y.resets = r => y.state = st)

\* What waits on w takes x, if nothing is lost, to where the server is.
Fed(w, x, n, st, r, V) ==
    \E y \in V : Reach(w.down, x, y, V) /\ (Whole(w) => AtServer(y, n, st, r))

Hears(c) == adapter.active /\ adapter.ws = c /\ conn[c].client = "open"

\* The adapter is where x says: no later number was passed over, and what is
\* shown as live is x.
Agrees(x) ==
    /\ adapter.last = Fresh \/ x.num <= adapter.last
    /\ adapter.status = "live" =>
          /\ adapter.state = x.state /\ adapter.scene = x.scene /\ adapter.resets = x.resets
          /\ x.num \in {adapter.last, NoNumber}

Stream(c) ==
    \E x \in Sound :
        /\ Fed(conn[c], x, dev.seq[c], dev.state, resets, Sound)
        /\ conn[c].client = "connecting" => x.num = 0
        /\ Hears(c) => Agrees(x)

\* At most one of a socket, a call of open() and a timer, while active.
Single ==
    /\ adapter.active =>
          /\ \A c \in Conns :
                conn[c].client \in {"connecting", "open", "closing"} => adapter.ws = c
          /\ adapter.ws = None \/ (~adapter.opening /\ ~adapter.timer)
          /\ adapter.opening => ~adapter.timer
          /\ adapter.status = "live" =>
                adapter.ws # None /\ conn[adapter.ws].client \in {"open", "closing"}
    /\ ~adapter.active => ~adapter.timer

Begun ==
    \A c \in Conns :
        /\ conn[c].client = "none" => conn[c].server = "none"
        /\ conn[c].server = "none" =>
              conn[c].down = <<>> /\ dev.seq[c] = 0 /\ c \notin dev.subs
        /\ conn[c].server = "open" => c \in dev.subs

\* The state of the server is one it has been in, and its bundle is there.
AtHome == dev.state \in published /\ {0} \in published /\ dev.scene \in dev.bundles

Told == [num |-> 0, state |-> adapter.state, scene |-> adapter.scene, resets |-> adapter.resets]

DevInv ==
    /\ DevTypes /\ Begun /\ AtHome /\ Single
    /\ adapter.status = "live" => Told \in Sound
    /\ \A c \in Conns : Stream(c)

-----------------------------------------------------------------------------
(***************************************************************************)
(* Walks                                                                   *)
(***************************************************************************)

LEMMA ReachEmpty ==
  ASSUME NEW V, NEW x
  PROVE  /\ x \in V => Reach(<<>>, x, x, V)
         /\ \A y : Reach(<<>>, x, y, V) => y = x
  <1>1. ASSUME x \in V PROVE Reach(<<>>, x, x, V)
    <2> DEFINE S == [i \in 0 .. 0 |-> x]
    <2>1. S \in [0 .. 0 -> V] /\ S[0] = x
      BY <1>1
    <2>2. Len(<<>>) = 0 /\ 1 .. 0 = {}
      OBVIOUS
    <2> HIDE DEF S
    <2> QED
      BY <2>1, <2>2 DEF Reach
  <1>2. ASSUME NEW y, Reach(<<>>, x, y, V) PROVE y = x
    BY <1>2 DEF Reach
  <1> QED
    BY <1>1, <1>2

LEMMA ReachMore ==
  ASSUME NEW q, NEW x, NEW y, NEW V, NEW W, V \subseteq W, Reach(q, x, y, V)
  PROVE  Reach(q, x, y, W)
  BY DEF Reach

LEMMA ReachJoined ==
  ASSUME NEW D, NEW q \in Seq(D), NEW f \in D, NEW V, NEW x, NEW y, NEW z \in V,
         Reach(q, x, y, V), Moves(y, f, z)
  PROVE  Reach(q \o <<f>>, x, z, V)
  <1> PICK S \in [0 .. Len(q) -> V] :
        /\ S[0] = x /\ S[Len(q)] = y
        /\ \A i \in 1 .. Len(q) : Moves(S[i - 1], q[i], S[i])
    BY DEF Reach
  <1> DEFINE p == q \o <<f>>
             n == Len(q)
             T == [i \in 0 .. n + 1 |-> IF i = n + 1 THEN z ELSE S[i]]
  <1>1. <<f>> \in Seq(D) /\ Len(<<f>>) = 1 /\ <<f>>[1] = f
    OBVIOUS
  <1>2. /\ n \in Nat /\ Len(p) = n + 1 /\ p[n + 1] = f
        /\ \A i \in 1 .. n : p[i] = q[i]
    BY <1>1, JoinedQueue, ConcatProperties, LenProperties
  <1> HIDE DEF p, n
  <1>3. T \in [0 .. n + 1 -> V]
    BY <1>2 DEF n
  <1>4. T[0] = x /\ T[n + 1] = z
    BY <1>2 DEF n
  <1>5. ASSUME NEW i \in 1 .. n + 1 PROVE Moves(T[i - 1], p[i], T[i])
    <2>1. CASE i = n + 1
      <3>1. T[i - 1] = y /\ T[i] = z /\ p[i] = f
        BY <1>2, <2>1 DEF n
      <3> QED
        BY <3>1
    <2>2. CASE i # n + 1
      <3>1. i \in 1 .. n /\ i - 1 \in 0 .. n
        BY <1>2, <2>2
      <3>2. T[i - 1] = S[i - 1] /\ T[i] = S[i] /\ p[i] = q[i]
        BY <1>2, <3>1
      <3> QED
        BY <3>1, <3>2 DEF n
    <2> QED
      BY <2>1, <2>2
  <1> HIDE DEF T
  <1>6. Reach(p, x, z, V)
    BY <1>2, <1>3, <1>4, <1>5 DEF Reach
  <1> QED
    BY <1>6 DEF p

LEMMA ReachTail ==
  ASSUME NEW D, NEW q \in Seq(D), q # <<>>, NEW V, NEW x, NEW y, Reach(q, x, y, V)
  PROVE  \E z \in V : Moves(x, Head(q), z) /\ Reach(Tail(q), z, y, V)
  <1> PICK S \in [0 .. Len(q) -> V] :
        /\ S[0] = x /\ S[Len(q)] = y
        /\ \A i \in 1 .. Len(q) : Moves(S[i - 1], q[i], S[i])
    BY DEF Reach
  <1> DEFINE p == Tail(q)
             n == Len(q)
             T == [i \in 0 .. n - 1 |-> S[i + 1]]
  <1>1. /\ n \in Nat \ {0} /\ Len(p) = n - 1 /\ Head(q) = q[1]
        /\ \A i \in 1 .. n - 1 : p[i] = q[i + 1]
    BY TailQueue
  <1> HIDE DEF p, n
  <1>2. T \in [0 .. n - 1 -> V] /\ T[0] = S[1] /\ T[n - 1] = y
    BY <1>1 DEF n
  <1>3. ASSUME NEW i \in 1 .. n - 1 PROVE Moves(T[i - 1], p[i], T[i])
    <2>1. T[i - 1] = S[i] /\ T[i] = S[i + 1] /\ p[i] = q[i + 1] /\ i + 1 \in 1 .. n
      BY <1>1
    <2>2. Moves(S[(i + 1) - 1], q[i + 1], S[i + 1])
      BY <2>1 DEF n
    <2>3. (i + 1) - 1 = i
      BY <1>1
    <2> QED
      BY <2>1, <2>2, <2>3
  <1>4. S[1] \in V /\ Moves(x, Head(q), S[1])
    BY <1>1 DEF n
  <1> HIDE DEF T
  <1>5. Reach(p, S[1], y, V)
    BY <1>1, <1>2, <1>3 DEF Reach
  <1> QED
    BY <1>4, <1>5 DEF p

-----------------------------------------------------------------------------
(***************************************************************************)
(* What the operations of the server's end do to what a connection is fed  *)
(***************************************************************************)

\* Nothing was sent: the connection is not whole, or the server has not moved.
LEMMA FedStill ==
  ASSUME NEW w, NEW u, NEW x, NEW n, NEW st, NEW r, NEW V, Fed(w, x, n, st, r, V),
         NEW m, NEW su, NEW s, NEW W, V \subseteq W,
         u.down = w.down,
         Whole(u) => Whole(w) /\ \A y \in V : AtServer(y, n, st, r) => AtServer(y, m, su, s)
  PROVE  Fed(u, x, m, su, s, W)
  <1>1. PICK y \in V : Reach(w.down, x, y, V) /\ (Whole(w) => AtServer(y, n, st, r))
    BY DEF Fed
  <1>2. Reach(u.down, x, y, W)
    BY <1>1, ReachMore
  <1> QED
    BY <1>1, <1>2 DEF Fed

\* One frame was sent, which takes whoever was where the server was to where it is.
LEMMA FedSend ==
  ASSUME NEW w \in Links, NEW x, NEW n, NEW st, NEW r, NEW V, Fed(w, x, n, st, r, V),
         NEW m, NEW su, NEW s, NEW W, V \subseteq W, NEW f \in DownFrames,
         \A y \in V : AtServer(y, n, st, r) =>
             \E z \in W : Moves(y, f, z) /\ AtServer(z, m, su, s)
  PROVE  /\ ServerSend(w, <<f>>) \in Links /\ SameButDown(w, ServerSend(w, <<f>>))
         /\ Fed(ServerSend(w, <<f>>), x, m, su, s, W)
  <1> DEFINE ms == <<f>>
             u == ServerSend(w, ms)
  <1>1. ms \in Seq(DownFrames)
    OBVIOUS
  <1> HIDE DEF ms
  <1>2. /\ u \in Links /\ SameButDown(w, u)
        /\ u.down = IF Whole(w) THEN w.down \o ms ELSE w.down
    BY <1>1, ServerSendLink DEF Links, Whole
  <1>3. Whole(u) = Whole(w)
    BY <1>2 DEF Whole, SameButDown
  <1> HIDE DEF u
  <1>4. PICK y \in V : Reach(w.down, x, y, V) /\ (Whole(w) => AtServer(y, n, st, r))
    BY DEF Fed
  <1>5. Reach(w.down, x, y, W)
    BY <1>4, ReachMore
  <1>6. CASE Whole(w)
    <2>1. PICK z \in W : Moves(y, f, z) /\ AtServer(z, m, su, s)
      BY <1>4, <1>6
    <2>2. w.down \in Seq(DownFrames)
      BY DEF Links, Link
    <2>3. Reach(w.down \o <<f>>, x, z, W)
      BY <1>5, <2>1, <2>2, ReachJoined
    <2>4. Reach(u.down, x, z, W)
      BY <1>2, <1>6, <2>3 DEF ms
    <2> QED
      BY <1>2, <2>1, <2>4 DEF Fed, u, ms
  <1>7. CASE ~Whole(w)
    <2>1. Fed(u, x, m, su, s, W)
      BY <1>2, <1>3, <1>5, <1>7 DEF Fed
    <2> QED
      BY <1>2, <2>1 DEF u, ms
  <1> QED
    BY <1>6, <1>7

\* The server closes its end, or has closed it: after its close frame nothing is sent.
LEMMA FedEnd ==
  ASSUME NEW w \in Links, NEW u \in Links, NEW x, NEW n, NEW st, NEW r, NEW V,
         Fed(w, x, n, st, r, V), NEW m, NEW su, NEW s, NEW W, V \subseteq W,
         NEW code \in Nat, u.down \in {w.down, w.down \o <<CloseFrame(code)>>}, ~Whole(u)
  PROVE  Fed(u, x, m, su, s, W)
  <1>1. PICK y \in V : Reach(w.down, x, y, V)
    BY DEF Fed
  <1>2. Reach(w.down, x, y, W)
    BY <1>1, ReachMore
  <1>3. w.down \in Seq(DownFrames) /\ CloseFrame(code) \in DownFrames
    BY DEF Links, Link, DownFrames, CloseFrame
  <1>4. Moves(y, CloseFrame(code), y)
    BY DEF Moves, CloseFrame
  <1>5. Reach(w.down \o <<CloseFrame(code)>>, x, y, W)
    BY <1>2, <1>3, <1>4, ReachJoined
  <1> QED
    BY <1>2, <1>5 DEF Fed

LEMMA FedClose ==
  ASSUME NEW w \in Links, NEW x, NEW n, NEW st, NEW r, NEW V,
         Fed(w, x, n, st, r, V), NEW m, NEW su, NEW s, NEW W, V \subseteq W,
         NEW code \in Nat
  PROVE  LET u == ServerClose(w, code) IN
         /\ u \in Links /\ Fed(u, x, m, su, s, W)
         /\ u.client = w.client /\ u.up = w.up /\ u.server # "open"
         /\ u.server = "none" <=> w.server = "none"
         /\ w.server = "none" => u.down = w.down
  <1> DEFINE u == ServerClose(w, code)
  <1>1. CloseFrame(code) \in DownFrames
    BY DEF DownFrames, CloseFrame
  <1>2. /\ u \in Links /\ u.client = w.client /\ u.up = w.up
        /\ u.server = IF w.server = "open" THEN "closing" ELSE w.server
        /\ u.down = IF w.server = "open" /\ ~w.cut
                    THEN w.down \o <<CloseFrame(code)>> ELSE w.down
    BY <1>1, ServerCloseLink DEF Links
  <1> HIDE DEF u
  <1>3. ~Whole(u)
    BY <1>2 DEF Whole
  <1>4. Fed(u, x, m, su, s, W)
    BY <1>2, <1>3, FedEnd
  <1>5. /\ u \in Links /\ Fed(u, x, m, su, s, W)
        /\ u.client = w.client /\ u.up = w.up /\ u.server # "open"
        /\ u.server = "none" <=> w.server = "none"
        /\ w.server = "none" => u.down = w.down
    BY <1>2, <1>4
  <1> QED
    BY <1>5 DEF u

-----------------------------------------------------------------------------
(***************************************************************************)
(* Steps of the server                                                     *)
(***************************************************************************)

\* A step that is not the adapter's changes no end of its own.
SameClients == \A c \in Conns : conn'[c].client = conn[c].client

\* It is enough that the server's step leaves the clients alone, that what was
\* sound is sound, and that what waits on every connection still fits.
LEMMA ServerRest ==
  ASSUME DevInv, UNCHANGED adapter, DevTypes', Begun', AtHome', Sound \subseteq Sound',
         \A c \in Conns : conn'[c].client = conn[c].client,
         \A c \in Conns : Stream(c)'
  PROVE  DevInv' /\ SameClients
  <1>1. Single'
    <2>1. DevTypes /\ Single
      BY DEF DevInv
    <2>2. adapter.ws # None => adapter.ws \in Conns
      BY <2>1 DEF DevTypes, Adapters
    <2> QED
      BY <2>1, <2>2 DEF Single
  <1>2. (adapter.status = "live" => Told \in Sound)'
    BY DEF DevInv, Told
  <1> QED
    BY <1>1, <1>2 DEF DevInv, SameClients

LEMMA StreamKept ==
  ASSUME NEW c \in Conns, Stream(c), UNCHANGED adapter, Sound \subseteq Sound',
         conn'[c].client = conn[c].client,
         \A x \in Sound :
            Fed(conn[c], x, dev.seq[c], dev.state, resets, Sound)
              => Fed(conn'[c], x, dev'.seq[c], dev'.state, resets', Sound')
  PROVE  Stream(c)'
  <1>1. PICK x \in Sound :
          /\ Fed(conn[c], x, dev.seq[c], dev.state, resets, Sound)
          /\ conn[c].client = "connecting" => x.num = 0
          /\ Hears(c) => Agrees(x)
    BY DEF Stream
  <1>2. x \in Sound' /\ Fed(conn'[c], x, dev'.seq[c], dev'.state, resets', Sound')
    BY <1>1
  <1>3. Hears(c)' <=> Hears(c)
    BY DEF Hears
  <1>4. Agrees(x)' <=> Agrees(x)
    BY DEF Agrees
  <1> QED
    BY <1>1, <1>2, <1>3, <1>4 DEF Stream

LEMMA ServerKeeps ==
  ASSUME DevInv, UNCHANGED adapter, DevTypes', Begun', AtHome', Sound \subseteq Sound',
         \A c \in Conns : conn'[c].client = conn[c].client,
         \A c \in Conns : \A x \in Sound :
            Fed(conn[c], x, dev.seq[c], dev.state, resets, Sound)
              => Fed(conn'[c], x, dev'.seq[c], dev'.state, resets', Sound')
  PROVE  DevInv' /\ SameClients
  <1>1. \A c \in Conns : Stream(c)
    BY DEF DevInv
  <1>2. \A c \in Conns : Stream(c)'
    BY <1>1, StreamKept
  <1> QED
    BY <1>2, ServerRest

\* `links` is conn with a frame taken off some queues that lead up.
SameButUps(links) ==
    links \in [Conns -> Links] /\ \A c \in Conns : SameButUp(conn[c], links[c])

LEMMA FedTaken ==
  ASSUME NEW links, SameButUps(links), NEW c \in Conns, NEW x, NEW n, NEW st, NEW r, NEW V,
         Fed(conn[c], x, n, st, r, V)
  PROVE  Fed(links[c], x, n, st, r, V)
  <1>1. links[c].down = conn[c].down /\ Whole(links[c]) = Whole(conn[c])
    BY DEF SameButUps, SameButUp, Whole
  <1> QED
    BY <1>1 DEF Fed

LEMMA TakenLinks ==
  ASSUME DevTypes, NEW c \in Conns, conn[c].up # <<>>
  PROVE  /\ SameButUps([conn EXCEPT ![c].up = Tail(@)])
         /\ Head(conn[c].up) \in UpFrames
  <1> DEFINE w == conn[c]
             u == [w EXCEPT !.up = Tail(@)]
             links == [conn EXCEPT ![c].up = Tail(@)]
  <1>1. w \in Links
    BY DEF DevTypes
  <1>2. w.up \in Seq(UpFrames)
    BY <1>1 DEF Links, Link
  <1>3. Tail(w.up) \in Seq(UpFrames) /\ Head(w.up) \in UpFrames
    BY <1>2, TailQueue
  <1>4. u \in Links /\ SameButUp(w, u)
    BY <1>1, <1>3 DEF Links, Link, SameButUp
  <1>5. links = [conn EXCEPT ![c] = u]
    OBVIOUS
  <1>6. ASSUME NEW d \in Conns PROVE links[d] \in Links /\ SameButUp(conn[d], links[d])
    <2>1. CASE d = c
      BY <1>4, <1>5, <2>1 DEF DevTypes
    <2>2. CASE d # c
      BY <1>5, <2>2 DEF DevTypes, SameButUp
    <2> QED
      BY <2>1, <2>2
  <1>7. links \in [Conns -> Links]
    BY <1>4, <1>5 DEF DevTypes
  <1> QED
    BY <1>3, <1>6, <1>7 DEF SameButUps

\* A broadcast reaches every connection that is subscribed, and those that are whole are.
LEMMA BroadcastKeeps ==
  ASSUME DevInv, NEW links, SameButUps(links), NEW patches \in SUBSET Nat,
         Broadcast(links, patches), UNCHANGED adapter
  PROVE  DevInv' /\ SameClients
  <1> DEFINE sent(c) == ServerSend(links[c], <<Delta(dev.seq[c] + 1, patches)>>)
  <1>1. /\ conn' = [c \in Conns |-> IF c \in dev.subs THEN sent(c) ELSE links[c]]
        /\ dev' = [dev EXCEPT !.state = @ \cup patches,
                          !.seq = [c \in Conns |-> IF c \in dev.subs THEN @[c] + 1 ELSE @[c]]]
        /\ published' = published \cup {dev.state \cup patches}
        /\ updates' = NextUpdate /\ resets' = resets
    BY DEF Broadcast
  <1>2. /\ DevTypes /\ dev \in Devs /\ dev.state \cup patches \in SUBSET Nat
        /\ Begun /\ AtHome
    BY DEF DevInv, DevTypes, Devs
  <1>3. /\ dev' \in Devs /\ dev'.scene = dev.scene /\ dev'.bundles = dev.bundles
        /\ dev'.subs = dev.subs /\ dev'.state = dev.state \cup patches
        /\ \A c \in Conns : dev'.seq[c] = IF c \in dev.subs THEN dev.seq[c] + 1 ELSE dev.seq[c]
    <2> DEFINE seq == [c \in Conns |-> IF c \in dev.subs THEN dev.seq[c] + 1 ELSE dev.seq[c]]
               state == dev.state \cup patches
    <2>1. dev' = [dev EXCEPT !.state = state, !.seq = seq]
      BY <1>1
    <2>2. seq \in [Conns -> Nat]
      BY <1>2 DEF Devs
    <2>3. \A c \in Conns : seq[c] = IF c \in dev.subs THEN dev.seq[c] + 1 ELSE dev.seq[c]
      OBVIOUS
    <2>4. state \in SUBSET Nat
      BY <1>2
    <2> HIDE DEF seq, state
    <2>5. /\ dev' \in Devs /\ dev'.scene = dev.scene /\ dev'.bundles = dev.bundles
          /\ dev'.subs = dev.subs /\ dev'.state = state /\ dev'.seq = seq
      BY <1>2, <2>1, <2>2, <2>4 DEF Devs
    <2> QED
      BY <2>3, <2>5 DEF state
  <1>4. Sound \subseteq Sound'
    BY <1>1, <1>3 DEF Sound
  <1>5. ASSUME NEW c \in Conns, NEW x \in Sound,
               Fed(conn[c], x, dev.seq[c], dev.state, resets, Sound)
        PROVE  Fed(conn'[c], x, dev'.seq[c], dev'.state, resets', Sound')
    <2>1. Fed(links[c], x, dev.seq[c], dev.state, resets, Sound)
      BY <1>5, FedTaken
    <2>2. CASE c \in dev.subs
      <3> DEFINE f == Delta(dev.seq[c] + 1, patches)
      <3>1. f \in DownFrames
        BY <1>2 DEF Delta, DownFrames, Deltas, Devs
      <3>2. ASSUME NEW y \in Sound, AtServer(y, dev.seq[c], dev.state, resets)
            PROVE  \E z \in Sound' : Moves(y, f, z)
                                     /\ AtServer(z, dev'.seq[c], dev'.state, resets')
        <4> DEFINE z == [y EXCEPT !.num = @ + 1, !.state = @ \cup patches]
        <4>1. y \in Views /\ y.num = dev.seq[c] /\ dev.seq[c] \in Nat
          BY <3>2, <1>2 DEF Sound, AtServer, Devs
        <4>2. /\ z \in Views /\ z.num = dev.seq[c] + 1 /\ z.state = y.state \cup patches
              /\ z.scene = y.scene /\ z.resets = y.resets
          <5>1. y.num + 1 \in Nat
            BY <4>1
          <5>2. y.state \cup patches \in SUBSET Nat
            BY <4>1 DEF Views
          <5> QED
            BY <4>1, <5>1, <5>2 DEF Views
        <4>3. Moves(y, f, z)
          BY <4>1, <4>2 DEF Moves, Delta, Views
        <4> HIDE DEF z
        <4>4. AtServer(z, dev'.seq[c], dev'.state, resets')
          BY <1>1, <1>3, <2>2, <3>2, <4>2 DEF AtServer
        <4>5. z \in Sound'
          BY <1>1, <1>3, <3>2, <4>2 DEF Sound, AtServer
        <4> QED
          BY <4>3, <4>4, <4>5
      <3> HIDE DEF f
      <3>3. links[c] \in Links
        BY DEF SameButUps
      <3>4. Fed(ServerSend(links[c], <<f>>), x, dev'.seq[c], dev'.state, resets', Sound')
        BY <1>4, <2>1, <3>1, <3>2, <3>3, FedSend
      <3> QED
        BY <1>1, <2>2, <3>4 DEF f
    <2>3. CASE c \notin dev.subs
      <3>1. conn'[c] = links[c] /\ ~Whole(links[c])
        BY <1>1, <1>2, <2>3 DEF Begun, Whole, SameButUps, SameButUp
      <3> QED
        BY <1>4, <2>1, <3>1, FedStill
    <2> QED
      BY <2>2, <2>3
  <1>6. ASSUME NEW c \in Conns
        PROVE  /\ conn'[c] \in Links
               /\ conn'[c].client = conn[c].client /\ conn'[c].server = conn[c].server
               /\ conn[c].server = "none" => conn'[c].down = conn[c].down
    <2>1. links[c] \in Links /\ SameButUp(conn[c], links[c])
      BY DEF SameButUps
    <2>2. CASE c \in dev.subs
      <3> DEFINE f == Delta(dev.seq[c] + 1, patches)
      <3>1. <<f>> \in Seq(DownFrames)
        <4>1. f \in DownFrames
          BY <1>2 DEF Delta, DownFrames, Deltas, Devs
        <4> QED
          BY <4>1
      <3> DEFINE ms == <<f>>
      <3>2. conn'[c] = ServerSend(links[c], ms) /\ ms \in Seq(DownFrames)
        BY <1>1, <2>2, <3>1
      <3> HIDE DEF f, ms
      <3>3. /\ ServerSend(links[c], ms) \in Links
            /\ SameButDown(links[c], ServerSend(links[c], ms))
            /\ links[c].server = "none" => ServerSend(links[c], ms).down = links[c].down
        BY <2>1, <3>2, ServerSendLink DEF Links
      <3> QED
        BY <2>1, <3>2, <3>3 DEF SameButUp, SameButDown
    <2>3. CASE c \notin dev.subs
      BY <1>1, <2>1, <2>3 DEF SameButUp
    <2> QED
      BY <2>2, <2>3
  <1>7. DevTypes'
    <2>1. conn' \in [Conns -> Links]
      BY <1>1, <1>6
    <2>2. updates' \in Nat /\ resets' \in Nat /\ published' \subseteq SUBSET Nat
      BY <1>1, <1>2 DEF DevTypes, NextUpdate
    <2> QED
      BY <1>2, <1>3, <2>1, <2>2 DEF DevTypes
  <1>8. Begun'
    BY <1>2, <1>3, <1>6 DEF Begun
  <1>9. AtHome'
    BY <1>1, <1>2, <1>3 DEF AtHome
  <1> QED
    BY <1>4, <1>5, <1>6, <1>7, <1>8, <1>9, ServerKeeps

\* What a handler answers on connection c, where nothing else changes.
LEMMA AnswerKeeps ==
  ASSUME DevInv, NEW links, SameButUps(links), NEW c \in Conns, conn[c].server # "none",
         AnswerSubscribe(c, links), UNCHANGED adapter
  PROVE  DevInv' /\ SameClients
  <1> DEFINE f == Snapshot(dev.scene, dev.state, resets)
             u == ServerSend(links[c], <<f>>)
  <1>1. /\ conn' = [links EXCEPT ![c] = u]
        /\ dev' = [dev EXCEPT !.seq[c] = 1]
        /\ UNCHANGED <<updates, resets, published>>
    BY DEF AnswerSubscribe
  <1>2. /\ DevTypes /\ dev \in Devs /\ Begun /\ AtHome
    BY DEF DevInv, DevTypes
  <1>3. /\ dev' \in Devs /\ dev'.scene = dev.scene /\ dev'.bundles = dev.bundles
        /\ dev'.subs = dev.subs /\ dev'.state = dev.state
        /\ \A d \in Conns : dev'.seq[d] = IF d = c THEN 1 ELSE dev.seq[d]
    BY <1>1, <1>2 DEF Devs
  <1>4. Sound' = Sound
    BY <1>1, <1>3 DEF Sound
  <1>5. f \in DownFrames
    BY <1>2 DEF Snapshot, DownFrames, Snapshots, Devs, DevTypes
  <1>6. ASSUME NEW x \in Sound, Fed(conn[c], x, dev.seq[c], dev.state, resets, Sound)
        PROVE  Fed(u, x, 1, dev.state, resets, Sound)
    <2> DEFINE z == [num |-> 1, state |-> dev.state, scene |-> dev.scene, resets |-> resets]
    <2>1. Fed(links[c], x, dev.seq[c], dev.state, resets, Sound) /\ links[c] \in Links
      BY <1>6, FedTaken DEF SameButUps
    <2>2. \A y : Moves(y, f, z)
      BY DEF Moves, Snapshot
    <2>3. z \in Sound
      BY <1>2 DEF Sound, Views, AtHome, DevTypes, Devs
    <2>4. AtServer(z, 1, dev.state, resets)
      BY DEF AtServer
    <2> HIDE DEF z, f
    <2> QED
      BY <1>5, <2>1, <2>2, <2>3, <2>4, FedSend
  <1>7. u \in Links /\ SameButDown(links[c], u) /\ (links[c].server = "none" => u.down = links[c].down)
    <2> DEFINE ms == <<f>>
    <2> HIDE DEF f
    <2>1. ms \in Seq(DownFrames) /\ links[c] \in Links
      BY <1>5 DEF SameButUps
    <2>2. u = ServerSend(links[c], ms)
      OBVIOUS
    <2> HIDE DEF ms, u
    <2> QED
      BY <2>1, <2>2, ServerSendLink DEF Links
  <1> HIDE DEF u, f
  <1>8. ASSUME NEW d \in Conns
        PROVE  /\ conn'[d] \in Links
               /\ conn'[d].client = conn[d].client /\ conn'[d].server = conn[d].server
               /\ conn[d].server = "none" => conn'[d].down = conn[d].down
               /\ conn'[d] = IF d = c THEN u ELSE links[d]
    <2>1. links[d] \in Links /\ SameButUp(conn[d], links[d])
      BY DEF SameButUps
    <2>2. conn'[d] = IF d = c THEN u ELSE links[d]
      BY <1>1 DEF SameButUps
    <2> QED
      BY <1>7, <2>1, <2>2 DEF SameButUp, SameButDown
  <1>9. ASSUME NEW d \in Conns, NEW x \in Sound,
               Fed(conn[d], x, dev.seq[d], dev.state, resets, Sound)
        PROVE  Fed(conn'[d], x, dev'.seq[d], dev'.state, resets', Sound')
    <2>1. CASE d = c
      BY <1>1, <1>3, <1>4, <1>6, <1>8, <1>9, <2>1
    <2>2. CASE d # c
      <3>1. Fed(links[d], x, dev.seq[d], dev.state, resets, Sound)
        BY <1>9, FedTaken
      <3> QED
        BY <1>1, <1>3, <1>4, <1>8, <2>2, <3>1
    <2> QED
      BY <2>1, <2>2
  <1>10. DevTypes'
    <2>1. conn' \in [Conns -> Links]
      BY <1>1, <1>7 DEF SameButUps
    <2> QED
      BY <1>1, <1>2, <1>3, <2>1 DEF DevTypes
  <1>11. Begun' /\ AtHome'
    BY <1>1, <1>2, <1>3, <1>8 DEF Begun, AtHome
  <1> QED
    BY <1>4, <1>8, <1>9, <1>10, <1>11, ServerKeeps

LEMMA RefuseKeeps ==
  ASSUME DevInv, NEW links, SameButUps(links), NEW c \in Conns, conn[c].server # "none",
         RefuseFrame(c, links), UNCHANGED adapter
  PROVE  DevInv' /\ SameClients
  <1> DEFINE f == ErrorFrame(dev.seq[c] + 1)
             w == ServerSend(links[c], <<f>>)
             u == ServerClose(w, 1002)
  <1>1. /\ conn' = [links EXCEPT ![c] = u]
        /\ dev' = [dev EXCEPT !.seq[c] = @ + 1]
        /\ UNCHANGED <<updates, resets, published>>
    BY DEF RefuseFrame
  <1>2. /\ DevTypes /\ dev \in Devs /\ Begun /\ AtHome /\ dev.seq[c] + 1 \in Nat
    BY DEF DevInv, DevTypes, Devs
  <1>3. /\ dev' \in Devs /\ dev'.scene = dev.scene /\ dev'.bundles = dev.bundles
        /\ dev'.subs = dev.subs /\ dev'.state = dev.state
        /\ \A d \in Conns : d # c => dev'.seq[d] = dev.seq[d]
    BY <1>1, <1>2 DEF Devs
  <1>4. Sound' = Sound
    BY <1>1, <1>3 DEF Sound
  <1>5. f \in DownFrames /\ \A y : Moves(y, f, y)
    BY <1>2 DEF ErrorFrame, DownFrames, Moves
  <1>6. /\ w \in Links /\ SameButDown(links[c], w)
        /\ links[c].server = "none" => w.down = links[c].down
    <2> DEFINE ms == <<f>>
    <2> HIDE DEF f
    <2>1. ms \in Seq(DownFrames) /\ links[c] \in Links /\ w = ServerSend(links[c], ms)
      BY <1>5 DEF SameButUps
    <2> HIDE DEF ms, w
    <2> QED
      BY <2>1, ServerSendLink DEF Links
  <1>7. \A x \in Sound : Fed(conn[c], x, dev.seq[c], dev.state, resets, Sound)
                            => Fed(w, x, dev.seq[c], dev.state, resets, Sound)
    <2> SUFFICES ASSUME NEW x \in Sound, Fed(conn[c], x, dev.seq[c], dev.state, resets, Sound)
                 PROVE  Fed(w, x, dev.seq[c], dev.state, resets, Sound)
      OBVIOUS
    <2>1. Fed(links[c], x, dev.seq[c], dev.state, resets, Sound) /\ links[c] \in Links
      BY FedTaken DEF SameButUps
    <2> HIDE DEF f
    <2> QED
      BY <1>5, <2>1, FedSend
  <1> HIDE DEF w
  <1>8. /\ u \in Links /\ u.client = w.client /\ u.server # "open"
        /\ u.server = "none" <=> w.server = "none"
        /\ w.server = "none" => u.down = w.down
    <2>1. CloseFrame(1002) \in DownFrames
      BY DEF CloseFrame, DownFrames
    <2>2. /\ u \in Links /\ u.client = w.client
          /\ u.server = IF w.server = "open" THEN "closing" ELSE w.server
          /\ u.down = IF w.server = "open" /\ ~w.cut
                      THEN w.down \o <<CloseFrame(1002)>> ELSE w.down
      BY <1>6, <2>1, ServerCloseLink DEF Links
    <2> HIDE DEF u
    <2> QED
      BY <2>2
  <1>9. \A x \in Sound : Fed(conn[c], x, dev.seq[c], dev.state, resets, Sound)
                            => Fed(u, x, dev'.seq[c], dev.state, resets, Sound)
    BY <1>6, <1>7, FedClose
  <1> HIDE DEF u, f
  <1>10. ASSUME NEW d \in Conns
        PROVE  /\ conn'[d] \in Links /\ conn'[d].client = conn[d].client
               /\ conn'[d].server = "none" <=> conn[d].server = "none"
               /\ conn'[d].server = "open" => conn[d].server = "open"
               /\ conn[d].server = "none" => conn'[d].down = conn[d].down
               /\ conn'[d] = IF d = c THEN u ELSE links[d]
    <2>1. links[d] \in Links /\ SameButUp(conn[d], links[d])
      BY DEF SameButUps
    <2>2. conn'[d] = IF d = c THEN u ELSE links[d]
      BY <1>1 DEF SameButUps
    <2> QED
      BY <1>6, <1>8, <2>1, <2>2 DEF SameButUp, SameButDown
  <1>11. ASSUME NEW d \in Conns, NEW x \in Sound,
               Fed(conn[d], x, dev.seq[d], dev.state, resets, Sound)
        PROVE  Fed(conn'[d], x, dev'.seq[d], dev'.state, resets', Sound')
    <2>1. CASE d = c
      BY <1>1, <1>3, <1>4, <1>9, <1>10, <1>11, <2>1
    <2>2. CASE d # c
      <3>1. Fed(links[d], x, dev.seq[d], dev.state, resets, Sound)
        BY <1>11, FedTaken
      <3> QED
        BY <1>1, <1>3, <1>4, <1>10, <2>2, <3>1
    <2> QED
      BY <2>1, <2>2
  <1>12. DevTypes'
    <2>1. conn' \in [Conns -> Links]
      BY <1>1, <1>8 DEF SameButUps
    <2> QED
      BY <1>1, <1>2, <1>3, <2>1 DEF DevTypes
  <1>13. Begun' /\ AtHome'
    BY <1>1, <1>2, <1>3, <1>10 DEF Begun, AtHome
  <1> QED
    BY <1>4, <1>10, <1>11, <1>12, <1>13, ServerKeeps

\* Frames sent together are frames sent one after the other.
LEMMA SendTwo ==
  ASSUME NEW w \in Links, NEW f \in DownFrames, NEW g \in DownFrames
  PROVE  ServerSend(w, <<f, g>>) = ServerSend(ServerSend(w, <<f>>), <<g>>)
  <1>1. CASE Whole(w)
    <2> DEFINE v == [w EXCEPT !.down = @ \o <<f>>]
    <2>1. ServerSend(w, <<f>>) = v
      BY <1>1 DEF Whole, ServerSend, Down
    <2>2. /\ v.server = w.server /\ v.client = w.client /\ v.cut = w.cut
          /\ v.down = w.down \o <<f>>
      BY DEF Links, Link
    <2>3. ServerSend(v, <<g>>) = [v EXCEPT !.down = @ \o <<g>>]
      BY <1>1, <2>2 DEF Whole, ServerSend, Down
    <2>4. ServerSend(w, <<f, g>>) = [w EXCEPT !.down = @ \o <<f, g>>]
      BY <1>1 DEF Whole, ServerSend, Down
    <2>5. (w.down \o <<f>>) \o <<g>> = w.down \o <<f, g>>
      <3>1. w.down \in Seq(DownFrames)
        BY DEF Links, Link
      <3> DEFINE p == <<f>>
                 q == <<g>>
                 r == <<f, g>>
      <3>2. p \in Seq(DownFrames) /\ Len(p) = 1 /\ p[1] = f
        OBVIOUS
      <3>3. q \in Seq(DownFrames) /\ Len(q) = 1 /\ q[1] = g
        OBVIOUS
      <3>4. r \in Seq(DownFrames) /\ Len(r) = 2 /\ r[1] = f /\ r[2] = g
        OBVIOUS
      <3> HIDE DEF p, q, r
      <3>5. p \o q \in Seq(DownFrames) /\ Len(p \o q) = 2 /\ (p \o q)[1] = f /\ (p \o q)[2] = g
        <4> DEFINE pq == p \o q
        <4>1. /\ pq \in Seq(DownFrames) /\ Len(pq) = 1 + 1
              /\ \A i \in 1 .. 1 + 1 : pq[i] = IF i <= 1 THEN p[i] ELSE q[i - 1]
          BY <3>2, <3>3, ConcatProperties
        <4> HIDE DEF pq
        <4>2. Len(pq) = 2 /\ pq[1] = f /\ pq[2] = g
          BY <3>2, <3>3, <4>1
        <4> QED
          BY <4>1, <4>2 DEF pq
      <3>6. p \o q = r
        BY <3>4, <3>5, SeqEqual
      <3>7. (w.down \o p) \o q = w.down \o r
        <4> DEFINE d == w.down
        <4>1. d \in Seq(DownFrames)
          BY <3>1
        <4> HIDE DEF d
        <4>2. (d \o p) \o q = d \o (p \o q)
          BY <3>2, <3>3, <4>1, ConcatAssociative
        <4> QED
          BY <3>6, <4>2 DEF d
      <3> QED
        BY <3>7 DEF p, q, r
    <2>6. [v EXCEPT !.down = @ \o <<g>>] = [w EXCEPT !.down = @ \o <<f, g>>]
      BY <2>2, <2>5 DEF Links, Link
    <2> QED
      BY <2>1, <2>3, <2>4, <2>6
  <1>2. CASE ~Whole(w)
    <2>1. \A ms : ServerSend(w, ms) = w
      BY <1>2 DEF Whole, ServerSend, Down
    <2> QED
      BY <2>1
  <1> QED
    BY <1>1, <1>2

\* A scene change loses the number, and the snapshot after it brings the new scene.
LEMMA SwitchKeeps ==
  ASSUME DevInv, NEW scene \in Scenes, SwitchScene(scene), UNCHANGED adapter
  PROVE  DevInv' /\ SameClients
  <1> DEFINE state == {updates + 1}
             f(c) == SceneChanged(dev.seq[c] + 1, scene)
             g == Snapshot(scene, state, resets)
             sent(c) == ServerSend(ServerSend(conn[c], <<f(c)>>), <<g>>)
             y1 == [num |-> 1, state |-> state, scene |-> scene, resets |-> resets]
  <1>1. /\ conn' = [c \in Conns |-> IF c \in dev.subs
                      THEN ServerSend(conn[c], <<f(c), g>>) ELSE conn[c]]
        /\ dev' = [dev EXCEPT !.scene = scene, !.state = state, !.bundles = @ \cup {scene},
                          !.seq = [c \in Conns |-> IF c \in dev.subs THEN 1 ELSE @[c]]]
        /\ published' = published \cup {state}
        /\ updates' = updates + 1 /\ resets' = resets
    BY DEF SwitchScene
  <1>2. DevTypes /\ dev \in Devs /\ Begun /\ AtHome /\ conn \in [Conns -> Links]
        /\ updates \in Nat /\ resets \in Nat
    BY DEF DevInv, DevTypes
  <1>3. /\ dev' \in Devs /\ dev'.scene = scene /\ dev'.bundles = dev.bundles \cup {scene}
        /\ dev'.subs = dev.subs /\ dev'.state = state /\ state \in SUBSET Nat
        /\ \A c \in Conns : dev'.seq[c] = IF c \in dev.subs THEN 1 ELSE dev.seq[c]
    <2> DEFINE seq == [c \in Conns |-> IF c \in dev.subs THEN 1 ELSE dev.seq[c]]
               bundles == dev.bundles \cup {scene}
    <2>1. dev' = [dev EXCEPT !.scene = scene, !.state = state, !.bundles = bundles, !.seq = seq]
      BY <1>1
    <2>2. seq \in [Conns -> Nat] /\ bundles \in SUBSET Scenes
      BY <1>2 DEF Devs
    <2>3. \A c \in Conns : seq[c] = IF c \in dev.subs THEN 1 ELSE dev.seq[c]
      OBVIOUS
    <2>4. state \in SUBSET Nat
      BY <1>2
    <2> HIDE DEF seq, state, bundles
    <2>5. /\ dev' \in Devs /\ dev'.scene = scene /\ dev'.bundles = bundles
          /\ dev'.subs = dev.subs /\ dev'.state = state /\ dev'.seq = seq
      BY <1>2, <2>1, <2>2, <2>4 DEF Devs
    <2> QED
      BY <2>3, <2>4, <2>5 DEF bundles
  <1> HIDE DEF state
  <1>4. Sound \subseteq Sound'
    BY <1>1, <1>3 DEF Sound
  <1>5. ASSUME NEW c \in Conns
        PROVE  f(c) \in DownFrames /\ g \in DownFrames
    BY <1>2, <1>3 DEF Snapshot, SceneChanged, DownFrames, Snapshots, Changes, Devs
  <1>6. y1 \in Sound' /\ \A y : Moves(y, g, y1)
    BY <1>1, <1>2, <1>3 DEF Sound, Views, Moves, Snapshot
  <1>7. y1.num = 1 /\ y1.state = state
    OBVIOUS
  <1> HIDE DEF f, g, y1
  <1>8. ASSUME NEW c \in dev.subs PROVE conn'[c] = sent(c) /\ c \in Conns
    BY <1>1, <1>2, <1>5, SendTwo DEF Devs
  <1>9. ASSUME NEW c \in Conns, NEW x \in Sound, c \in dev.subs,
               Fed(conn[c], x, dev.seq[c], dev.state, resets, Sound)
        PROVE  Fed(conn'[c], x, dev'.seq[c], dev'.state, resets', Sound')
    <2> DEFINE w == ServerSend(conn[c], <<f(c)>>)
               lost == {[y EXCEPT !.num = NoNumber] : y \in Sound}
    <2>1. \A y \in Sound : [y EXCEPT !.num = NoNumber] \in Sound
      BY DEF Sound, Views
    <2>2. \A y : Moves(y, f(c), [y EXCEPT !.num = NoNumber])
      BY DEF Moves, SceneChanged, f
    <2>3. \A y \in Sound : [y EXCEPT !.num = NoNumber].num = NoNumber
                            /\ [y EXCEPT !.num = NoNumber].state = y.state
                            /\ [y EXCEPT !.num = NoNumber].resets = y.resets
      BY DEF Sound, Views
    <2>4. \A y \in Sound : AtServer(y, dev.seq[c], dev.state, resets) =>
             \E z \in Sound : Moves(y, f(c), z) /\ AtServer(z, NoNumber, dev.state, resets)
      BY <2>1, <2>2, <2>3 DEF AtServer
    <2>5. w \in Links /\ Fed(w, x, NoNumber, dev.state, resets, Sound)
      BY <1>2, <1>5, <1>9, <2>4, FedSend
    <2> HIDE DEF w
    <2>6. AtServer(y1, dev'.seq[c], dev'.state, resets')
      BY <1>3, <1>7, <1>9 DEF AtServer
    <2>7. Fed(ServerSend(w, <<g>>), x, dev'.seq[c], dev'.state, resets', Sound')
      BY <1>4, <1>5, <1>6, <2>5, <2>6, FedSend
    <2> QED
      BY <1>8, <1>9, <2>7 DEF w
  <1>10. ASSUME NEW c \in Conns, NEW x \in Sound,
               Fed(conn[c], x, dev.seq[c], dev.state, resets, Sound)
        PROVE  Fed(conn'[c], x, dev'.seq[c], dev'.state, resets', Sound')
    <2>1. CASE c \notin dev.subs
      <3>1. conn'[c] = conn[c] /\ ~Whole(conn[c])
        BY <1>1, <1>2, <2>1 DEF Begun, Whole
      <3> QED
        BY <1>4, <1>10, <3>1, FedStill
    <2> QED
      BY <1>9, <1>10, <2>1
  <1>11. ASSUME NEW w \in Links, NEW h \in DownFrames
         PROVE  /\ ServerSend(w, <<h>>) \in Links
                /\ ServerSend(w, <<h>>).client = w.client
                /\ ServerSend(w, <<h>>).server = w.server
                /\ w.server = "none" => ServerSend(w, <<h>>).down = w.down
    <2> DEFINE ms == <<h>>
    <2>1. ms \in Seq(DownFrames)
      OBVIOUS
    <2> HIDE DEF ms
    <2>2. /\ ServerSend(w, ms) \in Links /\ SameButDown(w, ServerSend(w, ms))
          /\ w.server = "none" => ServerSend(w, ms).down = w.down
      BY <2>1, ServerSendLink DEF Links
    <2> QED
      BY <2>2 DEF ms, SameButDown
  <1>12. ASSUME NEW c \in Conns
         PROVE  /\ conn'[c] \in Links
                /\ conn'[c].client = conn[c].client /\ conn'[c].server = conn[c].server
                /\ conn[c].server = "none" => conn'[c].down = conn[c].down
    <2>1. CASE c \in dev.subs
      <3> DEFINE w == ServerSend(conn[c], <<f(c)>>)
      <3>1. conn[c] \in Links
        BY <1>2
      <3>2. /\ w \in Links /\ w.client = conn[c].client /\ w.server = conn[c].server
            /\ conn[c].server = "none" => w.down = conn[c].down
        BY <1>5, <1>11, <3>1
      <3> HIDE DEF w
      <3>3. conn'[c] = ServerSend(w, <<g>>)
        BY <1>8, <2>1 DEF w
      <3> QED
        BY <1>5, <1>11, <3>2, <3>3
    <2>2. CASE c \notin dev.subs
      BY <1>1, <1>2, <2>2
    <2> QED
      BY <2>1, <2>2
  <1>13. DevTypes'
    <2>1. conn' \in [Conns -> Links]
      BY <1>1, <1>12
    <2>2. updates' \in Nat /\ resets' \in Nat /\ published' \subseteq SUBSET Nat
      BY <1>1, <1>2, <1>3 DEF DevTypes
    <2> QED
      BY <1>2, <1>3, <2>1, <2>2 DEF DevTypes
  <1>14. Begun' /\ AtHome'
    BY <1>1, <1>2, <1>3, <1>12 DEF Begun, AtHome
  <1> QED
    BY <1>4, <1>10, <1>12, <1>13, <1>14, ServerKeeps

-----------------------------------------------------------------------------
(***************************************************************************)
(* Connections that are accepted, closed and cut                           *)
(***************************************************************************)

\* A refused upgrade, and the network's own step: everything in flight is lost.
LEMMA SeveredKeeps ==
  ASSUME DevInv, NEW c \in Conns, conn' = [conn EXCEPT ![c] = Severed(@)],
         UNCHANGED <<adapter, dev, updates, resets, published>>
  PROVE  DevInv' /\ SameClients
  <1> DEFINE u == Severed(conn[c])
  <1>1. DevTypes /\ Begun /\ AtHome
    BY DEF DevInv
  <1>2. conn \in [Conns -> Links]
    BY <1>1 DEF DevTypes
  <1>3. /\ u \in Links /\ u.client = conn[c].client /\ u.server = conn[c].server
        /\ u.cut = TRUE /\ u.down = <<>>
    <2> DEFINE w == conn[c]
    <2>1. w \in Link(UpFrames, DownFrames)
      BY <1>2 DEF Links
    <2> HIDE DEF w
    <2> DEFINE v == Severed(w)
    <2>2. v \in Link(UpFrames, DownFrames)
      BY <2>1, SeveredLink
    <2>3. v.client = w.client /\ v.server = w.server
      BY <2>1 DEF Severed, Link
    <2>4. v.cut = TRUE /\ v.down = <<>>
      BY <2>1 DEF Severed, Link
    <2> HIDE DEF v
    <2>5. v \in Links
      BY <2>2 DEF Links
    <2> QED
      BY <2>3, <2>4, <2>5 DEF v, w
  <1> HIDE DEF u
  <1>4. /\ conn' \in [Conns -> Links] /\ conn' = [conn EXCEPT ![c] = u]
        /\ \A d \in Conns : conn'[d] = IF d = c THEN u ELSE conn[d]
    BY <1>2, <1>3 DEF u
  <1>5. Sound' = Sound
    BY DEF Sound
  <1>6. DevTypes'
    BY <1>1, <1>4 DEF DevTypes
  <1>7. Begun' /\ AtHome'
    BY <1>1, <1>3, <1>4 DEF Begun, AtHome
  <1>8. ASSUME NEW d \in Conns PROVE Stream(d)'
    <2>1. PICK x \in Sound :
            /\ Fed(conn[d], x, dev.seq[d], dev.state, resets, Sound)
            /\ conn[d].client = "connecting" => x.num = 0
            /\ Hears(d) => Agrees(x)
      BY DEF DevInv, Stream
    <2>2. ASSUME d = c PROVE Fed(u, x, dev.seq[d], dev.state, resets, Sound)
      <3>1. Reach(<<>>, x, x, Sound)
        BY <2>1, ReachEmpty
      <3> QED
        BY <1>3, <3>1 DEF Fed, Whole
    <2>3. conn'[d].client = conn[d].client
      BY <1>3, <1>4
    <2>4. Fed(conn'[d], x, dev.seq[d], dev.state, resets, Sound)
      BY <1>4, <2>1, <2>2
    <2>5. Hears(d)' <=> Hears(d)
      BY <2>3 DEF Hears
    <2>6. Agrees(x)' <=> Agrees(x)
      BY DEF Agrees
    <2> QED
      BY <1>5, <2>1, <2>3, <2>4, <2>5, <2>6 DEF Stream
  <1>9. \A d \in Conns : conn'[d].client = conn[d].client
    BY <1>3, <1>4
  <1> QED
    BY <1>5, <1>6, <1>7, <1>8, <1>9, ServerRest

\* A connection starts where its server is, before any number.
LEMMA AcceptKeeps ==
  ASSUME DevInv, NEW c \in Conns, DevAccepts(c, {"lsdp.v1"}), UNCHANGED adapter
  PROVE  DevInv' /\ SameClients
  <1> DEFINE p == Negotiated({"lsdp.v1"})
             a == Accept(p)
             u == [Down(conn[c], <<a>>) EXCEPT !.server = "open"]
             x == [num |-> 0, state |-> dev.state, scene |-> dev.scene, resets |-> resets]
  <1>1. /\ conn[c].client = "connecting" /\ conn[c].server = "none" /\ ~conn[c].cut
        /\ UNCHANGED <<updates, resets, published>>
    BY DEF DevAccepts
  <1>2. CASE ~(dev.serving /\ p # None)
    <2>1. conn' = [conn EXCEPT ![c] = Severed(@)] /\ UNCHANGED dev
      BY <1>2 DEF DevAccepts
    <2> QED
      BY <1>1, <2>1, SeveredKeeps
  <1>3. CASE dev.serving /\ p # None
    <2>1. conn' = [conn EXCEPT ![c] = u] /\ dev' = [dev EXCEPT !.subs = @ \cup {c}]
      BY <1>3 DEF DevAccepts
    <2>2. DevTypes /\ Begun /\ AtHome /\ conn \in [Conns -> Links] /\ dev \in Devs
      BY DEF DevInv, DevTypes
    <2>3. a \in DownFrames /\ Moves(x, a, x)
      <3>1. p \in Protocols \cup {None}
        BY DEF Negotiated, Protocols
      <3> QED
        BY <3>1 DEF Accept, Accepts, DownFrames, Moves
    <2>4. x \in Sound /\ x.num = 0 /\ x.state = dev.state
      BY <2>2 DEF Sound, Views, AtHome, DevTypes, Devs
    <2> HIDE DEF a, x
    <2>5. /\ u \in Links /\ u.client = "connecting" /\ u.server = "open"
          /\ u.down = <<>> \o <<a>>
      <3>1. conn[c].down = <<>> /\ conn[c] \in Links
        BY <1>1, <2>2 DEF Begun
      <3>2. <<a>> \in Seq(DownFrames) /\ <<>> \o <<a>> \in Seq(DownFrames)
        BY <2>3
      <3> DEFINE q == <<>> \o <<a>>
      <3>3. u = [conn[c] EXCEPT !.down = q, !.server = "open"] /\ q \in Seq(DownFrames)
        BY <1>1, <3>1, <3>2 DEF Down
      <3> HIDE DEF q, u
      <3>4. u \in Links /\ u.client = "connecting" /\ u.server = "open" /\ u.down = q
        <4> DEFINE w == conn[c]
        <4>1. w \in Links /\ w.client = "connecting"
          BY <1>1, <3>1
        <4>2. u = [w EXCEPT !.down = q, !.server = "open"]
          BY <3>3
        <4> HIDE DEF w
        <4> QED
          BY <3>3, <4>1, <4>2 DEF Links, Link, ServerStates
      <3> QED
        BY <3>4 DEF q
    <2> HIDE DEF u
    <2>6. /\ conn' \in [Conns -> Links]
          /\ \A d \in Conns : conn'[d] = IF d = c THEN u ELSE conn[d]
      BY <2>1, <2>2, <2>5
    <2>7. /\ dev' \in Devs /\ dev'.state = dev.state /\ dev'.seq = dev.seq
          /\ dev'.bundles = dev.bundles /\ dev'.scene = dev.scene
          /\ dev'.subs = dev.subs \cup {c}
      BY <2>1, <2>2 DEF Devs
    <2>8. Sound' = Sound
      BY <1>1, <2>7 DEF Sound
    <2>9. DevTypes'
      BY <1>1, <2>2, <2>6, <2>7 DEF DevTypes
    <2>10. Begun' /\ AtHome'
      BY <1>1, <2>2, <2>5, <2>6, <2>7 DEF Begun, AtHome
    <2>11. Stream(c)'
      <3>1. Reach(<<>>, x, x, Sound)
        BY <2>4, ReachEmpty
      <3>2. <<>> \in Seq(DownFrames)
        OBVIOUS
      <3>3. Reach(<<>> \o <<a>>, x, x, Sound)
        BY <2>3, <2>4, <3>1, <3>2, ReachJoined
      <3>4. AtServer(x, dev.seq[c], dev.state, resets)
        BY <1>1, <2>2, <2>4 DEF AtServer, Begun
      <3>5. Fed(u, x, dev.seq[c], dev.state, resets, Sound)
        BY <2>4, <2>5, <3>3, <3>4 DEF Fed
      <3>6. ~Hears(c)'
        BY <2>5, <2>6 DEF Hears
      <3> QED
        BY <1>1, <2>4, <2>6, <2>7, <2>8, <3>5, <3>6 DEF Stream
    <2>12. ASSUME NEW d \in Conns PROVE Stream(d)'
      <3>1. CASE d # c
        <4>1. Stream(d) /\ conn'[d] = conn[d]
          BY <2>6, <3>1 DEF DevInv
        <4>2. \A y \in Sound :
                 Fed(conn[d], y, dev.seq[d], dev.state, resets, Sound)
                   => Fed(conn'[d], y, dev'.seq[d], dev'.state, resets', Sound')
          BY <1>1, <2>7, <2>8, <4>1
        <4> QED
          BY <2>8, <4>1, <4>2, StreamKept
      <3> QED
        BY <2>11, <3>1
    <2>13. \A d \in Conns : conn'[d].client = conn[d].client
      BY <1>1, <2>5, <2>6
    <2> QED
      BY <2>8, <2>9, <2>10, <2>12, <2>13, ServerRest
  <1> QED
    BY <1>2, <1>3

LEMMA SeesCloseKeeps ==
  ASSUME DevInv, NEW c \in Conns, DevSeesClose(c), UNCHANGED adapter
  PROVE  DevInv' /\ SameClients
  <1> DEFINE w == conn[c]
             u == ServerClosed(w)
  <1>1. /\ ServerClosable(w) /\ conn' = [conn EXCEPT ![c] = u]
        /\ dev' = [dev EXCEPT !.subs = @ \ {c}]
        /\ UNCHANGED <<updates, resets, published>>
    BY DEF DevSeesClose
  <1>2. DevTypes /\ Begun /\ AtHome /\ conn \in [Conns -> Links] /\ dev \in Devs
    BY DEF DevInv, DevTypes
  <1>3. w \in Links /\ w.server # "none"
    BY <1>1, <1>2 DEF ServerClosable
  <1> DEFINE code == Head(w.up).code
  <1>4. ASSUME ~w.cut PROVE code \in Nat
    <2>1. w.up # <<>> /\ Head(w.up).type = "close"
      BY <1>1, <1>4 DEF ServerClosable, HeadIs
    <2>2. Head(w.up) \in UpFrames
      BY <1>3, <2>1, TailQueue DEF Links, Link
    <2> QED
      BY <2>1, <2>2 DEF UpFrames, Subscribe, Input, Malformed
  <1>5. w.server = "open" /\ ~w.cut => CloseFrame(code) \in DownFrames
    BY <1>4 DEF CloseFrame, DownFrames
  <1>6. /\ u \in Links /\ u.client = w.client /\ u.server = "closed"
        /\ u.down = IF w.server = "open" /\ ~w.cut /\ w.client # "closed"
                    THEN w.down \o <<CloseFrame(code)>> ELSE w.down
    BY <1>3, <1>5, ServerClosedLink DEF Links
  <1> HIDE DEF w, u, code
  <1>7. ASSUME NEW x \in Sound, Fed(w, x, dev.seq[c], dev.state, resets, Sound)
        PROVE  Fed(u, x, dev.seq[c], dev.state, resets, Sound)
    <2>1. ~Whole(u)
      BY <1>6 DEF Whole
    <2>2. PICK n \in Nat : ~w.cut => n = code
      BY <1>4
    <2>3. u.down \in {w.down, w.down \o <<CloseFrame(n)>>}
      BY <1>6, <2>2
    <2>4. Sound \subseteq Sound
      OBVIOUS
    <2> DEFINE k == dev.seq[c]
               st == dev.state
    <2>5. Fed(w, x, k, st, resets, Sound) /\ w \in Links /\ u \in Links /\ n \in Nat
      BY <1>3, <1>6, <1>7
    <2> HIDE DEF k, st
    <2>6. Fed(u, x, k, st, resets, Sound)
      BY <2>1, <2>3, <2>4, <2>5, FedEnd
    <2> QED
      BY <2>6 DEF k, st
  <1>8. /\ conn' \in [Conns -> Links]
        /\ \A d \in Conns : conn'[d] = IF d = c THEN u ELSE conn[d]
    BY <1>1, <1>2, <1>6 DEF w
  <1>9. /\ dev' \in Devs /\ dev'.state = dev.state /\ dev'.seq = dev.seq
        /\ dev'.bundles = dev.bundles /\ dev'.scene = dev.scene
        /\ dev'.subs = dev.subs \ {c}
    BY <1>1, <1>2 DEF Devs
  <1>10. Sound' = Sound
    BY <1>1, <1>9 DEF Sound
  <1>11. DevTypes'
    BY <1>1, <1>2, <1>8, <1>9 DEF DevTypes
  <1>12. Begun' /\ AtHome'
    BY <1>1, <1>2, <1>3, <1>6, <1>8, <1>9 DEF Begun, AtHome, w
  <1>13. \A d \in Conns : \A x \in Sound :
            Fed(conn[d], x, dev.seq[d], dev.state, resets, Sound)
              => Fed(conn'[d], x, dev'.seq[d], dev'.state, resets', Sound')
    BY <1>1, <1>7, <1>8, <1>9, <1>10 DEF w
  <1>14. \A d \in Conns : conn'[d].client = conn[d].client
    BY <1>6, <1>8 DEF w
  <1> QED
    BY <1>10, <1>11, <1>12, <1>13, <1>14, ServerKeeps

LEMMA ShutdownKeeps ==
  ASSUME DevInv, DevClose, UNCHANGED adapter
  PROVE  DevInv' /\ SameClients
  <1> DEFINE sent(c) == ServerClose(conn[c], 1000)
  <1>1. /\ conn' = [c \in Conns |-> IF c \in dev.subs THEN sent(c) ELSE conn[c]]
        /\ dev' = [dev EXCEPT !.subs = {}, !.serving = FALSE]
        /\ UNCHANGED <<updates, resets, published>>
    BY DEF DevClose
  <1>2. DevTypes /\ Begun /\ AtHome /\ conn \in [Conns -> Links] /\ dev \in Devs
    BY DEF DevInv, DevTypes
  <1>3. /\ dev' \in Devs /\ dev'.scene = dev.scene /\ dev'.bundles = dev.bundles
        /\ dev'.state = dev.state /\ dev'.seq = dev.seq /\ dev'.subs = {}
    BY <1>1, <1>2 DEF Devs
  <1>4. Sound' = Sound
    BY <1>1, <1>3 DEF Sound
  <1>5. ASSUME NEW c \in Conns
        PROVE  /\ sent(c) \in Links /\ sent(c).client = conn[c].client
               /\ sent(c).server # "open"
               /\ sent(c).server = "none" <=> conn[c].server = "none"
               /\ conn[c].server = "none" => sent(c).down = conn[c].down
    <2> DEFINE w == conn[c]
    <2>1. w \in Links /\ CloseFrame(1000) \in DownFrames
      BY <1>2 DEF CloseFrame, DownFrames
    <2> HIDE DEF w
    <2> DEFINE u == ServerClose(w, 1000)
    <2>2. /\ u \in Links /\ u.client = w.client
          /\ u.server = IF w.server = "open" THEN "closing" ELSE w.server
          /\ u.down = IF w.server = "open" /\ ~w.cut
                      THEN w.down \o <<CloseFrame(1000)>> ELSE w.down
      BY <2>1, ServerCloseLink DEF Links
    <2> HIDE DEF u
    <2>3. /\ u \in Links /\ u.client = w.client /\ u.server # "open"
          /\ u.server = "none" <=> w.server = "none"
          /\ w.server = "none" => u.down = w.down
      BY <2>2
    <2> QED
      BY <2>3 DEF u, w
  <1>6. ASSUME NEW c \in Conns, NEW x \in Sound,
               Fed(conn[c], x, dev.seq[c], dev.state, resets, Sound)
        PROVE  Fed(sent(c), x, dev.seq[c], dev.state, resets, Sound)
    <2> DEFINE w == conn[c]
               k == dev.seq[c]
               st == dev.state
    <2>1. w \in Links /\ Fed(w, x, k, st, resets, Sound) /\ 1000 \in Nat
      BY <1>2, <1>6
    <2> HIDE DEF w, k, st
    <2>2. Sound \subseteq Sound
      OBVIOUS
    <2>3. Fed(ServerClose(w, 1000), x, k, st, resets, Sound)
      BY <2>1, <2>2, FedClose
    <2> QED
      BY <2>3 DEF w, k, st
  <1> HIDE DEF sent
  <1>7. ASSUME NEW c \in Conns
        PROVE  /\ conn'[c] = IF c \in dev.subs THEN sent(c) ELSE conn[c]
               /\ conn'[c] \in Links /\ conn'[c].client = conn[c].client
               /\ conn'[c].server # "open"
               /\ conn'[c].server = "none" <=> conn[c].server = "none"
               /\ conn[c].server = "none" => conn'[c].down = conn[c].down
    <2>1. conn'[c] = IF c \in dev.subs THEN sent(c) ELSE conn[c]
      BY <1>1
    <2>2. c \notin dev.subs => conn[c].server # "open"
      BY <1>2 DEF Begun
    <2> QED
      BY <1>2, <1>5, <2>1, <2>2
  <1>8. \A c \in Conns : \A x \in Sound :
           Fed(conn[c], x, dev.seq[c], dev.state, resets, Sound)
             => Fed(conn'[c], x, dev'.seq[c], dev'.state, resets', Sound')
    BY <1>1, <1>3, <1>4, <1>6, <1>7
  <1>9. DevTypes'
    <2>1. conn' \in [Conns -> Links]
      BY <1>1, <1>7
    <2> QED
      BY <1>1, <1>2, <1>3, <2>1 DEF DevTypes
  <1>10. Begun' /\ AtHome'
    BY <1>1, <1>2, <1>3, <1>7 DEF Begun, AtHome
  <1> QED
    BY <1>4, <1>7, <1>8, <1>9, <1>10, ServerKeeps

\* Nobody is told of a bundle or of a reset; after a reset every view is an old one.
LEMMA UntoldKeeps ==
  ASSUME DevInv, (\E s \in Scenes : RegisterBundle(s)) \/ DevReset, UNCHANGED adapter
  PROVE  DevInv' /\ SameClients
  <1>1. /\ DevTypes /\ Begun /\ AtHome /\ dev \in Devs
        /\ updates \in Nat /\ resets \in Nat
    BY DEF DevInv, DevTypes
  <1>2. /\ conn' = conn /\ UNCHANGED <<updates, published>>
        /\ dev' \in Devs /\ dev'.subs = dev.subs /\ dev'.seq = dev.seq
        /\ \/ /\ resets' = resets /\ dev'.state = dev.state /\ dev'.scene = dev.scene
              /\ dev.bundles \subseteq dev'.bundles
           \/ /\ resets' = resets + 1 /\ dev'.state = {0} /\ dev'.scene = FirstScene
              /\ dev'.bundles = {FirstScene}
    <2>1. CASE \E s \in Scenes : RegisterBundle(s)
      BY <1>1, <2>1 DEF RegisterBundle, Devs
    <2>2. CASE DevReset
      <3>1. {0} \in SUBSET Nat /\ {FirstScene} \in SUBSET Scenes /\ FirstScene \in Scenes
        BY DevServerAssumption
      <3> QED
        BY <1>1, <2>2, <3>1 DEF DevReset, Devs
    <2> QED
      BY <2>1, <2>2
  <1>3. Sound \subseteq Sound'
    <2>1. CASE resets' = resets
      BY <1>1, <1>2, <2>1 DEF Sound
    <2>2. CASE resets' = resets + 1
      <3>1. \A x \in Sound : x.resets \in Nat /\ x.resets <= resets /\ x \in Views
        BY DEF Sound, Views
      <3>2. \A x \in Sound : x.resets <= resets' /\ x.resets # resets' /\ x \in Views
        BY <1>1, <2>2, <3>1
      <3> QED
        BY <3>2 DEF Sound
    <2> QED
      BY <1>2, <2>1, <2>2
  <1>4. ASSUME NEW c \in Conns, NEW x \in Sound,
               Fed(conn[c], x, dev.seq[c], dev.state, resets, Sound)
        PROVE  Fed(conn'[c], x, dev'.seq[c], dev'.state, resets', Sound')
    <2>1. \A y \in Sound : AtServer(y, dev.seq[c], dev.state, resets)
             => AtServer(y, dev'.seq[c], dev'.state, resets')
      <3>1. \A y \in Sound : y.resets \in Nat /\ y.resets <= resets
        BY DEF Sound, Views
      <3> QED
        BY <1>1, <1>2, <3>1 DEF AtServer
    <2>2. conn'[c].down = conn[c].down /\ Whole(conn'[c]) = Whole(conn[c])
      BY <1>2
    <2> QED
      BY <1>3, <1>4, <2>1, <2>2, FedStill
  <1>5. DevTypes'
    BY <1>1, <1>2 DEF DevTypes
  <1>6. Begun'
    BY <1>1, <1>2 DEF Begun
  <1>7. AtHome'
    BY <1>1, <1>2 DEF AtHome
  <1>8. \A c \in Conns : conn'[c].client = conn[c].client
    BY <1>2
  <1> QED
    BY <1>3, <1>4, <1>5, <1>6, <1>7, <1>8, ServerKeeps

\* A frame of the client is read, and answered as handleMessage answers it.
LEMMA ReceivesKeeps ==
  ASSUME DevInv, NEW c \in Conns, DevReceives(c), UNCHANGED adapter
  PROVE  DevInv' /\ SameClients
  <1> DEFINE f == Head(conn[c].up)
             links == [conn EXCEPT ![c].up = Tail(@)]
  <1>1. /\ conn[c].server # "none" /\ conn[c].up # <<>> /\ f.type # "close"
    BY DEF DevReceives
  <1>2. DevTypes /\ Begun /\ AtHome
    BY DEF DevInv
  <1>3. SameButUps(links) /\ f \in UpFrames
    BY <1>1, <1>2, TakenLinks
  <1>4. f.type \in {"subscribe", "input", "malformed"}
    BY <1>1, <1>3 DEF UpFrames, Subscribe, Input, Malformed
  <1>5. /\ f.type = "malformed" => RefuseFrame(c, links)
        /\ f.type = "subscribe" => AnswerSubscribe(c, links)
        /\ f.type = "input" => Broadcast(links, {NextUpdate})
    BY <1>4 DEF DevReceives
  <1>6. {NextUpdate} \in SUBSET Nat
    BY <1>2 DEF NextUpdate, DevTypes
  <1> HIDE DEF f, links
  <1> QED
    BY <1>1, <1>3, <1>4, <1>5, <1>6, RefuseKeeps, AnswerKeeps, BroadcastKeeps

\* Every step that is not the adapter's.
LEMMA DevKeeps ==
  ASSUME DevInv, UNCHANGED adapter,
         \/ \E c \in Conns : DevHears(c)
         \/ DevHost
         \/ \E c \in Conns : Cut(c) /\ UNCHANGED devVars
         \/ DevReset \/ DevClose
  PROVE  DevInv' /\ SameClients
  <1>1. ASSUME NEW c \in Conns, DevHears(c) PROVE DevInv' /\ SameClients
    BY <1>1, AcceptKeeps, ReceivesKeeps, SeesCloseKeeps DEF DevHears, DevSide
  <1>2. CASE DevHost
    <2>1. CASE PushDelta
      <3>1. Broadcast(conn, {NextUpdate})
        BY <2>1 DEF PushDelta
      <3>2. SameButUps(conn) /\ {NextUpdate} \in SUBSET Nat
        BY DEF DevInv, DevTypes, SameButUps, SameButUp, NextUpdate
      <3> QED
        BY <3>1, <3>2, BroadcastKeeps
    <2>2. CASE \E s \in Scenes : SwitchScene(s) \/ RegisterBundle(s)
      BY <2>2, SwitchKeeps, UntoldKeeps
    <2> QED
      BY <1>2, <2>1, <2>2 DEF DevHost
  <1>3. ASSUME NEW c \in Conns, Cut(c), UNCHANGED devVars PROVE DevInv' /\ SameClients
    BY <1>3, SeveredKeeps DEF Cut, devVars
  <1> QED
    BY <1>1, <1>2, <1>3, UntoldKeeps, ShutdownKeeps

-----------------------------------------------------------------------------
(***************************************************************************)
(* Steps of the adapter                                                    *)
(***************************************************************************)

LEMMA SameSound ==
  ASSUME UNCHANGED devVars
  PROVE  /\ dev' = dev /\ updates' = updates /\ resets' = resets /\ published' = published
         /\ Sound' = Sound
  BY DEF devVars, Sound

\* The adapter's own part of the invariant, when it changes connection c to u.
LEMMA AdapterRest ==
  ASSUME DevInv, UNCHANGED devVars, NEW c \in Conns, NEW u \in Links,
         conn' = [conn EXCEPT ![c] = u], u.server = conn[c].server,
         u.client = "none" => conn[c].client = "none",
         conn[c].server = "none" => u.down = conn[c].down,
         adapter' \in Adapters, Single', adapter'.status = "live" => Told' \in Sound,
         \A d \in Conns : Stream(d)'
  PROVE  DevInv'
  <1>1. DevTypes /\ Begun /\ AtHome /\ conn \in [Conns -> Links]
    BY DEF DevInv, DevTypes
  <1>2. DevTypes' /\ \A d \in Conns : conn'[d] = IF d = c THEN u ELSE conn[d]
    BY <1>1, SameSound DEF DevTypes
  <1>3. Begun' /\ AtHome'
    BY <1>1, <1>2, SameSound DEF Begun, AtHome
  <1> QED
    BY <1>2, <1>3, SameSound DEF DevInv

\* A connection that is not touched, by an adapter that hears no more of it.
LEMMA StreamAside ==
  ASSUME UNCHANGED devVars, NEW c \in Conns, Stream(c), conn'[c] = conn[c],
         Hears(c)' => Hears(c) /\ \A x : Agrees(x) => Agrees(x)'
  PROVE  Stream(c)'
  <1>1. PICK x \in Sound :
          /\ Fed(conn[c], x, dev.seq[c], dev.state, resets, Sound)
          /\ conn[c].client = "connecting" => x.num = 0
          /\ Hears(c) => Agrees(x)
    BY DEF Stream
  <1>2. Hears(c)' => Agrees(x)'
    BY <1>1
  <1> QED
    BY <1>1, <1>2, SameSound DEF Stream

\* A frame taken off the queue takes the view one step on.
LEMMA FedOn ==
  ASSUME NEW w \in Links, w.down # <<>>, NEW u, u.down = Tail(w.down), Whole(u) => Whole(w),
         NEW x, NEW n, NEW st, NEW r, NEW V, Fed(w, x, n, st, r, V)
  PROVE  /\ Head(w.down) \in DownFrames
         /\ \E z \in V : Moves(x, Head(w.down), z) /\ Fed(u, z, n, st, r, V)
  <1>1. w.down \in Seq(DownFrames)
    BY DEF Links, Link
  <1>2. Head(w.down) \in DownFrames
    BY <1>1, TailQueue
  <1>3. PICK y \in V : Reach(w.down, x, y, V) /\ (Whole(w) => AtServer(y, n, st, r))
    BY DEF Fed
  <1>4. PICK z \in V : Moves(x, Head(w.down), z) /\ Reach(Tail(w.down), z, y, V)
    BY <1>1, <1>3, ReachTail
  <1>5. Fed(u, z, n, st, r, V)
    BY <1>3, <1>4 DEF Fed
  <1> QED
    BY <1>2, <1>4, <1>5

LEMMA OpenKeeps ==
  ASSUME DevInv, NEW c \in Conns, OnOpen(c), UNCHANGED devVars
  PROVE  DevInv'
  <1> DEFINE w == conn[c]
             o == [w EXCEPT !.client = "open", !.down = Tail(@), !.protocol = Head(w.down).protocol]
             u == IF adapter.ws = None THEN o ELSE ClientSend(o, Subscribe)
  <1>1. /\ w.client = "connecting" /\ w.down # <<>> /\ Head(w.down).type = "accept"
        /\ conn' = [conn EXCEPT ![c] = u] /\ adapter' = adapter
    BY DEF OnOpen, HeadIs
  <1>2. /\ DevTypes /\ Begun /\ Single /\ w \in Links /\ adapter \in Adapters
        /\ (adapter.status = "live" => Told \in Sound)
    BY DEF DevInv, DevTypes
  <1>3. w.down \in Seq(DownFrames) /\ w.server # "none"
    BY <1>1, <1>2 DEF Links, Link, Begun
  <1>4. Head(w.down) \in Accepts /\ Tail(w.down) \in Seq(DownFrames)
    <2>1. Head(w.down) \in DownFrames /\ Tail(w.down) \in Seq(DownFrames)
      BY <1>1, <1>3, TailQueue
    <2> QED
      BY <1>1, <2>1 DEF DownFrames, Accepts, Snapshots, Deltas, Changes
  <1> HIDE DEF w
  <1>5. /\ o \in Links /\ o.client = "open" /\ o.server = w.server /\ o.cut = w.cut
        /\ o.down = Tail(w.down)
    BY <1>2, <1>4 DEF Links, Link, Accepts, EndStates
  <1> HIDE DEF o
  <1>6. u \in Links /\ SameButUp(o, u)
    <2>1. Subscribe \in UpFrames
      BY DEF UpFrames
    <2>2. ClientSend(o, Subscribe) \in Links /\ SameButUp(o, ClientSend(o, Subscribe))
      BY <1>5, <2>1, ClientSendLink DEF Links
    <2> QED
      BY <1>5, <2>2 DEF SameButUp
  <1> HIDE DEF u
  <1>7. /\ u.client = "open" /\ u.server = w.server /\ u.cut = w.cut /\ u.down = Tail(w.down)
    BY <1>5, <1>6 DEF SameButUp
  <1>8. \A d \in Conns : conn'[d] = IF d = c THEN u ELSE conn[d]
    BY <1>1, <1>2 DEF DevTypes
  <1>9. Single'
    <2>1. adapter.ws # None => adapter.ws \in Conns
      BY <1>2 DEF Adapters
    <2> QED
      BY <1>1, <1>2, <1>7, <1>8, <2>1 DEF Single, w
  <1>10. Stream(c)'
    <2>1. PICK x \in Sound : /\ Fed(w, x, dev.seq[c], dev.state, resets, Sound)
                             /\ w.client = "connecting" => x.num = 0
      BY DEF DevInv, Stream, w
    <2>2. Whole(u) => Whole(w)
      BY <1>1, <1>7 DEF Whole
    <2>3. PICK z \in Sound : /\ Moves(x, Head(w.down), z)
                             /\ Fed(u, z, dev.seq[c], dev.state, resets, Sound)
      BY <1>1, <1>2, <1>7, <2>1, <2>2, FedOn
    <2>4. z = x /\ z.num = 0
      BY <1>1, <2>1, <2>3 DEF Moves
    <2>5. Hears(c)' => Agrees(z)'
      <3> SUFFICES ASSUME Hears(c)' PROVE Agrees(z)'
        OBVIOUS
      <3>1. adapter.active /\ adapter.ws = c
        BY <1>1 DEF Hears
      <3>2. adapter.status # "live"
        BY <1>1, <1>2, <3>1 DEF Single, w
      <3>3. adapter.last \in Nat
        BY <1>2 DEF Adapters
      <3> QED
        BY <1>1, <2>4, <3>2, <3>3 DEF Agrees
    <2> QED
      BY <1>7, <1>8, <2>3, <2>5, SameSound DEF Stream
  <1>11. ASSUME NEW d \in Conns, d # c PROVE Stream(d)'
    <2>1. Stream(d) /\ conn'[d] = conn[d]
      BY <1>8, <1>11 DEF DevInv
    <2>2. Hears(d)' => Hears(d) /\ \A x : Agrees(x) => Agrees(x)'
      BY <1>1, <2>1 DEF Hears, Agrees
    <2> QED
      BY <2>1, <2>2, StreamAside
  <1>12. adapter'.status = "live" => Told' \in Sound
    BY <1>1, <1>2 DEF Told
  <1>13. /\ u.server = conn[c].server
         /\ u.client = "none" => conn[c].client = "none"
         /\ conn[c].server = "none" => u.down = conn[c].down
    BY <1>3, <1>7 DEF w
  <1> QED
    BY <1>1, <1>2, <1>6, <1>9, <1>10, <1>11, <1>12, <1>13, AdapterRest

\* Taken in order: a snapshot rebases, a delta is the next one or an old one,
\* and none is a gap.
LEMMA TakenAgrees ==
  ASSUME DevInv, NEW f \in DownFrames, NEW x \in Sound, NEW z \in Sound,
         Agrees(x), Moves(x, f, z), adapter' = FrameTaken(adapter, f)
  PROVE  /\ f.type = "delta" => ~Gap(adapter.last, f.seq)
         /\ Agrees(z)'
         /\ adapter' \in Adapters
         /\ adapter'.active = adapter.active /\ adapter'.ws = adapter.ws
         /\ adapter'.opening = adapter.opening /\ adapter'.timer = adapter.timer
         /\ adapter'.status = "live" => Told' \in Sound
  <1>1. /\ adapter \in Adapters /\ x \in Views /\ z \in Views
        /\ (adapter.status = "live" => Told \in Sound)
    BY DEF DevInv, DevTypes, Sound
  <1>2. ASSUME NEW t, t = [z EXCEPT !.num = 0] PROVE t \in Sound
    BY <1>1, <1>2 DEF Sound, Views
  <1> DEFINE k == adapter
  <1>3. CASE f.type = "snapshot"
    <2>1. f \in Snapshots
      BY <1>3 DEF DownFrames, Accepts, Snapshots, Deltas, Changes
    <2>2. k' = [k EXCEPT !.last = 1, !.state = f.state, !.scene = f.scene,
                         !.resets = f.resets, !.backoff = 0, !.status = "live"]
      <3>1. adapter' = SnapshotTaken(adapter, f)
        BY <1>3 DEF FrameTaken
      <3>2. Observed(Fresh, f.seq) = 1
        BY <2>1 DEF Observed, InOrder, Fresh, Snapshots
      <3> QED
        BY <3>1, <3>2 DEF SnapshotTaken
    <2>3. z = [num |-> 1, state |-> f.state, scene |-> f.scene, resets |-> f.resets]
      BY <1>3 DEF Moves
    <2>4. /\ k' \in Adapters /\ k'.active = k.active /\ k'.ws = k.ws /\ k'.opening = k.opening
          /\ k'.timer = k.timer /\ k'.last = 1 /\ k'.state = f.state /\ k'.scene = f.scene
          /\ k'.resets = f.resets /\ k'.status = "live"
      <3>1. /\ f.state \in SUBSET Nat /\ f.scene \in Scenes \cup {None} /\ f.resets \in Nat
            /\ 1 \in Nat /\ 0 \in Nat
        BY <2>1 DEF Snapshots
      <3> DEFINE a == f.state
                 b == f.scene
                 e == f.resets
      <3>2. k' = [k EXCEPT !.last = 1, !.state = a, !.scene = b, !.resets = e,
                           !.backoff = 0, !.status = "live"]
        BY <2>2
      <3> HIDE DEF a, b, e
      <3>3. /\ k' \in Adapters /\ k'.active = k.active /\ k'.ws = k.ws /\ k'.opening = k.opening
            /\ k'.timer = k.timer /\ k'.last = 1 /\ k'.state = a /\ k'.scene = b
            /\ k'.resets = e /\ k'.status = "live"
        BY <1>1, <3>1, <3>2 DEF Adapters, a, b, e
      <3> QED
        BY <3>3 DEF a, b, e
    <2>5. Agrees(z)'
      BY <2>3, <2>4 DEF Agrees
    <2>6. Told' = [z EXCEPT !.num = 0]
      BY <2>3, <2>4 DEF Told
    <2> QED
      BY <1>2, <1>3, <2>4, <2>5, <2>6
  <1>4. CASE f.type = "delta"
    <2>1. f \in Deltas /\ f.seq \in Nat \ {0} /\ f.patches \in SUBSET Nat
      BY <1>4 DEF DownFrames, Accepts, Snapshots, Deltas, Changes
    <2>2. f.seq = x.num + 1 /\ z = [x EXCEPT !.num = f.seq, !.state = @ \cup f.patches]
      BY <1>4 DEF Moves
    <2>3. /\ x.num \in Nat /\ k.last \in Nat /\ z.num = f.seq /\ z.state = x.state \cup f.patches
          /\ z.scene = x.scene /\ z.resets = x.resets
      BY <1>1, <2>1, <2>2 DEF Views, NoNumber, Adapters
    <2>4. k.last = Fresh \/ x.num <= k.last
      BY DEF Agrees
    <2>5. ~Gap(k.last, f.seq)
      BY <2>1, <2>2, <2>3, <2>4 DEF Gap, Fresh
    <2>6. CASE InOrder(k.last, f.seq)
      <3>1. k' = [k EXCEPT !.last = f.seq, !.state = @ \cup f.patches]
        <4>1. adapter' = DeltaTaken(adapter, f)
          BY <1>4 DEF FrameTaken
        <4>2. ~Duplicate(k.last, f.seq)
          BY <2>1, <2>3, <2>6 DEF InOrder, Duplicate
        <4> QED
          BY <2>5, <2>6, <4>1, <4>2 DEF DeltaTaken, Observed
      <3>2. /\ k' \in Adapters /\ k'.active = k.active /\ k'.ws = k.ws /\ k'.opening = k.opening
            /\ k'.timer = k.timer /\ k'.last = f.seq /\ k'.state = k.state \cup f.patches
            /\ k'.scene = k.scene /\ k'.resets = k.resets /\ k'.status = k.status
        <4>1. f.seq \in Nat /\ k.state \cup f.patches \in SUBSET Nat
          BY <1>1, <2>1 DEF Adapters
        <4> QED
          BY <1>1, <3>1, <4>1 DEF Adapters
      <3>3. Agrees(z)'
        BY <2>1, <2>3, <3>2 DEF Agrees
      <3>4. k'.status = "live" => Told' = [z EXCEPT !.num = 0]
        <4> SUFFICES ASSUME k'.status = "live" PROVE Told' = [z EXCEPT !.num = 0]
          OBVIOUS
        <4>1. k.state = x.state /\ k.scene = x.scene /\ k.resets = x.resets
          BY <3>2 DEF Agrees
        <4>2. [z EXCEPT !.num = 0] =
                 [num |-> 0, state |-> z.state, scene |-> z.scene, resets |-> z.resets]
          BY <1>1 DEF Views
        <4> QED
          BY <2>3, <3>2, <4>1, <4>2 DEF Told
      <3> QED
        BY <1>2, <2>5, <3>2, <3>3, <3>4
    <2>7. CASE ~InOrder(k.last, f.seq)
      <3>1. /\ Duplicate(k.last, f.seq) /\ k.last # Fresh /\ f.seq <= k.last
        BY <2>1, <2>3, <2>5, <2>7 DEF InOrder, Gap, Duplicate, Fresh
      <3>2. k' = k
        <4>1. adapter' = DeltaTaken(adapter, f)
          BY <1>4 DEF FrameTaken
        <4> QED
          BY <2>5, <2>7, <3>1, <4>1 DEF DeltaTaken
      <3>3. k.status # "live"
        BY <2>2, <2>3, <3>1 DEF Agrees, NoNumber
      <3>4. Agrees(z)'
        BY <2>3, <3>1, <3>2, <3>3 DEF Agrees
      <3> QED
        BY <1>1, <2>5, <3>2, <3>3, <3>4
    <2> QED
      BY <2>6, <2>7
  <1>5. CASE f.type = "scene_changed"
    <2>1. k' = [k EXCEPT !.last = Fresh]
      BY <1>5 DEF FrameTaken
    <2>2. z = [x EXCEPT !.num = NoNumber]
      BY <1>5 DEF Moves
    <2>3. /\ k' \in Adapters /\ k'.active = k.active /\ k'.ws = k.ws /\ k'.opening = k.opening
          /\ k'.timer = k.timer /\ k'.last = Fresh /\ k'.state = k.state
          /\ k'.scene = k.scene /\ k'.resets = k.resets /\ k'.status = k.status
      BY <1>1, <2>1 DEF Adapters, Fresh
    <2>4. z.num = NoNumber /\ z.state = x.state /\ z.scene = x.scene /\ z.resets = x.resets
      BY <1>1, <2>2 DEF Views
    <2>5. Agrees(z)'
      BY <2>3, <2>4 DEF Agrees
    <2>6. Told' = Told
      BY <2>3 DEF Told
    <2> QED
      BY <1>1, <1>5, <2>3, <2>5, <2>6
  <1>6. CASE f.type \notin {"snapshot", "delta", "scene_changed"}
    <2>1. k' = k /\ z = x
      BY <1>6 DEF FrameTaken, Moves
    <2>2. Told' = Told /\ Agrees(z)'
      BY <2>1 DEF Told, Agrees
    <2> QED
      BY <1>1, <1>6, <2>1, <2>2
  <1> QED
    BY <1>3, <1>4, <1>5, <1>6

LEMMA MessageKeeps ==
  ASSUME DevInv, NEW c \in Conns, OnMessage(c), UNCHANGED devVars
  PROVE  DevInv'
  <1> DEFINE w == conn[c]
             f == Head(w.down)
             v == [w EXCEPT !.down = Tail(@)]
             gap == adapter.active /\ f.type = "delta" /\ Gap(adapter.last, f.seq)
  <1>1. /\ w.client = "open" /\ w.down # <<>>
        /\ adapter' = IF adapter.active THEN FrameTaken(adapter, f) ELSE adapter
        /\ conn' = [conn EXCEPT ![c] = IF gap THEN ClientClose(v) ELSE v]
    BY DEF OnMessage
  <1>2. /\ DevTypes /\ Begun /\ Single /\ w \in Links /\ adapter \in Adapters
        /\ (adapter.status = "live" => Told \in Sound)
    BY DEF DevInv, DevTypes
  <1> HIDE DEF w
  <1>3. w.down \in Seq(DownFrames) /\ w.server # "none"
    BY <1>1, <1>2 DEF Links, Link, Begun, w
  <1>4. f \in DownFrames /\ Tail(w.down) \in Seq(DownFrames)
    BY <1>1, <1>3, TailQueue
  <1>5. /\ v \in Links /\ v.client = w.client /\ v.server = w.server /\ v.cut = w.cut
        /\ v.down = Tail(w.down)
    BY <1>2, <1>4 DEF Links, Link
  <1> HIDE DEF v, f
  <1>6. PICK x \in Sound : /\ Fed(w, x, dev.seq[c], dev.state, resets, Sound)
                           /\ Hears(c) => Agrees(x)
    BY DEF DevInv, Stream, w
  <1>7. Whole(v) => Whole(w)
    BY <1>5 DEF Whole
  <1>8. PICK z \in Sound : Moves(x, f, z) /\ Fed(v, z, dev.seq[c], dev.state, resets, Sound)
    BY <1>1, <1>2, <1>5, <1>6, <1>7, FedOn DEF f
  <1>9. adapter.active => adapter.ws = c /\ Agrees(x)
    BY <1>1, <1>2, <1>6 DEF Single, Hears, w
  <1>10. /\ ~gap /\ (adapter.active => Agrees(z)')
         /\ adapter' \in Adapters
         /\ adapter'.active = adapter.active /\ adapter'.ws = adapter.ws
         /\ adapter'.opening = adapter.opening /\ adapter'.timer = adapter.timer
         /\ adapter'.status = "live" => Told' \in Sound
    <2>1. CASE adapter.active
      BY <1>1, <1>4, <1>8, <1>9, <2>1, TakenAgrees
    <2>2. CASE ~adapter.active
      <3>1. adapter' = adapter
        BY <1>1, <2>2
      <3> QED
        BY <1>2, <2>2, <3>1 DEF Told
    <2> QED
      BY <2>1, <2>2
  <1> HIDE DEF gap
  <1>11. conn' = [conn EXCEPT ![c] = v]
    BY <1>1, <1>10
  <1>12. \A d \in Conns : conn'[d] = IF d = c THEN v ELSE conn[d]
    BY <1>2, <1>11 DEF DevTypes
  <1>13. Single'
    <2>1. adapter.ws # None => adapter.ws \in Conns
      BY <1>2 DEF Adapters
    <2>2. \A d \in Conns : conn'[d].client = conn[d].client
      BY <1>5, <1>12 DEF w
    <2>3. adapter.active => adapter.ws = c /\ conn[c].client = "open"
      BY <1>1, <1>9 DEF w
    <2>4. c # None
      BY AdapterAssumption
    <2> QED
      BY <1>2, <1>10, <2>1, <2>2, <2>3, <2>4 DEF Single
  <1>14. Stream(c)'
    <2>1. Hears(c)' => Agrees(z)'
      BY <1>10 DEF Hears
    <2>2. v.client # "connecting"
      BY <1>1, <1>5
    <2> QED
      BY <1>8, <1>12, <2>1, <2>2, SameSound DEF Stream
  <1>15. ASSUME NEW d \in Conns, d # c PROVE Stream(d)'
    <2>1. Stream(d) /\ conn'[d] = conn[d]
      BY <1>12, <1>15 DEF DevInv
    <2>2. ~Hears(d)'
      BY <1>9, <1>10, <1>15 DEF Hears
    <2> QED
      BY <2>1, <2>2, StreamAside
  <1>16. /\ v.server = conn[c].server
         /\ v.client = "none" => conn[c].client = "none"
         /\ conn[c].server = "none" => v.down = conn[c].down
    BY <1>3, <1>5 DEF w
  <1> QED
    BY <1>5, <1>10, <1>11, <1>13, <1>14, <1>15, <1>16, AdapterRest

LEMMA CloseKeeps ==
  ASSUME DevInv, NEW c \in Conns, OnClose(c), UNCHANGED devVars
  PROVE  DevInv'
  <1> DEFINE w == conn[c]
             u == ClientClosed(w)
             code == Head(w.down).code
             k == adapter
  <1>1. /\ ClientClosable(w) /\ conn' = [conn EXCEPT ![c] = u]
        /\ k' = IF ~k.active THEN [k EXCEPT !.ws = None]
                ELSE Rescheduled([k EXCEPT !.ws = None, !.status = "disconnected"])
    BY DEF OnClose
  <1>2. /\ DevTypes /\ Begun /\ Single /\ w \in Links /\ k \in Adapters
        /\ (k.status = "live" => Told \in Sound)
    BY DEF DevInv, DevTypes
  <1> HIDE DEF w
  <1>3. w.client \in {"connecting", "open", "closing"}
    BY <1>1 DEF ClientClosable
  <1>4. w.client = "open" /\ ~w.cut => CloseFrame(code) \in UpFrames
    <2> SUFFICES ASSUME w.client = "open", ~w.cut PROVE CloseFrame(code) \in UpFrames
      OBVIOUS
    <2>1. w.down # <<>> /\ Head(w.down).type = "close"
      BY <1>1 DEF ClientClosable, HeadIs
    <2>2. Head(w.down) \in DownFrames
      BY <1>2, <2>1, TailQueue DEF Links, Link
    <2>3. code \in Nat
      BY <2>1, <2>2 DEF DownFrames, Accepts, Snapshots, Deltas, Changes
    <2> QED
      BY <2>3 DEF UpFrames, CloseFrame
  <1>5. /\ u \in Links /\ u.client = "closed" /\ u.server = w.server /\ u.down = <<>>
    BY <1>1, <1>2, <1>4, ClientClosedLink DEF Links
  <1> HIDE DEF u
  <1>6. k.active => k.ws = c /\ ~k.opening /\ ~k.timer
    <2>1. c # None
      BY AdapterAssumption
    <2> QED
      BY <1>2, <1>3, <2>1 DEF Single, w
  <1>7. /\ k' \in Adapters /\ k'.active = k.active /\ k'.ws = None
        /\ k'.opening = k.opening /\ k'.last = k.last /\ k'.state = k.state
        /\ k'.scene = k.scene /\ k'.resets = k.resets
        /\ k.active => k'.status = "disconnected"
        /\ ~k.active => k'.status = k.status /\ k'.timer = k.timer
    <2>1. CASE ~k.active
      BY <1>1, <1>2, <2>1 DEF Adapters
    <2>2. CASE k.active
      <3> DEFINE a == [k EXCEPT !.ws = None, !.status = "disconnected"]
                 b == IF k.backoff < MaxBackoff THEN k.backoff + 1 ELSE k.backoff
      <3>1. k' = Rescheduled(a)
        BY <1>1, <2>2
      <3>2. /\ a \in Adapters /\ a.active /\ ~a.timer /\ a.backoff = k.backoff
            /\ a.ws = None /\ a.status = "disconnected" /\ a.opening = k.opening
            /\ a.last = k.last /\ a.state = k.state /\ a.scene = k.scene /\ a.resets = k.resets
        BY <1>2, <1>6, <2>2 DEF Adapters
      <3>3. b \in Nat
        BY <1>2 DEF Adapters
      <3> HIDE DEF a
      <3>4. k' = [a EXCEPT !.timer = TRUE, !.backoff = b]
        BY <3>1, <3>2 DEF Rescheduled
      <3> HIDE DEF b
      <3> QED
        BY <2>2, <3>2, <3>3, <3>4 DEF Adapters
    <2> QED
      BY <2>1, <2>2
  <1>8. \A d \in Conns : conn'[d] = IF d = c THEN u ELSE conn[d]
    BY <1>1, <1>2 DEF DevTypes
  <1>9. Single'
    <2>1. \A d \in Conns : k.active /\ conn[d].client \in {"connecting", "open", "closing"} => d = c
      BY <1>2, <1>6 DEF Single
    <2>2. \A d \in Conns : k.active => conn'[d].client \notin {"connecting", "open", "closing"}
      BY <1>5, <1>8, <2>1
    <2>3. ~k.active => ~k.timer
      BY <1>2 DEF Single
    <2> QED
      BY <1>6, <1>7, <2>2, <2>3 DEF Single
  <1>10. \A d \in Conns : ~Hears(d)'
    BY <1>7, AdapterAssumption DEF Hears
  <1>11. Stream(c)'
    <2>1. PICK x \in Sound : Fed(w, x, dev.seq[c], dev.state, resets, Sound)
      BY DEF DevInv, Stream, w
    <2>2. Reach(<<>>, x, x, Sound)
      BY ReachEmpty
    <2>3. Fed(u, x, dev.seq[c], dev.state, resets, Sound)
      BY <1>5, <2>2 DEF Fed, Whole
    <2> QED
      BY <1>5, <1>8, <1>10, <2>3, SameSound DEF Stream
  <1>12. ASSUME NEW d \in Conns, d # c PROVE Stream(d)'
    <2>1. Stream(d) /\ conn'[d] = conn[d]
      BY <1>8, <1>12 DEF DevInv
    <2> QED
      BY <1>10, <2>1, StreamAside
  <1>13. k'.status = "live" => Told' \in Sound
    BY <1>2, <1>7 DEF Told
  <1>14. /\ u.server = conn[c].server
         /\ u.client = "none" => conn[c].client = "none"
         /\ conn[c].server = "none" => u.down = conn[c].down
    BY <1>2, <1>5 DEF Begun, w
  <1> QED
    BY <1>1, <1>5, <1>7, <1>9, <1>11, <1>12, <1>13, <1>14, AdapterRest

\* Steps of the adapter that touch no connection: what is shown is no longer
\* live, or stays as it is.
LEMMA AloneKeeps ==
  ASSUME DevInv, UNCHANGED devVars, UNCHANGED conn, adapter' \in Adapters, Single',
         adapter'.active = adapter.active, adapter'.ws = adapter.ws,
         adapter'.last = adapter.last, adapter'.state = adapter.state,
         adapter'.scene = adapter.scene, adapter'.resets = adapter.resets,
         adapter'.status = "live" => adapter.status = "live"
  PROVE  DevInv'
  <1>1. DevTypes /\ Begun /\ AtHome /\ (adapter.status = "live" => Told \in Sound)
    BY DEF DevInv
  <1>2. DevTypes' /\ Begun' /\ AtHome'
    BY <1>1, SameSound DEF DevTypes, Begun, AtHome
  <1>3. ASSUME NEW d \in Conns PROVE Stream(d)'
    <2>1. Stream(d)
      BY DEF DevInv
    <2>2. Hears(d)' => Hears(d) /\ \A x : Agrees(x) => Agrees(x)'
      BY DEF Hears, Agrees
    <2> QED
      BY <2>1, <2>2, StreamAside
  <1>4. (adapter.status = "live" => Told \in Sound)'
    BY <1>1, SameSound DEF Told
  <1> QED
    BY <1>2, <1>3, <1>4 DEF DevInv

LEMMA ReopensKeeps ==
  ASSUME DevInv, Reopens, UNCHANGED devVars
  PROVE  DevInv'
  <1>1. adapter \in Adapters /\ Single
    BY DEF DevInv, DevTypes
  <1>2. /\ adapter.timer /\ conn' = conn
        /\ adapter' = [adapter EXCEPT !.timer = FALSE, !.opening = TRUE, !.status = "connecting"]
    BY DEF Reopens
  <1>3. /\ adapter' \in Adapters /\ adapter'.active = adapter.active /\ adapter'.ws = adapter.ws
        /\ adapter'.last = adapter.last /\ adapter'.state = adapter.state
        /\ adapter'.scene = adapter.scene /\ adapter'.resets = adapter.resets
        /\ adapter'.status = "connecting" /\ adapter'.opening = TRUE /\ adapter'.timer = FALSE
    BY <1>1, <1>2 DEF Adapters
  <1>4. Single'
    BY <1>1, <1>2, <1>3 DEF Single
  <1> QED
    BY <1>2, <1>3, <1>4, AloneKeeps

LEMMA OpenFailsKeeps ==
  ASSUME DevInv, OpenFails, UNCHANGED devVars
  PROVE  DevInv'
  <1> DEFINE k == adapter
             a == [k EXCEPT !.opening = FALSE]
             b == IF a.backoff < MaxBackoff THEN a.backoff + 1 ELSE a.backoff
  <1>1. k \in Adapters /\ Single
    BY DEF DevInv, DevTypes
  <1>2. k.opening /\ k' = Rescheduled(a) /\ conn' = conn
    BY DEF OpenFails
  <1>3. /\ a \in Adapters /\ a.active = k.active /\ a.ws = k.ws /\ a.opening = FALSE
        /\ a.timer = k.timer /\ a.last = k.last /\ a.state = k.state /\ a.scene = k.scene
        /\ a.resets = k.resets /\ a.status = k.status
    BY <1>1 DEF Adapters
  <1> HIDE DEF a
  <1>4. b \in Nat
    BY <1>3 DEF Adapters
  <1> DEFINE e == [a EXCEPT !.timer = TRUE, !.backoff = b]
  <1>5. k' = IF ~a.active \/ a.timer THEN a ELSE e
    BY <1>2 DEF Rescheduled
  <1>6. /\ e \in Adapters /\ e.active = a.active /\ e.ws = a.ws /\ e.opening = a.opening
        /\ e.timer = TRUE /\ e.last = a.last /\ e.state = a.state /\ e.scene = a.scene
        /\ e.resets = a.resets /\ e.status = a.status
    BY <1>3, <1>4 DEF Adapters
  <1> HIDE DEF b, e
  <1>7. /\ k' \in Adapters /\ k'.active = k.active /\ k'.ws = k.ws
        /\ k'.last = k.last /\ k'.state = k.state /\ k'.scene = k.scene
        /\ k'.resets = k.resets /\ k'.status = k.status /\ k'.opening = FALSE
        /\ ~k.active => k'.timer = k.timer
    BY <1>3, <1>5, <1>6
  <1>8. Single'
    BY <1>1, <1>2, <1>7 DEF Single
  <1> QED
    BY <1>2, <1>7, <1>8, AloneKeeps

\* A socket is made: nothing has been sent on it, and it is the only one.
LEMMA ConnectKeeps ==
  ASSUME DevInv, TokenResolves, UNCHANGED devVars
  PROVE  DevInv'
  <1> DEFINE k == adapter
  <1>1. /\ k.opening /\ \E c \in Conns : conn[c].client = "none"
        /\ k \in Adapters /\ Single /\ DevTypes /\ Begun /\ AtHome
    BY DEF TokenResolves, DevInv, DevTypes
  <1>2. CASE ~k.active
    <2>1. k' = [k EXCEPT !.opening = FALSE] /\ conn' = conn
      BY <1>2 DEF TokenResolves
    <2>2. /\ k' \in Adapters /\ k'.active = k.active /\ k'.ws = k.ws
          /\ k'.last = k.last /\ k'.state = k.state /\ k'.scene = k.scene
          /\ k'.resets = k.resets /\ k'.status = k.status /\ k'.timer = k.timer
      BY <1>1, <2>1 DEF Adapters
    <2>3. Single'
      BY <1>1, <1>2, <2>2 DEF Single
    <2> QED
      BY <2>1, <2>2, <2>3, AloneKeeps
  <1>3. CASE k.active
    <2>1. PICK c \in Conns : c = NextConn /\ conn[c].client = "none"
      BY <1>1 DEF NextConn
    <2> DEFINE w == conn[c]
               u == [w EXCEPT !.client = "connecting"]
    <2>2. k' = [k EXCEPT !.opening = FALSE, !.ws = c] /\ conn' = [conn EXCEPT ![c] = u]
      BY <1>3, <2>1 DEF TokenResolves
    <2>3. w \in Links /\ w.server = "none"
      BY <1>1, <2>1 DEF DevTypes, Begun
    <2> HIDE DEF w
    <2>4. /\ u \in Links /\ u.client = "connecting" /\ u.server = "none" /\ u.down = w.down
      BY <2>3 DEF Links, Link, EndStates
    <2> HIDE DEF u
    <2>5. \A d \in Conns : conn'[d] = IF d = c THEN u ELSE conn[d]
      BY <1>1, <2>2 DEF DevTypes
    <2>6. k.ws = None /\ ~k.timer /\ k.status # "live"
      BY <1>1, <1>3 DEF Single
    <2>7. /\ k' \in Adapters /\ k'.active = k.active /\ k'.ws = c /\ k'.opening = FALSE
          /\ k'.timer = FALSE /\ k'.status # "live"
      BY <1>1, <2>1, <2>2, <2>6 DEF Adapters
    <2>8. Single'
      <3>1. \A d \in Conns : d # None
        BY AdapterAssumption
      <3>2. \A d \in Conns : conn[d].client \notin {"connecting", "open", "closing"}
        BY <1>1, <1>3, <2>6, <3>1 DEF Single
      <3>3. \A d \in Conns : d # c => conn'[d].client \notin {"connecting", "open", "closing"}
        BY <2>5, <3>2
      <3> QED
        BY <1>3, <2>7, <3>3 DEF Single
    <2>9. \A d \in Conns : ~Hears(d)'
      BY <2>4, <2>5, <2>7 DEF Hears
    <2>10. Stream(c)'
      <3> DEFINE x == [num |-> 0, state |-> dev.state, scene |-> dev.scene, resets |-> resets]
      <3>1. x \in Sound /\ x.num = 0
        BY <1>1 DEF Sound, Views, AtHome, DevTypes, Devs
      <3> HIDE DEF x
      <3>2. u.down = <<>>
        BY <1>1, <2>1, <2>3, <2>4 DEF Begun, w
      <3>3. Reach(<<>>, x, x, Sound)
        BY <3>1, ReachEmpty
      <3>4. Fed(u, x, dev.seq[c], dev.state, resets, Sound)
        BY <2>4, <3>1, <3>2, <3>3 DEF Fed, Whole
      <3> QED
        BY <2>1, <2>5, <2>9, <3>1, <3>4, SameSound DEF Stream
    <2>11. ASSUME NEW d \in Conns, d # c PROVE Stream(d)'
      <3>1. Stream(d) /\ conn'[d] = conn[d]
        BY <2>5, <2>11 DEF DevInv
      <3> QED
        BY <2>9, <3>1, StreamAside
    <2>12. /\ u.server = conn[c].server
           /\ u.client = "none" => conn[c].client = "none"
           /\ conn[c].server = "none" => u.down = conn[c].down
      BY <2>3, <2>4 DEF w
    <2> QED
      BY <2>1, <2>2, <2>4, <2>7, <2>8, <2>10, <2>11, <2>12, AdapterRest
  <1> QED
    BY <1>2, <1>3

LEMMA SendKeeps ==
  ASSUME DevInv, NEW m \in UpFrames, Send(m), UNCHANGED devVars
  PROVE  DevInv'
  <1> DEFINE c == adapter.ws
             w == conn[c]
             u == ClientSend(w, m)
  <1>1. /\ c # None /\ adapter \in Adapters /\ Single /\ DevTypes
        /\ conn' = [conn EXCEPT ![c] = u] /\ adapter' = adapter
        /\ (adapter.status = "live" => Told \in Sound)
    BY DEF Send, DevInv, DevTypes
  <1>2. c \in Conns /\ w \in Links
    BY <1>1 DEF Adapters, DevTypes
  <1> HIDE DEF w
  <1>3. u \in Links /\ SameButUp(w, u)
    BY <1>2, ClientSendLink DEF Links
  <1> HIDE DEF u
  <1>4. \A d \in Conns : conn'[d] = IF d = c THEN u ELSE conn[d]
    BY <1>1, <1>2 DEF DevTypes
  <1>5. \A d \in Conns : SameButUp(conn[d], conn'[d])
    BY <1>3, <1>4 DEF w, SameButUp
  <1>6. Single'
    BY <1>1, <1>2, <1>5 DEF Single, SameButUp
  <1>7. ASSUME NEW d \in Conns PROVE Stream(d)'
    <2>1. PICK x \in Sound :
            /\ Fed(conn[d], x, dev.seq[d], dev.state, resets, Sound)
            /\ conn[d].client = "connecting" => x.num = 0
            /\ Hears(d) => Agrees(x)
      BY DEF DevInv, Stream
    <2>2. /\ conn'[d].down = conn[d].down /\ conn'[d].client = conn[d].client
          /\ Whole(conn'[d]) = Whole(conn[d])
      BY <1>5 DEF SameButUp, Whole
    <2>3. Fed(conn'[d], x, dev.seq[d], dev.state, resets, Sound)
      BY <2>1, <2>2 DEF Fed
    <2>4. Hears(d)' => Agrees(x)'
      BY <1>1, <2>1, <2>2 DEF Hears, Agrees
    <2> QED
      BY <2>1, <2>2, <2>3, <2>4, SameSound DEF Stream
  <1>8. adapter'.status = "live" => Told' \in Sound
    BY <1>1 DEF Told
  <1>9. /\ u.server = conn[c].server
        /\ u.client = "none" => conn[c].client = "none"
        /\ conn[c].server = "none" => u.down = conn[c].down
    BY <1>3 DEF w, SameButUp
  <1> HIDE DEF c
  <1> QED
    BY <1>1, <1>2, <1>3, <1>6, <1>7, <1>8, <1>9, AdapterRest

\* What a closing socket still reads is a close frame, or nothing.
LEMMA ReachCloseOnly ==
  ASSUME NEW q \in Seq(DownFrames), NEW V, NEW x \in V
  PROVE  Reach(CloseOnly(q), x, x, V)
  <1>1. Reach(<<>>, x, x, V)
    BY ReachEmpty
  <1>2. CASE q # <<>> /\ Last(q).type = "close"
    <2> DEFINE e == Last(q)
    <2>1. e \in DownFrames
      <3>1. Len(q) \in 1 .. Len(q)
        BY <1>2, LenProperties, EmptySeq
      <3> QED
        BY <3>1, ElementOfSeq DEF Last
    <2>2. Moves(x, e, x)
      BY <1>2 DEF Moves
    <2>3. CloseOnly(q) = <<e>>
      BY <1>2 DEF CloseOnly
    <2> HIDE DEF e
    <2>4. <<>> \in Seq(DownFrames) /\ <<e>> \in Seq(DownFrames)
      BY <2>1
    <2>5. Reach(<<>> \o <<e>>, x, x, V)
      BY <1>1, <2>1, <2>2, <2>4, ReachJoined
    <2>6. <<>> \o <<e>> = <<e>>
      BY <2>4, ConcatEmptySeq
    <2> QED
      BY <2>3, <2>5, <2>6
  <1>3. CASE ~(q # <<>> /\ Last(q).type = "close")
    BY <1>1, <1>3 DEF CloseOnly
  <1> QED
    BY <1>2, <1>3

LEMMA DisposeKeeps ==
  ASSUME DevInv, Dispose, UNCHANGED devVars
  PROVE  DevInv'
  <1> DEFINE k == adapter
  <1>1. /\ k.active /\ k \in Adapters /\ DevTypes /\ Begun /\ AtHome
        /\ k' = [k EXCEPT !.active = FALSE, !.timer = FALSE, !.ws = None]
        /\ (k.status = "live" => Told \in Sound)
    BY DEF Dispose, DevInv, DevTypes
  <1>2. /\ k' \in Adapters /\ k'.active = FALSE /\ k'.timer = FALSE /\ k'.ws = None
        /\ k'.status = k.status /\ k'.state = k.state /\ k'.scene = k.scene
        /\ k'.resets = k.resets
    BY <1>1 DEF Adapters
  <1>3. Single' /\ \A d \in Conns : ~Hears(d)'
    BY <1>2 DEF Single, Hears
  <1>4. k'.status = "live" => Told' \in Sound
    BY <1>1, <1>2 DEF Told
  <1>5. CASE k.ws = None
    <2>1. conn' = conn
      BY <1>5 DEF Dispose
    <2>2. DevTypes' /\ Begun' /\ AtHome'
      BY <1>1, <1>2, <2>1, SameSound DEF DevTypes, Begun, AtHome
    <2>3. ASSUME NEW d \in Conns PROVE Stream(d)'
      <3>1. Stream(d) /\ conn'[d] = conn[d]
        BY <2>1 DEF DevInv
      <3> QED
        BY <1>3, <3>1, StreamAside
    <2> QED
      BY <1>3, <1>4, <2>2, <2>3, SameSound DEF DevInv
  <1>6. CASE k.ws # None
    <2> PICK c \in Conns : c = k.ws
      BY <1>1, <1>6 DEF Adapters
    <2> DEFINE w == conn[c]
               u == ClientClose(w)
    <2>1. c \in Conns /\ conn' = [conn EXCEPT ![c] = u] /\ w \in Links
      BY <1>1, <1>6 DEF Dispose, DevTypes
    <2> HIDE DEF w
    <2>2. CloseFrame(1000) \in UpFrames
      BY DEF CloseFrame, UpFrames
    <2>3. /\ u \in Links /\ u.server = w.server
          /\ u.client = IF w.client \in {"connecting", "open"} THEN "closing" ELSE w.client
          /\ u.down \in {w.down, <<>>, CloseOnly(w.down)}
      BY <2>1, <2>2, ClientCloseLink DEF Links
    <2>4. w.client \notin {"connecting", "open"} => u = w
      BY DEF ClientClose
    <2> HIDE DEF u
    <2>5. \A d \in Conns : conn'[d] = IF d = c THEN u ELSE conn[d]
      BY <1>1, <2>1 DEF DevTypes
    <2>6. w.server = "none" => w.down = <<>>
      BY <1>1, <2>1 DEF Begun, w
    <2>7. w.down \in Seq(DownFrames)
      BY <2>1 DEF Links, Link
    <2>8. Stream(c)'
      <3>1. PICK x \in Sound : Fed(w, x, dev.seq[c], dev.state, resets, Sound)
        BY <2>1 DEF DevInv, Stream, w
      <3>2. PICK y \in Sound : /\ Reach(w.down, x, y, Sound)
                               /\ Whole(w) => AtServer(y, dev.seq[c], dev.state, resets)
        BY <3>1 DEF Fed
      <3>3. Reach(<<>>, x, x, Sound) /\ Reach(CloseOnly(w.down), x, x, Sound)
        BY <2>7, ReachEmpty, ReachCloseOnly
      <3>4. Whole(u) => u = w
        BY <2>3, <2>4 DEF Whole
      <3>5. Fed(u, x, dev.seq[c], dev.state, resets, Sound)
        <4>1. CASE u = w
          BY <3>1, <4>1
        <4>2. CASE u # w
          BY <2>3, <3>2, <3>3, <3>4, <4>2 DEF Fed
        <4> QED
          BY <4>1, <4>2
      <3>6. u.client # "connecting"
        BY <2>3
      <3> QED
        BY <1>3, <2>1, <2>5, <3>5, <3>6, SameSound DEF Stream
    <2>9. ASSUME NEW d \in Conns, d # c PROVE Stream(d)'
      <3>1. Stream(d) /\ conn'[d] = conn[d]
        BY <2>5, <2>9 DEF DevInv
      <3> QED
        BY <1>3, <3>1, StreamAside
    <2>10. CloseOnly(<<>>) = <<>>
      BY DEF CloseOnly
    <2>11. /\ u.server = conn[c].server
           /\ u.client = "none" => conn[c].client = "none"
           /\ conn[c].server = "none" => u.down = conn[c].down
      BY <2>3, <2>6, <2>10 DEF w
    <2> QED
      BY <1>2, <1>3, <1>4, <2>1, <2>3, <2>8, <2>9, <2>11, AdapterRest
  <1> QED
    BY <1>5, <1>6

-----------------------------------------------------------------------------
(***************************************************************************)
(* The invariant, and what follows from it                                 *)
(***************************************************************************)

LEMMA DevInitially ==
  ASSUME DevSessionInit
  PROVE  DevInv
  <1> DEFINE x == [num |-> 0, state |-> {0}, scene |-> FirstScene, resets |-> 0]
  <1>1. /\ conn = [c \in Conns |-> NewConn] /\ adapter = NewAdapter /\ updates = 0
        /\ resets = 0 /\ published = {{0}}
        /\ dev = [scene |-> FirstScene, state |-> {0}, bundles |-> {FirstScene},
                  subs |-> {}, seq |-> [c \in Conns |-> 0], serving |-> TRUE]
    BY DEF DevSessionInit, DevInit
  <1>2. NewConn \in Links
    BY DEF NewConn, Links, Link, EndStates, ServerStates
  <1>3. DevTypes
    <2>1. dev \in Devs
      BY <1>1, DevServerAssumption DEF Devs
    <2>2. adapter \in Adapters
      BY <1>1 DEF NewAdapter, Adapters, Fresh
    <2>3. conn \in [Conns -> Links]
      BY <1>1, <1>2
    <2>4. published \subseteq SUBSET Nat /\ updates \in Nat /\ resets \in Nat
      BY <1>1
    <2> QED
      BY <2>1, <2>2, <2>3, <2>4 DEF DevTypes
  <1>4. Begun /\ AtHome
    BY <1>1 DEF Begun, AtHome, NewConn
  <1>5. Single /\ adapter.status # "live"
    BY <1>1 DEF Single, NewAdapter, NewConn
  <1>6. ASSUME NEW c \in Conns PROVE Stream(c)
    <2>1. x \in Sound
      BY <1>1, DevServerAssumption DEF Sound, Views
    <2> HIDE DEF x
    <2>2. Reach(<<>>, x, x, Sound)
      BY <2>1, ReachEmpty
    <2>3. conn[c].down = <<>> /\ conn[c].server = "none" /\ conn[c].client = "none"
      BY <1>1 DEF NewConn
    <2>4. Fed(conn[c], x, dev.seq[c], dev.state, resets, Sound)
      BY <2>1, <2>2, <2>3 DEF Fed, Whole
    <2> QED
      BY <2>1, <2>3, <2>4 DEF Stream, Hears
  <1> QED
    BY <1>3, <1>4, <1>5, <1>6 DEF DevInv

LEMMA DevStep ==
  ASSUME DevInv, [DevSessionNext]_devSessionVars
  PROVE  DevInv'
  <1>1. ASSUME NEW c \in Conns, AdapterHears(c) PROVE DevInv'
    BY <1>1, OpenKeeps, MessageKeeps, CloseKeeps DEF AdapterHears, AdapterEvent, AdapterSide
  <1>2. ASSUME NEW c \in Conns, DevHears(c) PROVE DevInv'
    BY <1>2, DevKeeps DEF DevHears, DevSide
  <1>3. Input \in UpFrames /\ Malformed \in UpFrames
    BY DEF UpFrames
  <1>4. CASE AdapterReopens
    BY <1>4, ReopensKeeps DEF AdapterReopens, AdapterSide
  <1>5. CASE AdapterConnects
    BY <1>5, ConnectKeeps DEF AdapterConnects, AdapterSide
  <1>6. CASE AdapterSends
    BY <1>3, <1>6, SendKeeps DEF AdapterSends, AdapterSide
  <1>7. CASE AdapterLeaves
    BY <1>7, DisposeKeeps DEF AdapterLeaves, AdapterSide
  <1>8. CASE DevHost
    BY <1>8, DevKeeps DEF DevHost, DevSide
  <1>9. CASE Troubled
    <2>1. CASE (\E c \in Conns : Cut(c)) /\ UNCHANGED <<adapter, devVars>>
      BY <2>1, DevKeeps
    <2>2. CASE Send(Malformed) /\ UNCHANGED devVars
      BY <1>3, <2>2, SendKeeps
    <2>3. CASE OpenFails /\ UNCHANGED devVars
      BY <2>3, OpenFailsKeeps
    <2>4. CASE (DevReset \/ DevClose) /\ UNCHANGED adapter
      BY <2>4, DevKeeps
    <2> QED
      BY <1>9, <2>1, <2>2, <2>3, <2>4 DEF Troubled
  <1>10. CASE UNCHANGED devSessionVars
    <2>1. UNCHANGED <<conn, adapter, devVars>>
      BY <1>10 DEF devSessionVars, devVars
    <2>2. Single'
      BY <2>1 DEF DevInv, Single
    <2>3. adapter' \in Adapters
      BY <2>1 DEF DevInv, DevTypes
    <2> QED
      BY <2>1, <2>2, <2>3, AloneKeeps
  <1> QED
    BY <1>1, <1>2, <1>4, <1>5, <1>6, <1>7, <1>8, <1>9, <1>10 DEF DevSessionNext

\* What the adapter and the development server keep in every behaviour: one
\* socket, call of open() or timer at a time (client.ts scheduleReconnect and
\* open), and queues that take a view of the client's to where the server is.
THEOREM AdapterInductive == Spec => []DevInv
  <1>1. DevSessionInit => DevInv
    BY DevInitially
  <1>2. DevInv /\ [DevSessionNext]_devSessionVars => DevInv'
    BY DevStep
  <1> QED
    BY <1>1, <1>2, PTL DEF Spec

\* server.ts numbers each connection for itself and starts again at 1 with each
\* snapshot: the tracker of an adapter never sees a gap, whatever is dropped,
\* refused, switched or reconnected.
THEOREM AdapterSeesNoGap == Spec => []NumbersNeverGap
  <1>1. DevInv => NumbersNeverGap
    <2> SUFFICES ASSUME DevInv, NEW c \in Conns, conn[c].client = "open",
                        HeadIs(conn[c].down, "delta"), adapter.active
                 PROVE  ~Gap(adapter.last, Head(conn[c].down).seq)
      BY DEF NumbersNeverGap
    <2> DEFINE w == conn[c]
               f == Head(w.down)
    <2>1. /\ w \in Links /\ w.down # <<>> /\ f.type = "delta" /\ adapter \in Adapters /\ Single
      BY DEF DevInv, DevTypes, HeadIs
    <2>2. Hears(c)
      BY <2>1 DEF Single, Hears
    <2>3. PICK x \in Sound : Fed(w, x, dev.seq[c], dev.state, resets, Sound) /\ Agrees(x)
      BY <2>2 DEF DevInv, Stream
    <2> HIDE DEF w
    <2>4. f \in DownFrames /\ \E z \in Sound : Moves(x, f, z)
      <3> DEFINE u == [w EXCEPT !.down = Tail(w.down)]
      <3>1. u.down = Tail(w.down) /\ (Whole(u) => Whole(w))
        BY <2>1 DEF Links, Link, Whole
      <3> HIDE DEF u
      <3> QED
        BY <2>1, <2>3, <3>1, FedOn
    <2> HIDE DEF f
    <2>5. f.seq = x.num + 1 /\ f.seq \in Nat \ {0}
      BY <2>1, <2>4 DEF Moves, DownFrames, Accepts, Snapshots, Deltas, Changes
    <2>6. x.num \in Nat /\ adapter.last \in Nat
      BY <2>1, <2>3, <2>5 DEF Sound, Views, NoNumber, Adapters
    <2>7. adapter.last = Fresh \/ x.num <= adapter.last
      BY <2>3 DEF Agrees
    <2>8. ~Gap(adapter.last, f.seq)
      BY <2>5, <2>6, <2>7 DEF Gap, Fresh
    <2> QED
      BY <2>8 DEF f, w
  <1> QED
    BY <1>1, AdapterInductive, PTL

\* client.ts shows as live one state that server.ts has had, of a scene whose
\* bundle it serves, unless the mock was reset since.
THEOREM AdapterShowsPublished == Spec => []LiveShowsPublished
  <1>1. DevInv => LiveShowsPublished
    <2> SUFFICES ASSUME DevInv, adapter.status = "live", adapter.resets = resets
                 PROVE  /\ adapter.state \in published
                        /\ HttpAnswer("GET", "bundle", adapter.scene, TRUE, None) = 200
      BY DEF LiveShowsPublished
    <2>1. adapter.state \in published /\ adapter.scene \in dev.bundles
      BY DEF DevInv, Sound, Told
    <2>2. dev.scene \in dev.bundles
      BY DEF DevInv, AtHome
    <2>3. BundleAnswer(adapter.scene) = 200
      BY <2>1, <2>2 DEF BundleAnswer
    <2>4. HttpAnswer("GET", "bundle", adapter.scene, TRUE, None) = BundleAnswer(adapter.scene)
      BY DEF HttpAnswer
    <2> QED
      BY <2>1, <2>3, <2>4
  <1> QED
    BY <1>1, AdapterInductive, PTL

\* After dispose() client.ts returns from each of its handlers and awaits at the
\* test of `active`, and no timer is left: it tells its host nothing and makes
\* no socket.
THEOREM AdapterSilentOnceDisposed == Spec => DisposedIsSilent
  <1> DEFINE Silent ==
        /\ UNCHANGED <<adapter.status, adapter.state, adapter.scene>>
        /\ \A c \in Conns : conn[c].client = "none" => conn'[c].client = "none"
  <1>1. ASSUME DevInv, DevSessionNext, ~adapter.active PROVE Silent
    <2>1. /\ ~adapter.timer /\ adapter \in Adapters /\ conn \in [Conns -> Links]
      BY <1>1 DEF DevInv, DevTypes, Single
    <2>2. ASSUME UNCHANGED adapter, SameClients PROVE Silent
      BY <2>2 DEF SameClients
    <2>3. ASSUME NEW c \in Conns, AdapterHears(c) PROVE Silent
      <3>1. /\ UNCHANGED <<adapter.status, adapter.state, adapter.scene>>
            /\ conn[c].client # "none"
            /\ \A d \in Conns : d # c => conn'[d] = conn[d]
        <4>1. CASE OnOpen(c)
          BY <2>1, <4>1 DEF OnOpen
        <4>2. CASE OnMessage(c)
          BY <1>1, <2>1, <4>2 DEF OnMessage
        <4>3. CASE OnClose(c)
          BY <1>1, <2>1, <4>3 DEF OnClose, ClientClosable, Adapters
        <4> QED
          BY <2>3, <4>1, <4>2, <4>3 DEF AdapterHears, AdapterEvent
      <3> QED
        BY <3>1
    <2>4. ASSUME NEW c \in Conns, DevHears(c) PROVE Silent
      BY <1>1, <2>2, <2>4, DevKeeps DEF DevHears, DevSide
    <2>5. CASE AdapterReopens
      BY <2>1, <2>5 DEF AdapterReopens, Reopens
    <2>6. CASE AdapterConnects
      BY <1>1, <2>1, <2>6 DEF AdapterConnects, TokenResolves, Adapters
    <2>7. CASE AdapterSends \/ AdapterLeaves
      BY <1>1, <2>7 DEF AdapterSends, AdapterLeaves, Send, Dispose
    <2>8. CASE DevHost
      BY <1>1, <2>2, <2>8, DevKeeps DEF DevHost, DevSide
    <2>9. CASE Troubled
      <3>1. CASE (\E c \in Conns : Cut(c)) /\ UNCHANGED <<adapter, devVars>>
        BY <1>1, <2>2, <3>1, DevKeeps
      <3>2. CASE Send(Malformed)
        BY <1>1, <3>2 DEF Send
      <3>3. CASE OpenFails
        BY <1>1, <2>1, <3>3 DEF OpenFails, Rescheduled, Adapters
      <3>4. CASE (DevReset \/ DevClose) /\ UNCHANGED adapter
        BY <1>1, <2>2, <3>4, DevKeeps
      <3> QED
        BY <2>9, <3>1, <3>2, <3>3, <3>4 DEF Troubled
    <2> HIDE DEF Silent
    <2> QED
      BY <1>1, <2>3, <2>4, <2>5, <2>6, <2>7, <2>8, <2>9 DEF DevSessionNext
  <1>2. DevInv /\ [DevSessionNext]_devSessionVars
          => [~adapter.active => Silent]_devSessionVars
    BY <1>1
  <1> QED
    BY <1>2, AdapterInductive, PTL DEF Spec, DisposedIsSilent
=============================================================================
