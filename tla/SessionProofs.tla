---------------------------- MODULE SessionProofs ----------------------------
(***************************************************************************)
(* That the host of a client is shown whole states of the scene and        *)
(* nothing else, for any number of connections, tokens, cuts, resets and   *)
(* failed token fetches, any capacity of the replay ring and any protocol. *)
(***************************************************************************)
EXTENDS LsdpSession, CommonProofs, FiniteSetTheorems

\* What travels in each direction while the scene is not swapped and the host
\* sends no inputs.
Closes == [type : {"close"}, code : Nat]
Datas == [type : {"snapshot", "delta"}, scene : {FirstScene}, seq : Nat \ {0}]
Accepts == [type : {"accept"}, protocol : Protocols]
Errors == [type : {"error"}, code : {"AUTH_DENIED", "INVALID_VALUE"}, recoverable : {FALSE}]
Requests == [type : {"subscribe"}, token : Tokens \cup {None}, since : Nat]
Upward == Requests \cup Closes
Downward == Datas \cup Accepts \cup Errors \cup Closes
Wire == Link(Upward, Downward)

-----------------------------------------------------------------------------
(***************************************************************************)
(* The inductive invariant.  First a connection on its own: its link w,    *)
(* the client's tracker `last`, the scene's number n, the subscribes A of  *)
(* the connection that are being authenticated and the listeners F that    *)
(* feed it.                                                                *)
(***************************************************************************)

Asked(u) == {i \in DOMAIN u : u[i].type = "subscribe"}
NoData(q) == \A i \in DOMAIN q : ~SceneData(q[i])

\* The number before the first one that queue q brings to the tracker.
Base(q, last) == IF q # <<>> /\ q[1].type = "snapshot" THEN q[1].seq - 1 ELSE last

\* The data in q comes first and takes the tracker on number by number: at most
\* one snapshot, at the head, and no delta that a fresh tracker would take for
\* its baseline.
InStep(q, last, n) ==
    \A i \in DOMAIN q : SceneData(q[i]) =>
        /\ \A j \in 1 .. i : SceneData(q[j])
        /\ q[i].seq = Base(q, last) + i /\ q[i].seq <= n
        /\ q[i].type = "snapshot" => i = 1
        /\ q[1].type # "snapshot" => last # Fresh

\* q takes the tracker to the scene's number.
Complete(q, last, n) ==
    /\ \A i \in DOMAIN q : SceneData(q[i])
    /\ Base(q, last) + Len(q) = n
    /\ q = <<>> => last # Fresh

IsLive(w) == w.server = "open" /\ ~w.cut

Untouched(w, A, F) == Asked(w.up) = {} /\ A = {} /\ F = {} /\ NoData(w.down)

\* Its one subscribe is on the wire, being authenticated, or lost.
Waiting(w, last, A, F) ==
    /\ \A i, j \in Asked(w.up) : i = j
    /\ \A p, r \in A : p = r
    /\ Asked(w.up) = {} \/ A = {}
    /\ \A i \in Asked(w.up) : w.up[i].since = last
    /\ \A p \in A : p.since = last
    /\ F = {} /\ NoData(w.down)
    /\ w.server = "open" => w.down = <<>>

\* Its subscribe was answered.
Streaming(w, last, n, A, F) ==
    /\ Asked(w.up) = {} /\ A = {}
    /\ \A l, m \in F : l = m
    /\ InStep(w.down, last, n)
    /\ F # {} /\ IsLive(w) => Complete(w.down, last, n)

StageOf(w, last, n, A, F) ==
    /\ w.client = "none" => w = NewConn /\ Untouched(w, A, F)
    /\ w.client = "connecting" =>
          /\ Untouched(w, A, F)
          /\ w.server = "none" => w.down = <<>>
          /\ w.server = "open" => Len(w.down) <= 1
    /\ w.client = "open" => Waiting(w, last, A, F) \/ Streaming(w, last, n, A, F)

(***************************************************************************)
(* Then the whole session: the client has at most one socket under way,    *)
(* and what it has shown is a whole state.                                 *)
(***************************************************************************)

Current == scenes[FirstScene].seq
Awaited(c) == {p \in auths : p.conn = c}
Feeds(c) == {l \in scenes[FirstScene].listeners : l[1] = c}
Stage(c) == StageOf(conn[c], client.last, Current, Awaited(c), Feeds(c))

SceneOK ==
    /\ DOMAIN scenes = Scenes
    /\ DOMAIN scenes[FirstScene] = {"seq", "replay", "listeners"}
    /\ Current \in Nat \ {0} /\ Holds(scenes[FirstScene].replay, Current)
    /\ activeScene = FirstScene
    /\ \A p \in auths : p.conn \in Conns /\ p.since \in Nat

Objects == [active : BOOLEAN, status : {"disconnected", "connecting", "live"},
            socket : Conns \cup {None}, token : Tokens, timer : BOOLEAN,
            last : Nat, attempt : Nat]

ClientOK ==
    /\ client \in Objects
    /\ opening \in [Tokens -> Nat]
    /\ resolved \in [Conns -> Tokens \cup {None}]

\* A socket being made or open is the one the field holds; there is not also a
\* timer or a token fetch under way; a client that goes on has closed none itself.
Single ==
    /\ \A c \in Conns : conn[c].client \in {"connecting", "open"} => client.socket = c
    /\ client.socket # None =>
          /\ conn[client.socket].client \in {"connecting", "open"}
          /\ client.active /\ ~client.timer
    /\ client.timer \/ client.socket # None => \A t \in Tokens : opening[t] = 0
    /\ \A t, u \in Tokens : opening[t] > 0 /\ opening[u] > 0 => t = u /\ opening[t] = 1
    /\ client.active => \A c \in Conns : conn[c].client # "closing"

Shown ==
    \E n \in 0 .. Current :
        view = Content(FirstScene, n) /\ (client.last # Fresh => client.last = n)

SessionInv ==
    /\ conn \in [Conns -> Wire] /\ SceneOK /\ ClientOK
    /\ Single /\ Shown /\ \A c \in Conns : Stage(c)

-----------------------------------------------------------------------------
\* Lemmas on the queues.

LEMMA FrameTypes ==
  /\ \A f \in Downward : f.type \in {"snapshot", "delta", "accept", "error", "close"}
  /\ \A f \in Downward : SceneData(f) => f.scene = FirstScene /\ f.seq \in Nat \ {0}
  /\ \A f \in Downward : f.type = "accept" => f.protocol \in Protocols
  /\ \A f \in Downward : f.type = "error" => ~f.recoverable
  /\ \A f \in Downward : f.type = "close" => f.code \in Nat
  /\ \A f \in Upward : f.type \in {"subscribe", "close"}
  /\ \A f \in Upward : f.type = "subscribe" => f.since \in Nat
  /\ \A f \in Upward : f.type = "close" => f.code \in Nat
  BY DEF Downward, Upward, Datas, Accepts, Errors, Closes, Requests, SceneData

LEMMA QueueShape ==
  ASSUME NEW q \in Seq(Downward)
  PROVE  /\ Len(q) \in Nat /\ DOMAIN q = 1 .. Len(q)
         /\ q = <<>> <=> Len(q) = 0
         /\ \A i \in DOMAIN q : q[i] \in Downward
         /\ \A i \in DOMAIN q : SceneData(q[i]) => q[i].seq \in Nat \ {0}
  <1>1. Len(q) \in Nat /\ DOMAIN q = 1 .. Len(q) /\ \A i \in DOMAIN q : q[i] \in Downward
    BY LenProperties, ElementOfSeq
  <1>2. q = <<>> <=> Len(q) = 0
    BY EmptySeq
  <1>3. \A i \in DOMAIN q : SceneData(q[i]) => q[i].seq \in Nat \ {0}
    BY <1>1, FrameTypes
  <1> QED
    BY <1>1, <1>2, <1>3

LEMMA NoDataInStep ==
  ASSUME NEW q, NEW last, NEW n, NoData(q)
  PROVE  InStep(q, last, n)
  BY DEF NoData, InStep

LEMMA InStepLater ==
  ASSUME NEW q \in Seq(Downward), NEW last, NEW n \in Nat, NEW m \in Nat, n <= m,
         InStep(q, last, n)
  PROVE  InStep(q, last, m)
  BY QueueShape DEF InStep

LEMMA NoDataJoined ==
  ASSUME NEW q \in Seq(Downward), NEW ms \in Seq(Downward), NoData(q), NoData(ms)
  PROVE  NoData(q \o ms)
  <1> DEFINE r == q \o ms
  <1>1. /\ Len(q) \in Nat /\ Len(ms) \in Nat /\ DOMAIN q = 1 .. Len(q)
        /\ DOMAIN ms = 1 .. Len(ms) /\ DOMAIN r = 1 .. Len(q) + Len(ms)
        /\ \A i \in 1 .. Len(q) : r[i] = q[i]
        /\ \A i \in 1 .. Len(ms) : r[Len(q) + i] = ms[i]
    BY JoinedQueue
  <1> HIDE DEF r
  <1>2. ASSUME NEW i \in DOMAIN r PROVE ~SceneData(r[i])
    <2>1. CASE i \in 1 .. Len(q)
      BY <1>1, <2>1 DEF NoData
    <2>2. CASE i \notin 1 .. Len(q)
      <3>1. i - Len(q) \in 1 .. Len(ms) /\ i = Len(q) + (i - Len(q))
        BY <1>1, <1>2, <2>2
      <3> QED
        BY <1>1, <3>1 DEF NoData
    <2> QED
      BY <2>1, <2>2
  <1> QED
    BY <1>2 DEF NoData, r

LEMMA InStepJoined ==
  ASSUME NEW q \in Seq(Downward), NEW ms \in Seq(Downward), NEW last, NEW n,
         InStep(q, last, n), NoData(ms)
  PROVE  InStep(q \o ms, last, n)
  <1> DEFINE r == q \o ms
  <1>1. /\ Len(q) \in Nat /\ Len(ms) \in Nat /\ DOMAIN q = 1 .. Len(q)
        /\ DOMAIN ms = 1 .. Len(ms) /\ DOMAIN r = 1 .. Len(q) + Len(ms)
        /\ \A i \in 1 .. Len(q) : r[i] = q[i]
        /\ \A i \in 1 .. Len(ms) : r[Len(q) + i] = ms[i]
        /\ r \in Seq(Downward)
    BY JoinedQueue
  <1> HIDE DEF r
  <1>2. ASSUME NEW i \in DOMAIN r, i \notin 1 .. Len(q) PROVE ~SceneData(r[i])
    <2>1. i - Len(q) \in 1 .. Len(ms) /\ i = Len(q) + (i - Len(q))
      BY <1>1, <1>2
    <2> QED
      BY <1>1, <2>1 DEF NoData
  <1>3. ASSUME NEW i \in 1 .. Len(q), SceneData(q[i])
        PROVE  /\ \A j \in 1 .. i : SceneData(r[j])
               /\ r[i].seq = Base(r, last) + i /\ r[i].seq <= n
               /\ r[i].type = "snapshot" => i = 1
               /\ r[1].type # "snapshot" => last # Fresh
    <2>1. /\ \A j \in 1 .. i : SceneData(q[j])
          /\ q[i].seq = Base(q, last) + i /\ q[i].seq <= n
          /\ q[i].type = "snapshot" => i = 1
          /\ q[1].type # "snapshot" => last # Fresh
      BY <1>1, <1>3 DEF InStep
    <2>2. r[1] = q[1] /\ q # <<>> /\ r # <<>>
      BY <1>1, <1>3, QueueShape
    <2>3. Base(r, last) = Base(q, last)
      BY <2>2 DEF Base
    <2>4. \A j \in 1 .. i : r[j] = q[j]
      BY <1>1, <1>3
    <2> QED
      BY <1>1, <1>3, <2>1, <2>2, <2>3, <2>4
  <1>4. InStep(r, last, n)
    BY <1>1, <1>2, <1>3 DEF InStep
  <1> QED
    BY <1>4 DEF r

\* An update reaches a queue that is complete.
LEMMA UpdateJoined ==
  ASSUME NEW q \in Seq(Downward), NEW last \in Nat, NEW n \in Nat,
         InStep(q, last, n), Complete(q, last, n)
  PROVE  /\ <<Delta(FirstScene, n + 1)>> \in Seq(Downward)
         /\ InStep(q \o <<Delta(FirstScene, n + 1)>>, last, n + 1)
         /\ Complete(q \o <<Delta(FirstScene, n + 1)>>, last, n + 1)
  <1> DEFINE f == Delta(FirstScene, n + 1)
             ms == <<f>>
             r == q \o ms
  <1>1. f \in Downward /\ f.type = "delta" /\ f.seq = n + 1 /\ SceneData(f)
    <2>1. f \in Datas
      BY DEF Delta, Datas
    <2> QED
      BY <2>1 DEF Downward, Delta, SceneData
  <1> HIDE DEF f
  <1>2. ms \in Seq(Downward) /\ Len(ms) = 1 /\ ms[1] = f
    BY <1>1
  <1> HIDE DEF ms
  <1>3. /\ Len(q) \in Nat /\ DOMAIN q = 1 .. Len(q) /\ DOMAIN r = 1 .. Len(q) + 1
        /\ \A i \in 1 .. Len(q) : r[i] = q[i]
        /\ r[Len(q) + 1] = f
        /\ r \in Seq(Downward)
    <2>1. /\ Len(q) \in Nat /\ DOMAIN q = 1 .. Len(q) /\ DOMAIN r = 1 .. Len(q) + Len(ms)
          /\ \A i \in 1 .. Len(q) : r[i] = q[i]
          /\ \A i \in 1 .. Len(ms) : r[Len(q) + i] = ms[i]
          /\ r \in Seq(Downward)
      <3>1. ms \in Seq(Downward)
        BY <1>2
      <3> QED
        BY <3>1, JoinedQueue
    <2> QED
      BY <1>2, <2>1
  <1> HIDE DEF r
  <1>4. Len(r) = Len(q) + 1 /\ r # <<>>
    BY <1>3, QueueShape
  <1>5. /\ \A i \in 1 .. Len(q) : SceneData(q[i])
        /\ Base(q, last) + Len(q) = n
        /\ q = <<>> => last # Fresh
    BY <1>3 DEF Complete
  <1>6. /\ \A i \in 1 .. Len(q) : q[i].seq = Base(q, last) + i /\ q[i].seq <= n
        /\ \A i \in 1 .. Len(q) : q[i].type = "snapshot" => i = 1
        /\ Len(q) > 0 => (q[1].type # "snapshot" => last # Fresh)
    BY <1>3, <1>5 DEF InStep
  <1>7. Base(r, last) = Base(q, last) /\ Base(q, last) \in Int
    <2>1. CASE q = <<>>
      <3>1. r[1] = f /\ Base(r, last) = last /\ Base(q, last) = last
        BY <1>1, <1>3, <2>1, QueueShape DEF Base
      <3> QED
        BY <3>1
    <2>2. CASE q # <<>>
      <3>1. 1 \in DOMAIN q /\ r[1] = q[1]
        BY <1>3, <2>2, QueueShape
      <3>2. q[1].seq \in Nat
        BY <1>3, <1>5, <3>1, QueueShape
      <3> QED
        BY <1>4, <2>2, <3>1, <3>2 DEF Base
    <2> QED
      BY <2>1, <2>2
  <1>8. Complete(r, last, n + 1)
    <2>1. \A i \in DOMAIN r : SceneData(r[i])
      BY <1>1, <1>3, <1>5
    <2>2. Base(r, last) + Len(r) = n + 1
      BY <1>3, <1>4, <1>5, <1>7
    <2> QED
      BY <1>4, <2>1, <2>2 DEF Complete
  <1>9. ASSUME NEW i \in DOMAIN r
        PROVE  /\ \A j \in 1 .. i : SceneData(r[j])
               /\ r[i].seq = Base(r, last) + i /\ r[i].seq <= n + 1
               /\ r[i].type = "snapshot" => i = 1
               /\ r[1].type # "snapshot" => last # Fresh
    <2>1. \A j \in 1 .. i : SceneData(r[j])
      BY <1>1, <1>3, <1>5
    <2>2. r[i].seq = Base(r, last) + i /\ r[i].seq <= n + 1
      <3>1. CASE i \in 1 .. Len(q)
        <4>1. r[i] = q[i] /\ q[i].seq = Base(q, last) + i /\ q[i].seq <= n
          BY <1>3, <1>6, <3>1
        <4>2. q[i].seq \in Nat
          BY <1>3, <1>5, <3>1, QueueShape
        <4> QED
          BY <1>7, <4>1, <4>2
      <3>2. CASE i \notin 1 .. Len(q)
        <4>1. i = Len(q) + 1
          BY <1>3, <3>2
        <4>2. r[i].seq = n + 1
          BY <1>1, <1>3, <4>1
        <4> QED
          BY <1>3, <1>5, <1>7, <4>1, <4>2
      <3> QED
        BY <3>1, <3>2
    <2>3. r[i].type = "snapshot" => i = 1
      BY <1>1, <1>3, <1>6
    <2>4. r[1].type # "snapshot" => last # Fresh
      <3>1. CASE q = <<>>
        BY <1>5, <3>1
      <3>2. CASE q # <<>>
        BY <1>3, <1>6, <3>2, QueueShape
      <3> QED
        BY <3>1, <3>2
    <2> QED
      BY <2>1, <2>2, <2>3, <2>4
  <1>10. InStep(r, last, n + 1)
    BY <1>9 DEF InStep
  <1> QED
    BY <1>2, <1>8, <1>10 DEF r, ms, f

\* The frame at the head of a queue in step is the tracker's next, or rebases it.
LEMMA DataRead ==
  ASSUME NEW q \in Seq(Downward), NEW last \in Nat, NEW n \in Nat, InStep(q, last, n),
         q # <<>>, SceneData(Head(q))
  PROVE  /\ Head(q) = q[1]
         /\ Head(q).seq \in 1 .. n
         /\ Head(q).type = "delta" => last # Fresh /\ Head(q).seq = last + 1
         /\ InStep(Tail(q), Head(q).seq, n)
         /\ Complete(q, last, n) => Complete(Tail(q), Head(q).seq, n)
  <1> DEFINE r == Tail(q)
             s == Head(q).seq
  <1>1. /\ r \in Seq(Downward) /\ Len(r) = Len(q) - 1 /\ Len(q) \in Nat \ {0}
        /\ DOMAIN q = 1 .. Len(q) /\ DOMAIN r = 1 .. Len(q) - 1
        /\ \A i \in DOMAIN r : r[i] = q[i + 1]
        /\ Head(q) = q[1] /\ q[1] \in Downward
    BY TailQueue
  <1> HIDE DEF r
  <1>2. s \in Nat \ {0} /\ s = q[1].seq
    BY <1>1, FrameTypes
  <1>3. /\ s = Base(q, last) + 1 /\ s <= n
        /\ q[1].type # "snapshot" => last # Fresh
    BY <1>1, <1>2 DEF InStep
  <1>4. q[1].type = "delta" => Base(q, last) = last
    BY DEF Base
  <1>5. Base(q, last) = s - 1
    <2>1. CASE q[1].type = "snapshot"
      BY <1>2, <2>1 DEF Base
    <2>2. CASE q[1].type # "snapshot"
      <3>1. Base(q, last) = last
        BY <2>2 DEF Base
      <3> QED
        BY <1>2, <1>3, <3>1
    <2> QED
      BY <2>1, <2>2
  <1> HIDE DEF s
  <1>6. ASSUME NEW i \in DOMAIN r, SceneData(r[i])
        PROVE  /\ \A j \in 1 .. i : SceneData(r[j])
               /\ r[i].seq = s + i /\ r[i].seq <= n
               /\ r[i].type # "snapshot"
    <2>1. i \in Nat /\ i > 0 /\ i + 1 \in DOMAIN q /\ r[i] = q[i + 1]
      BY <1>1
    <2>2. /\ \A j \in 1 .. i + 1 : SceneData(q[j])
          /\ q[i + 1].seq = Base(q, last) + (i + 1) /\ q[i + 1].seq <= n
          /\ q[i + 1].type = "snapshot" => i + 1 = 1
      BY <1>6, <2>1 DEF InStep
    <2>3. ASSUME NEW j \in 1 .. i PROVE SceneData(r[j])
      <3>1. j \in DOMAIN r /\ j + 1 \in 1 .. i + 1
        BY <1>1, <2>1
      <3>2. r[j] = q[j + 1]
        BY <1>1, <3>1
      <3> QED
        BY <2>2, <3>1, <3>2
    <2>4. r[i].seq = s + i /\ r[i].seq <= n
      <3>1. r[i].seq = (s - 1) + (i + 1) /\ r[i].seq <= n
        BY <1>5, <2>1, <2>2, Zenon
      <3>2. s \in Int /\ i \in Int
        BY <1>2, <2>1
      <3> QED
        BY <3>1, <3>2
    <2>5. r[i].type # "snapshot"
      BY <2>1, <2>2
    <2> QED
      BY <2>3, <2>4, <2>5
  <1>7. ASSUME r # <<>>, SceneData(r[1]) PROVE r[1].type # "snapshot"
    BY <1>1, <1>6, <1>7, QueueShape
  <1>8. ASSUME NEW i \in DOMAIN r, SceneData(r[i])
        PROVE  SceneData(r[1]) /\ r # <<>>
    BY <1>1, <1>6, <1>8, QueueShape
  <1>9. InStep(r, s, n)
    <2>1. ASSUME NEW i \in DOMAIN r, SceneData(r[i])
          PROVE  /\ \A j \in 1 .. i : SceneData(r[j])
                 /\ r[i].seq = Base(r, s) + i /\ r[i].seq <= n
                 /\ r[i].type = "snapshot" => i = 1
                 /\ r[1].type # "snapshot" => s # Fresh
      <3>1. Base(r, s) = s
        BY <1>7, <1>8, <2>1 DEF Base
      <3> QED
        BY <1>2, <1>6, <2>1, <3>1 DEF Fresh
    <2> QED
      BY <2>1 DEF InStep
  <1>10. ASSUME Complete(q, last, n) PROVE Complete(r, s, n)
    <2>1. ASSUME NEW i \in DOMAIN r PROVE SceneData(r[i])
      <3>1. i + 1 \in DOMAIN q /\ r[i] = q[i + 1]
        BY <1>1
      <3> QED
        BY <1>10, <3>1 DEF Complete
    <2>2. Base(r, s) = s
      <3>1. CASE r = <<>>
        BY <3>1 DEF Base
      <3>2. CASE r # <<>>
        <4>1. 1 \in DOMAIN r
          BY <1>1, <3>2, QueueShape
        <4> QED
          BY <1>7, <2>1, <3>2, <4>1 DEF Base
      <3> QED
        BY <3>1, <3>2
    <2>3. s + Len(r) = n
      BY <1>1, <1>2, <1>5, <1>10 DEF Complete
    <2> QED
      BY <1>2, <2>1, <2>2, <2>3 DEF Complete, Fresh
  <1>11. Head(q).type = "delta" => last # Fresh /\ Head(q).seq = last + 1
    BY <1>1, <1>2, <1>3, <1>4, <1>5
  <1> QED
    BY <1>1, <1>2, <1>3, <1>9, <1>10, <1>11 DEF r, s

\* Nothing that is not data comes before data.
LEMMA NoDataRead ==
  ASSUME NEW q \in Seq(Downward), NoData(q), q # <<>>
  PROVE  /\ Tail(q) \in Seq(Downward) /\ NoData(Tail(q)) /\ ~SceneData(Head(q))
         /\ Len(q) <= 1 => Tail(q) = <<>>
  <1>1. /\ Tail(q) \in Seq(Downward) /\ Len(Tail(q)) = Len(q) - 1 /\ Len(q) \in Nat \ {0}
        /\ DOMAIN q = 1 .. Len(q) /\ DOMAIN Tail(q) = 1 .. Len(q) - 1
        /\ \A i \in DOMAIN Tail(q) : Tail(q)[i] = q[i + 1]
        /\ Head(q) = q[1]
    BY TailQueue
  <1>2. NoData(Tail(q)) /\ ~SceneData(Head(q))
    BY <1>1 DEF NoData
  <1>3. Len(q) <= 1 => Tail(q) = <<>>
    BY <1>1, QueueShape
  <1> QED
    BY <1>1, <1>2, <1>3

-----------------------------------------------------------------------------
(***************************************************************************)
(* What the operations on a link make of the stage its connection is in.   *)
(***************************************************************************)

AskedLess(u, v) == \A i \in Asked(v) : i \in Asked(u) /\ v[i] = u[i]

\* q carries no data that p does not carry in the same place.
DataLess(p, q) ==
    \/ NoData(q)
    \/ /\ DOMAIN p \subseteq DOMAIN q /\ \A i \in DOMAIN p : q[i] = p[i]
       /\ \A i \in DOMAIN q \ DOMAIN p : ~SceneData(q[i])

\* x is what w may have become by a step that sends and reads no data and asks
\* for none: only a server end that has stopped sending says anything more.
Quieter(w, x) ==
    /\ x.client = w.client
    /\ w.client = "none" => x = w
    /\ AskedLess(w.up, x.up)
    /\ DataLess(w.down, x.down)
    /\ x.server \in {"none", "open"} =>
          x.server = w.server /\ x.down \in {w.down, <<>>}
    /\ IsLive(x) => IsLive(w) /\ x.down = w.down

LEMMA InStepLess ==
  ASSUME NEW p \in Seq(Downward), NEW q \in Seq(Downward), NEW last, NEW n,
         DataLess(p, q), InStep(p, last, n)
  PROVE  InStep(q, last, n)
  <1>1. CASE NoData(q)
    BY <1>1, NoDataInStep
  <1>2. CASE ~NoData(q)
    <2>1. /\ DOMAIN p \subseteq DOMAIN q /\ \A i \in DOMAIN p : q[i] = p[i]
          /\ \A i \in DOMAIN q \ DOMAIN p : ~SceneData(q[i])
      BY <1>2 DEF DataLess
    <2>2. ASSUME NEW i \in DOMAIN q, SceneData(q[i])
          PROVE  /\ \A j \in 1 .. i : SceneData(q[j])
                 /\ q[i].seq = Base(q, last) + i /\ q[i].seq <= n
                 /\ q[i].type = "snapshot" => i = 1
                 /\ q[1].type # "snapshot" => last # Fresh
      <3>1. i \in DOMAIN p /\ q[i] = p[i] /\ SceneData(p[i])
        BY <2>1, <2>2
      <3>2. /\ \A j \in 1 .. i : SceneData(p[j])
            /\ p[i].seq = Base(p, last) + i /\ p[i].seq <= n
            /\ p[i].type = "snapshot" => i = 1
            /\ p[1].type # "snapshot" => last # Fresh
        BY <3>1 DEF InStep
      <3>3. \A j \in 1 .. i : j \in DOMAIN p /\ q[j] = p[j]
        BY <2>1, <3>1, QueueShape
      <3>4. 1 \in DOMAIN p /\ q[1] = p[1] /\ p # <<>> /\ q # <<>>
        BY <2>1, <2>2, <3>1, QueueShape
      <3>5. Base(q, last) = Base(p, last)
        BY <3>4 DEF Base
      <3> QED
        BY <3>1, <3>2, <3>3, <3>4, <3>5
    <2> QED
      BY <2>2 DEF InStep
  <1> QED
    BY <1>1, <1>2

LEMMA NoDataLess ==
  ASSUME NEW p, NEW q, DataLess(p, q), NoData(p)
  PROVE  NoData(q)
  BY DEF DataLess, NoData

\* A connection stays in its stage when its link grows quieter.
LEMMA StageQuieter ==
  ASSUME NEW w \in Wire, NEW x \in Wire, Quieter(w, x), NEW last, NEW n,
         NEW A, NEW B \in SUBSET A, NEW F, NEW G \in SUBSET F,
         StageOf(w, last, n, A, F)
  PROVE  StageOf(x, last, n, B, G)
  <1>1. w.down \in Seq(Downward) /\ x.down \in Seq(Downward)
    BY DEF Wire, Link
  <1>2. Untouched(w, A, F) => Untouched(x, B, G)
    BY NoDataLess DEF Quieter, Untouched, AskedLess
  <1>3. ASSUME w.client = "none" PROVE x = NewConn /\ Untouched(x, B, G)
    BY <1>2, <1>3 DEF StageOf, Quieter
  <1>4. ASSUME w.client = "connecting"
        PROVE  /\ Untouched(x, B, G)
               /\ x.server = "none" => x.down = <<>>
               /\ x.server = "open" => Len(x.down) <= 1
    <2>1. /\ Untouched(w, A, F)
          /\ w.server = "none" => w.down = <<>>
          /\ w.server = "open" => Len(w.down) <= 1
      BY <1>4 DEF StageOf
    <2>2. x.server \in {"none", "open"} =>
             x.server = w.server /\ x.down \in {w.down, <<>>}
      BY DEF Quieter
    <2>3. Len(<<>>) <= 1
      OBVIOUS
    <2> QED
      BY <1>2, <2>1, <2>2, <2>3
  <1>5. ASSUME Waiting(w, last, A, F) PROVE Waiting(x, last, B, G)
    <2>1. NoData(x.down)
      BY <1>5, NoDataLess DEF Quieter, Waiting
    <2>2. \A i \in Asked(x.up) : i \in Asked(w.up) /\ x.up[i] = w.up[i]
      BY DEF Quieter, AskedLess
    <2>3. /\ \A i, j \in Asked(x.up) : i = j
          /\ Asked(x.up) = {} \/ B = {}
          /\ \A i \in Asked(x.up) : x.up[i].since = last
      BY <1>5, <2>2 DEF Waiting
    <2>4. x.server = "open" => x.down = <<>>
      BY <1>5 DEF Waiting, Quieter
    <2> QED
      BY <1>5, <2>1, <2>3, <2>4 DEF Waiting
  <1>6. ASSUME Streaming(w, last, n, A, F) PROVE Streaming(x, last, n, B, G)
    <2>1. InStep(x.down, last, n)
      BY <1>1, <1>6, InStepLess DEF Quieter, Streaming
    <2>2. Asked(x.up) = {}
      BY <1>6 DEF Quieter, AskedLess, Streaming
    <2>3. G # {} /\ IsLive(x) => Complete(x.down, last, n)
      BY <1>6 DEF Streaming, Quieter
    <2> QED
      BY <1>6, <2>1, <2>2, <2>3 DEF Streaming
  <1>7. x.client = w.client
    BY DEF Quieter
  <1> QED
    BY <1>3, <1>4, <1>5, <1>6, <1>7 DEF StageOf

\* Only the stage of an open connection depends on the tracker.
LEMMA StageElsewhere ==
  ASSUME NEW w, w.client # "open", NEW last, NEW m, NEW n, NEW A, NEW F,
         StageOf(w, last, n, A, F)
  PROVE  StageOf(w, m, n, A, F)
  BY DEF StageOf

\* Those that have ended are in none.
LEMMA StageEnded ==
  ASSUME NEW w, w.client \in {"closing", "closed"}, NEW last, NEW n, NEW A, NEW F
  PROVE  StageOf(w, last, n, A, F)
  BY DEF StageOf

-----------------------------------------------------------------------------
\* The operations that make a link quieter.

LEMMA QuieterItself ==
  ASSUME NEW w \in Wire
  PROVE  Quieter(w, w)
  BY DEF Quieter, AskedLess, DataLess

LEMMA SeveredWire ==
  ASSUME NEW w \in Wire
  PROVE  /\ Severed(w) \in Wire
         /\ Severed(w).client = w.client /\ Severed(w).server = w.server
         /\ Severed(w).cut = TRUE /\ Severed(w).up = <<>> /\ Severed(w).down = <<>>
  <1>1. w \in Link(Upward, Downward)
    BY DEF Wire
  <1>2. /\ Severed(w) \in Link(Upward, Downward)
        /\ Severed(w).client = w.client /\ Severed(w).server = w.server
        /\ Severed(w).cut = TRUE /\ Severed(w).up = <<>> /\ Severed(w).down = <<>>
    BY <1>1, SeveredLink
  <1> QED
    BY <1>2 DEF Wire

LEMMA DownWire ==
  ASSUME NEW w \in Wire, NEW ms \in Seq(Downward)
  PROVE  /\ Down(w, ms) \in Wire /\ SameButDown(w, Down(w, ms))
         /\ Down(w, ms).down = IF w.cut THEN w.down ELSE w.down \o ms
  <1>1. w \in Link(Upward, Downward)
    BY DEF Wire
  <1>2. /\ Down(w, ms) \in Link(Upward, Downward) /\ SameButDown(w, Down(w, ms))
        /\ Down(w, ms).down = IF w.cut THEN w.down ELSE w.down \o ms
    BY <1>1, DownLink
  <1> QED
    BY <1>2 DEF Wire

LEMMA SeveredQuieter ==
  ASSUME NEW w \in Wire, w.client # "none"
  PROVE  Severed(w) \in Wire /\ Quieter(w, Severed(w))
  <1> DEFINE x == Severed(w)
  <1>1. /\ x \in Wire /\ x.client = w.client /\ x.server = w.server
        /\ x.cut = TRUE /\ x.up = <<>> /\ x.down = <<>>
    BY SeveredWire
  <1> HIDE DEF x
  <1>2. AskedLess(w.up, x.up)
    BY <1>1 DEF AskedLess, Asked
  <1>3. DataLess(w.down, x.down)
    BY <1>1 DEF DataLess, NoData
  <1>4. Quieter(w, x)
    BY <1>1, <1>2, <1>3 DEF Quieter, IsLive
  <1> QED
    BY <1>1, <1>4 DEF x

LEMMA JoinedLess ==
  ASSUME NEW q \in Seq(Downward), NEW ms \in Seq(Downward), NoData(ms)
  PROVE  q \o ms \in Seq(Downward) /\ DataLess(q, q \o ms)
  <1> DEFINE r == q \o ms
  <1>1. /\ Len(q) \in Nat /\ Len(ms) \in Nat /\ DOMAIN q = 1 .. Len(q)
        /\ DOMAIN ms = 1 .. Len(ms) /\ DOMAIN r = 1 .. Len(q) + Len(ms)
        /\ \A i \in 1 .. Len(q) : r[i] = q[i]
        /\ \A i \in 1 .. Len(ms) : r[Len(q) + i] = ms[i]
        /\ r \in Seq(Downward)
    BY JoinedQueue
  <1> HIDE DEF r
  <1>2. ASSUME NEW i \in DOMAIN r \ DOMAIN q PROVE ~SceneData(r[i])
    <2>1. i - Len(q) \in 1 .. Len(ms) /\ i = Len(q) + (i - Len(q))
      BY <1>1, <1>2
    <2> QED
      BY <1>1, <2>1 DEF NoData
  <1>3. DataLess(q, r)
    BY <1>1, <1>2 DEF DataLess
  <1> QED
    BY <1>1, <1>3 DEF r

LEMMA OneFrame ==
  ASSUME NEW f \in Downward, ~SceneData(f)
  PROVE  <<f>> \in Seq(Downward) /\ NoData(<<f>>)
  BY DEF NoData

LEMMA CloseIsDown ==
  ASSUME NEW code \in Nat
  PROVE  CloseFrame(code) \in Downward /\ ~SceneData(CloseFrame(code))
  BY DEF CloseFrame, Downward, Closes, SceneData

\* ServerClose, where the link may be a new one.
LEMMA CloseQuieter ==
  ASSUME NEW w \in Wire, w.client = "none" => w = NewConn, NEW code \in Nat
  PROVE  ServerClose(w, code) \in Wire /\ Quieter(w, ServerClose(w, code))
  <1> DEFINE x == ServerClose(w, code)
             ms == <<CloseFrame(code)>>
  <1>1. CASE w.server # "open"
    BY <1>1, QuieterItself DEF ServerClose
  <1>2. CASE w.server = "open"
    <2>1. /\ x \in Wire /\ x.server = "closing" /\ x.client = w.client /\ x.up = w.up
          /\ x.cut = w.cut /\ x.down = IF ~w.cut THEN w.down \o ms ELSE w.down
      BY <1>2, CloseIsDown, ServerCloseLink DEF Wire
    <2> HIDE DEF x
    <2>2. ms \in Seq(Downward) /\ NoData(ms)
      BY CloseIsDown, OneFrame
    <2> HIDE DEF ms
    <2>3. DataLess(w.down, w.down \o ms) /\ DataLess(w.down, w.down)
      <3>1. w.down \in Seq(Downward)
        BY DEF Wire, Link
      <3> QED
        BY <2>2, <3>1, JoinedLess DEF DataLess
    <2>4. DataLess(w.down, x.down) /\ AskedLess(w.up, x.up)
      BY <2>1, <2>3 DEF AskedLess
    <2>5. w.client # "none"
      BY <1>2 DEF NewConn
    <2>6. Quieter(w, x)
      BY <2>1, <2>4, <2>5 DEF Quieter, IsLive
    <2> QED
      BY <2>1, <2>6 DEF x
  <1> QED
    BY <1>1, <1>2

\* A refusal: the error frame f, then the close.
LEMMA RefusalQuieter ==
  ASSUME NEW w \in Wire, w.client = "none" => w = NewConn,
         NEW f \in Errors, NEW code \in Nat
  PROVE  LET x == ServerClose(ServerSend(w, <<f>>), code) IN x \in Wire /\ Quieter(w, x)
  <1> DEFINE v == ServerSend(w, <<f>>)
             x == ServerClose(v, code)
             es == <<f>>
             cs == <<CloseFrame(code)>>
  <1>1. CASE w.server # "open"
    <2>1. v = w
      BY <1>1 DEF ServerSend
    <2>2. x = w
      BY <1>1, <2>1 DEF ServerClose
    <2> QED
      BY <2>2, QuieterItself
  <1>2. CASE w.server = "open"
    <2>1. es \in Seq(Downward) /\ NoData(es)
      <3>1. f \in Downward /\ ~SceneData(f)
        BY DEF Downward, Errors, SceneData
      <3> QED
        BY <3>1, OneFrame
    <2>2. cs \in Seq(Downward) /\ NoData(cs)
      BY CloseIsDown, OneFrame
    <2>3. /\ v \in Wire /\ SameButDown(w, v)
          /\ v.down \in {w.down, w.down \o es}
      <3> HIDE DEF es
      <3>1. /\ ServerSend(w, es) \in Wire /\ SameButDown(w, ServerSend(w, es))
            /\ ServerSend(w, es).down =
                  IF w.server = "open" /\ w.client \notin {"closing", "closed"} /\ ~w.cut
                  THEN w.down \o es ELSE w.down
        BY <2>1, ServerSendLink DEF Wire
      <3> QED
        BY <3>1 DEF es
    <2> HIDE DEF v
    <2>4. /\ x \in Wire /\ x.server = "closing" /\ x.client = w.client /\ x.up = w.up
          /\ x.down \in {v.down, v.down \o cs}
      <3>1. /\ x \in Wire /\ x.server = IF v.server = "open" THEN "closing" ELSE v.server
            /\ x.client = v.client /\ x.up = v.up
            /\ x.down = IF v.server = "open" /\ ~v.cut THEN v.down \o cs ELSE v.down
        BY <2>3, CloseIsDown, ServerCloseLink DEF Wire
      <3> HIDE DEF x, cs
      <3> QED
        BY <1>2, <2>3, <3>1 DEF SameButDown
    <2> HIDE DEF x, es, cs
    <2>5. w.down \in Seq(Downward) /\ v.down \in Seq(Downward)
      BY <2>3 DEF Wire, Link
    <2>6. DataLess(w.down, v.down)
      <3>1. DataLess(w.down, w.down \o es)
        BY <2>1, <2>5, JoinedLess
      <3>2. DataLess(w.down, w.down)
        BY DEF DataLess
      <3> QED
        BY <2>3, <3>1, <3>2
    <2>7. DataLess(v.down, x.down)
      <3>1. DataLess(v.down, v.down \o cs)
        BY <2>2, <2>5, JoinedLess
      <3>2. DataLess(v.down, v.down)
        BY DEF DataLess
      <3> QED
        BY <2>4, <3>1, <3>2
    <2>8. DataLess(w.down, x.down)
      <3>1. CASE NoData(v.down)
        BY <2>7, <3>1, NoDataLess DEF DataLess
      <3>2. CASE NoData(x.down)
        BY <3>2 DEF DataLess
      <3>3. CASE ~NoData(v.down) /\ ~NoData(x.down)
        BY <2>6, <2>7, <3>3 DEF DataLess
      <3> QED
        BY <3>1, <3>2, <3>3
    <2>9. w.client # "none"
      BY <1>2 DEF NewConn
    <2>10. Quieter(w, x)
      BY <2>4, <2>8, <2>9 DEF Quieter, IsLive, AskedLess
    <2> QED
      BY <2>4, <2>10 DEF x, v, es
  <1> QED
    BY <1>1, <1>2

LEMMA ServerClosedQuieter ==
  ASSUME NEW w \in Wire, w.client # "none", ServerClosable(w)
  PROVE  ServerClosed(w) \in Wire /\ Quieter(w, ServerClosed(w))
  <1> DEFINE x == ServerClosed(w)
             ms == <<CloseFrame(Head(w.up).code)>>
  <1>1. w.server = "open" /\ ~w.cut => Head(w.up).code \in Nat
    <2>1. SUFFICES ASSUME HeadIs(w.up, "close") PROVE Head(w.up).code \in Nat
      BY DEF ServerClosable
    <2>2. w.up \in Seq(Upward) /\ w.up # <<>> /\ Head(w.up).type = "close"
      BY <2>1 DEF Wire, Link, HeadIs
    <2>3. Head(w.up) \in Upward
      BY <2>2, TailQueue
    <2> QED
      BY <2>2, <2>3, FrameTypes
  <1>2. /\ x \in Wire /\ x.server = "closed" /\ x.client = w.client
        /\ x.cut = w.cut /\ x.up = <<>>
        /\ x.down = IF w.server = "open" /\ ~w.cut /\ w.client # "closed"
                    THEN w.down \o ms ELSE w.down
    BY <1>1, CloseIsDown, ServerClosedLink DEF Wire
  <1> HIDE DEF x
  <1>3. DataLess(w.down, x.down)
    <2>1. CASE w.server = "open" /\ ~w.cut /\ w.client # "closed"
      <3>1. ms \in Seq(Downward) /\ NoData(ms)
        BY <1>1, <2>1, CloseIsDown, OneFrame
      <3>2. w.down \in Seq(Downward)
        BY DEF Wire, Link
      <3> HIDE DEF ms
      <3> QED
        BY <1>2, <2>1, <3>1, <3>2, JoinedLess
    <2>2. CASE ~(w.server = "open" /\ ~w.cut /\ w.client # "closed")
      BY <1>2, <2>2 DEF DataLess
    <2> QED
      BY <2>1, <2>2
  <1>4. AskedLess(w.up, x.up)
    BY <1>2 DEF AskedLess, Asked
  <1>5. Quieter(w, x)
    BY <1>2, <1>3, <1>4 DEF Quieter, IsLive
  <1> QED
    BY <1>2, <1>5 DEF x

-----------------------------------------------------------------------------
(***************************************************************************)
(* The operations that take a connection from stage to stage.              *)
(***************************************************************************)

\* The upgrade is answered.
LEMMA StageAccepted ==
  ASSUME NEW w \in Wire, w.client = "connecting", w.server = "none", ~w.cut,
         NEW last, NEW n, NEW A, NEW F, StageOf(w, last, n, A, F),
         NEW protocol \in Protocols,
         NEW x, x = [Down(w, <<Accept(protocol)>>) EXCEPT !.server = "open"]
  PROVE  x \in Wire /\ x.client = w.client /\ StageOf(x, last, n, A, F)
  <1> DEFINE f == Accept(protocol)
             ms == <<f>>
             d == Down(w, ms)
  <1>1. f \in Downward /\ ~SceneData(f)
    BY DEF Accept, Downward, Accepts, SceneData
  <1> HIDE DEF f
  <1>2. ms \in Seq(Downward) /\ NoData(ms) /\ Len(ms) = 1
    BY <1>1, OneFrame
  <1> HIDE DEF ms
  <1>3. Untouched(w, A, F) /\ w.down = <<>>
    BY DEF StageOf
  <1>4. d \in Wire /\ SameButDown(w, d) /\ d.down = w.down \o ms
    <2>1. w \in Wire /\ ms \in Seq(Downward)
      BY <1>2
    <2>2. /\ d \in Wire /\ SameButDown(w, d)
          /\ d.down = IF w.cut THEN w.down ELSE w.down \o ms
      BY <2>1, DownWire
    <2> QED
      BY <2>2
  <1>5. d.down = ms
    BY <1>2, <1>3, <1>4, ConcatEmptySeq
  <1>6. x = [d EXCEPT !.server = "open"]
    BY DEF d, ms, f
  <1> HIDE DEF d
  <1>7. x \in Wire /\ x.client = w.client /\ x.up = w.up /\ x.down = ms /\ x.server = "open"
    BY <1>4, <1>5, <1>6 DEF Wire, Link, ServerStates, SameButDown
  <1>8. StageOf(x, last, n, A, F)
    <2>1. x.down = ms /\ x.up = w.up
      BY <1>7
    <2>2. Untouched(x, A, F)
      BY <1>2, <1>3, <2>1 DEF Untouched
    <2>3. Len(x.down) <= 1
      <3>1. Len(ms) <= 1
        BY <1>2
      <3> QED
        BY <2>1, <3>1, Zenon
    <2> QED
      BY <1>7, <2>2, <2>3 DEF StageOf
  <1> QED
    BY <1>7, <1>8

\* The socket opens, and subscribes past `since`.
LEMMA StageOpened ==
  ASSUME NEW w \in Wire, w.client = "connecting", HeadIs(w.down, "accept"),
         NEW last, NEW n, NEW A, NEW F, StageOf(w, last, n, A, F),
         NEW token \in Tokens \cup {None}, NEW since \in Nat,
         NEW v \in Wire, v.client = "open", v.server = w.server, v.up = w.up,
         v.down = Tail(w.down),
         NEW x, x = ClientSend(v, Subscribe(token, since))
  PROVE  x \in Wire /\ x.client = "open" /\ StageOf(x, since, n, A, F)
  <1> DEFINE m == Subscribe(token, since)
  <1>1. m \in Upward /\ m.type = "subscribe" /\ m.since = since
    BY DEF Subscribe, Upward, Requests
  <1> HIDE DEF m
  <1>2. Untouched(w, A, F) /\ w.down \in Seq(Downward) /\ w.down # <<>>
    BY DEF StageOf, HeadIs, Wire, Link
  <1>3. /\ Tail(w.down) \in Seq(Downward) /\ NoData(Tail(w.down))
        /\ w.server = "open" => Tail(w.down) = <<>>
    <2>1. NoData(w.down)
      BY <1>2 DEF Untouched
    <2>2. w.server = "open" => Len(w.down) <= 1
      BY DEF StageOf
    <2> QED
      BY <1>2, <2>1, <2>2, NoDataRead
  <1>5. /\ x \in Wire /\ SameButUp(v, x)
        /\ x.up = v.up \/ x.up = Append(v.up, m)
    <2>1. /\ ClientSend(v, m) \in Wire /\ SameButUp(v, ClientSend(v, m))
          /\ ClientSend(v, m).up = IF v.cut \/ v.server = "closed" \/ v.client # "open"
                                   THEN v.up ELSE Append(v.up, m)
      <3>1. v \in Link(Upward, Downward) /\ m \in Upward
        BY <1>1 DEF Wire
      <3>2. /\ ClientSend(v, m) \in Link(Upward, Downward) /\ SameButUp(v, ClientSend(v, m))
            /\ ClientSend(v, m).up = IF v.cut \/ v.server = "closed" \/ v.client # "open"
                                     THEN v.up ELSE Append(v.up, m)
        BY <3>1, ClientSendLink
      <3> QED
        BY <3>2 DEF Wire
    <2>2. x = ClientSend(v, m)
      BY DEF m
    <2> QED
      BY <2>1, <2>2
  <1>6. w.up \in Seq(Upward) /\ Asked(w.up) = {}
    BY <1>2 DEF Wire, Link, Untouched
  <1>7. \A i \in Asked(x.up) : i = Len(w.up) + 1 /\ x.up[i] = m
    <2>1. CASE x.up = v.up
      BY <1>6, <2>1
    <2>2. CASE x.up = Append(v.up, m)
      <3>1. /\ Len(w.up) \in Nat /\ DOMAIN w.up = 1 .. Len(w.up)
            /\ DOMAIN x.up = 1 .. Len(w.up) + 1
            /\ \A i \in 1 .. Len(w.up) : x.up[i] = w.up[i]
            /\ x.up[Len(w.up) + 1] = m
        BY <1>1, <1>6, <2>2, AppendProperties, LenProperties
      <3> DEFINE u == w.up
                 y == x.up
      <3>2. Asked(u) = {} /\ DOMAIN u = 1 .. Len(u) /\ Len(u) \in Nat
        BY <1>6, <3>1
      <3>3. /\ DOMAIN y = 1 .. Len(u) + 1 /\ y[Len(u) + 1] = m
            /\ \A i \in 1 .. Len(u) : y[i] = u[i]
        BY <3>1
      <3> HIDE DEF u, y
      <3>4. \A i \in Asked(y) : i = Len(u) + 1 /\ y[i] = m
        BY <3>2, <3>3 DEF Asked
      <3> QED
        BY <3>4 DEF u, y
    <2> QED
      BY <1>5, <2>1, <2>2
  <1>8. Waiting(x, since, A, F)
    <2>1. x.down = Tail(w.down) /\ x.server = w.server
      BY <1>5 DEF SameButUp
    <2>2. A = {} /\ F = {}
      BY <1>2 DEF Untouched
    <2>3. /\ \A i, j \in Asked(x.up) : i = j
          /\ \A i \in Asked(x.up) : x.up[i].since = since
      BY <1>1, <1>7
    <2> QED
      BY <1>3, <2>1, <2>2, <2>3 DEF Waiting
  <1>9. x.client = "open"
    BY <1>5 DEF SameButUp
  <1> QED
    BY <1>5, <1>8, <1>9 DEF StageOf

\* The server takes the subscribe off the wire: it is p now.
LEMMA StageAsked ==
  ASSUME NEW w \in Wire, HeadIs(w.up, "subscribe"),
         NEW last, NEW n, NEW A, NEW F, StageOf(w, last, n, A, F),
         NEW p, p.since = Head(w.up).since,
         NEW x, x = [w EXCEPT !.up = Tail(@)]
  PROVE  x \in Wire /\ x.client = w.client /\ StageOf(x, last, n, A \cup {p}, F)
  <1>1. w.up \in Seq(Upward) /\ w.up # <<>> /\ Head(w.up).type = "subscribe"
    BY DEF HeadIs, Wire, Link
  <1>2. /\ Tail(w.up) \in Seq(Upward) /\ Len(w.up) \in Nat \ {0}
        /\ DOMAIN w.up = 1 .. Len(w.up) /\ DOMAIN Tail(w.up) = 1 .. Len(w.up) - 1
        /\ \A i \in DOMAIN Tail(w.up) : Tail(w.up)[i] = w.up[i + 1]
        /\ Head(w.up) = w.up[1]
    BY <1>1, TailQueue
  <1>3. /\ x \in Wire /\ x.client = w.client /\ x.server = w.server
        /\ x.up = Tail(w.up) /\ x.down = w.down
    BY <1>2 DEF Wire, Link
  <1>4. 1 \in Asked(w.up)
    BY <1>1, <1>2 DEF Asked
  <1>5. w.client \in {"none", "connecting"} => FALSE
    BY <1>4 DEF StageOf, Untouched
  <1>6. ASSUME w.client = "open" PROVE Waiting(x, last, A \cup {p}, F)
    <2>1. Waiting(w, last, A, F)
      BY <1>4, <1>6 DEF StageOf, Streaming
    <2>2. A = {} /\ p.since = last
      BY <1>2, <1>4, <2>1 DEF Waiting
    <2>3. ASSUME NEW i \in Asked(x.up) PROVE FALSE
      <3>1. i \in DOMAIN Tail(w.up) /\ Tail(w.up)[i].type = "subscribe"
        BY <1>3, <2>3 DEF Asked
      <3>2. i \in Nat /\ i > 0 /\ i + 1 \in DOMAIN w.up /\ w.up[i + 1].type = "subscribe"
        BY <1>2, <3>1
      <3>3. i + 1 \in Asked(w.up)
        BY <3>2 DEF Asked
      <3>4. i + 1 = 1
        BY <1>4, <2>1, <3>3 DEF Waiting
      <3> QED
        BY <3>2, <3>4
    <2>4. Asked(x.up) = {}
      BY <2>3
    <2> QED
      BY <1>3, <2>1, <2>2, <2>4 DEF Waiting
  <1> QED
    BY <1>3, <1>5, <1>6 DEF StageOf

\* What a subscribe is answered with takes a tracker that is at `since` to the
\* scene's number.
LEMMA AnswerContent ==
  ASSUME NEW n \in Nat \ {0}, n = scenes[FirstScene].seq,
         Holds(scenes[FirstScene].replay, n), NEW since \in Nat
  PROVE  LET q == Answer(FirstScene, since)
         IN  q \in Seq(Downward) /\ InStep(q, since, n) /\ Complete(q, since, n)
  <1> DEFINE s == FirstScene
             q == Answer(s, since)
  <1>1. CASE Resumable(s, since)
    <2>1. since \in 1 .. n /\ Covered(scenes[s].replay, since)
      BY <1>1 DEF Resumable
    <2>2. Missed(scenes[s].replay, since) = [i \in 1 .. n - since |-> since + i]
      <3> DEFINE ring == scenes[s].replay
      <3>1. n \in Nat \ {0} /\ Holds(ring, n) /\ since \in 1 .. n /\ Covered(ring, since)
        BY <2>1
      <3> HIDE DEF ring
      <3>2. Missed(ring, since) = [i \in 1 .. n - since |-> since + i]
        BY <3>1, MissedContent
      <3> QED
        BY <3>2 DEF ring
    <2> DEFINE missed == Missed(scenes[s].replay, since)
               m == n - since
    <2>3. m \in Nat /\ \A i \in 1 .. m : since + i \in Nat \ {0}
      BY <2>1
    <2>4. missed \in Seq(Nat) /\ Len(missed) = m /\ \A i \in 1 .. m : missed[i] = since + i
      BY <2>2, <2>3
    <2>5. q = [i \in 1 .. Len(missed) |-> Delta(s, missed[i])]
      BY <1>1 DEF Answer
    <2> HIDE DEF missed, q, m
    <2>6. q = [i \in 1 .. m |-> Delta(s, since + i)]
      BY <2>4, <2>5
    <2>7. \A i \in 1 .. m : Delta(s, since + i) \in Downward
      BY <2>3 DEF Delta, Downward, Datas
    <2>8. q \in Seq(Downward) /\ Len(q) = m /\ DOMAIN q = 1 .. m
      BY <2>3, <2>6, <2>7
    <2>9. \A i \in 1 .. m : q[i].seq = since + i /\ q[i].type = "delta" /\ SceneData(q[i])
      BY <2>6 DEF Delta, SceneData
    <2>10. Base(q, since) = since
      <3>1. CASE q = <<>>
        BY <3>1 DEF Base
      <3>2. CASE q # <<>>
        <4>1. 1 \in 1 .. m
          BY <2>3, <2>8, <3>2, QueueShape
        <4> QED
          BY <2>9, <4>1 DEF Base
      <3> QED
        BY <3>1, <3>2
    <2>11. since # Fresh
      BY <2>1 DEF Fresh
    <2>12. \A i \in 1 .. m : since + i <= n
      BY <2>1, <2>3 DEF m
    <2>13. InStep(q, since, n)
      BY <2>3, <2>8, <2>9, <2>10, <2>11, <2>12 DEF InStep
    <2>14. since + m = n
      BY <2>1 DEF m
    <2>15. Complete(q, since, n)
      BY <2>8, <2>9, <2>10, <2>11, <2>14 DEF Complete
    <2> QED
      BY <2>8, <2>13, <2>15 DEF q
  <1>2. CASE ~Resumable(s, since)
    <2> DEFINE f == Snapshot(s, n)
    <2>1. q = <<f>>
      BY <1>2 DEF Answer
    <2>2. f \in Downward /\ f.seq = n /\ f.type = "snapshot" /\ SceneData(f)
      BY DEF Snapshot, Downward, Datas, SceneData
    <2> HIDE DEF f, q
    <2>3. q \in Seq(Downward) /\ Len(q) = 1 /\ q[1] = f /\ DOMAIN q = {1} /\ q # <<>>
      BY <2>1, <2>2
    <2>4. Base(q, since) = n - 1
      BY <2>2, <2>3 DEF Base
    <2>5. InStep(q, since, n)
      BY <2>2, <2>3, <2>4 DEF InStep
    <2>6. Complete(q, since, n)
      BY <2>2, <2>3, <2>4 DEF Complete
    <2> QED
      BY <2>3, <2>5, <2>6 DEF q
  <1> QED
    BY <1>1, <1>2

\* A subscribe that is being authenticated is the connection's only one, and
\* asks from where the tracker is.
LEMMA AwaitedStage ==
  ASSUME NEW w, NEW last, NEW n, NEW A, NEW F, StageOf(w, last, n, A, F), NEW p \in A
  PROVE  /\ w.client \notin {"none", "connecting"}
         /\ w.client = "open" => p.since = last /\ Waiting(w, last, A, F)
  <1>1. A # {}
    OBVIOUS
  <1>2. w.client \notin {"none", "connecting"}
    BY <1>1 DEF StageOf, Untouched
  <1>3. w.client = "open" => Waiting(w, last, A, F)
    BY <1>1 DEF StageOf, Streaming
  <1> QED
    BY <1>2, <1>3 DEF Waiting

\* It is answered, and the connection is fed by l from then on.
LEMMA StageServed ==
  ASSUME NEW w \in Wire, NEW last \in Nat, NEW n, NEW A, NEW F,
         StageOf(w, last, n, A, F), NEW p \in A, NEW l,
         NEW q \in Seq(Downward),
         p.since = last => InStep(q, last, n) /\ Complete(q, last, n)
  PROVE  LET x == ServerSend(w, q)
         IN  x \in Wire /\ x.client = w.client
             /\ StageOf(x, last, n, A \ {p}, F \cup {l})
  <1> DEFINE x == ServerSend(w, q)
  <1>1. /\ x \in Wire /\ SameButDown(w, x)
        /\ x.down = IF w.server = "open" /\ w.client \notin {"closing", "closed"} /\ ~w.cut
                    THEN w.down \o q ELSE w.down
    BY ServerSendLink DEF Wire
  <1> HIDE DEF x
  <1>2. w.client \notin {"none", "connecting"}
    BY AwaitedStage
  <1>3. x.client = w.client
    BY <1>1 DEF SameButDown
  <1>4. ASSUME w.client = "open" PROVE Streaming(x, last, n, A \ {p}, F \cup {l})
    <2>1. Waiting(w, last, A, F) /\ p.since = last
      BY <1>4, AwaitedStage
    <2>2. /\ A \ {p} = {} /\ F = {} /\ Asked(w.up) = {} /\ NoData(w.down)
          /\ w.server = "open" => w.down = <<>>
      BY <2>1 DEF Waiting
    <2>3. Asked(x.up) = {}
      BY <1>1, <2>2 DEF SameButDown
    <2>4. CASE IsLive(w)
      <3>1. x.down = w.down \o q /\ w.down = <<>>
        BY <1>1, <1>4, <2>2, <2>4 DEF IsLive
      <3>2. x.down = q
        BY <3>1, ConcatEmptySeq
      <3> QED
        BY <2>1, <2>2, <2>3, <3>2 DEF Streaming
    <2>5. CASE ~IsLive(w)
      <3>1. x.down = w.down /\ ~IsLive(x)
        BY <1>1, <2>5 DEF IsLive, SameButDown
      <3>2. InStep(x.down, last, n)
        BY <2>2, <3>1, NoDataInStep
      <3> QED
        BY <2>2, <2>3, <3>1, <3>2 DEF Streaming
    <2> QED
      BY <2>4, <2>5
  <1>5. StageOf(x, last, n, A \ {p}, F \cup {l})
    BY <1>2, <1>3, <1>4 DEF StageOf
  <1> QED
    BY <1>1, <1>3, <1>5 DEF x

\* An update is sent once to every listener, so once or not at all.
LEMMA StageUpdated ==
  ASSUME NEW w \in Wire, NEW last \in Nat, NEW n \in Nat, NEW A, NEW F,
         StageOf(w, last, n, A, F)
  PROVE  LET x == ServerSend(w, [i \in 1 .. Cardinality(F) |-> Delta(FirstScene, n + 1)])
         IN  x \in Wire /\ x.client = w.client /\ StageOf(x, last, n + 1, A, F)
  <1> DEFINE f == Delta(FirstScene, n + 1)
             ms == [i \in 1 .. Cardinality(F) |-> f]
             x == ServerSend(w, ms)
  <1>1. CASE w.client \in {"closing", "closed"}
    <2>1. x = w
      BY <1>1 DEF ServerSend
    <2> QED
      BY <1>1, <2>1, StageEnded
  <1>2. CASE w.client \notin {"closing", "closed"} /\ F = {}
    <2>1. ms = <<>>
      BY <1>2, FS_EmptySet
    <2> HIDE DEF ms
    <2>2. ms \in Seq(Downward)
      BY <2>1, EmptySeq
    <2>3. /\ x \in Wire /\ SameButDown(w, x)
          /\ x.down = IF w.server = "open" /\ w.client \notin {"closing", "closed"} /\ ~w.cut
                      THEN w.down \o ms ELSE w.down
      BY <2>2, ServerSendLink DEF Wire
    <2> HIDE DEF x
    <2>4. w.down \in Seq(Downward)
      BY DEF Wire, Link
    <2>5. x.down = w.down
      BY <2>1, <2>3, <2>4, ConcatEmptySeq
    <2>6. /\ x.client = w.client /\ x.server = w.server /\ x.up = w.up
          /\ w = NewConn => x = NewConn
      <3>1. x = w
        BY <2>3, <2>5 DEF SameButDown, Wire, Link
      <3> QED
        BY <3>1
    <2>7. Untouched(w, A, F) => Untouched(x, A, F)
      BY <2>5, <2>6 DEF Untouched
    <2>8. Waiting(w, last, A, F) => Waiting(x, last, A, F)
      BY <2>5, <2>6 DEF Waiting
    <2>9. Streaming(w, last, n, A, F) => Streaming(x, last, n + 1, A, F)
      <3>1. n + 1 \in Nat /\ n <= n + 1
        OBVIOUS
      <3>2. InStep(w.down, last, n) => InStep(w.down, last, n + 1)
        BY <2>4, <3>1, InStepLater
      <3> QED
        BY <1>2, <2>5, <2>6, <3>2 DEF Streaming
    <2>10. StageOf(x, last, n + 1, A, F)
      BY <2>5, <2>6, <2>7, <2>8, <2>9 DEF StageOf
    <2> QED
      BY <2>3, <2>6, <2>10 DEF x, ms
  <1>3. CASE w.client \notin {"closing", "closed"} /\ F # {}
    <2>1. w.client = "open" /\ Streaming(w, last, n, A, F)
      <3>1. w.client \in EndStates
        BY DEF Wire, Link
      <3> QED
        BY <1>3, <3>1 DEF StageOf, Untouched, Waiting, EndStates
    <2>2. Cardinality(F) = 1
      <3>1. PICK l \in F : TRUE
        BY <1>3
      <3>2. F = {l}
        BY <2>1, <3>1 DEF Streaming
      <3> QED
        BY <3>2, FS_Singleton
    <2>3. ms = <<f>>
      BY <2>2
    <2>4. w.down \in Seq(Downward)
      BY DEF Wire, Link
    <2>5. f \in Downward
      BY DEF Delta, Downward, Datas
    <2> HIDE DEF f, ms
    <2>6. ms \in Seq(Downward)
      BY <2>3, <2>5
    <2>7. /\ x \in Wire /\ SameButDown(w, x)
          /\ x.down = IF w.server = "open" /\ w.client \notin {"closing", "closed"} /\ ~w.cut
                      THEN w.down \o ms ELSE w.down
      BY <2>6, ServerSendLink DEF Wire
    <2> HIDE DEF x
    <2>8. InStep(w.down, last, n) /\ (IsLive(w) => Complete(w.down, last, n))
      BY <1>3, <2>1 DEF Streaming
    <2>9. CASE IsLive(w)
      <3>1. x.down = w.down \o <<f>>
        BY <2>1, <2>3, <2>7, <2>9 DEF IsLive
      <3>2. InStep(x.down, last, n + 1) /\ Complete(x.down, last, n + 1)
        BY <2>4, <2>8, <2>9, <3>1, UpdateJoined DEF f
      <3>3. Streaming(x, last, n + 1, A, F)
        BY <2>1, <2>7, <3>2 DEF Streaming, SameButDown
      <3> QED
        BY <2>1, <2>7, <3>3 DEF StageOf, SameButDown, x, ms, f
    <2>10. CASE ~IsLive(w)
      <3>1. x.down = w.down /\ ~IsLive(x)
        BY <2>7, <2>10 DEF IsLive, SameButDown
      <3>2. InStep(x.down, last, n + 1)
        <4>1. n + 1 \in Nat /\ n <= n + 1
          OBVIOUS
        <4> QED
          BY <2>4, <2>8, <3>1, <4>1, InStepLater
      <3>3. Streaming(x, last, n + 1, A, F)
        BY <2>1, <2>7, <3>1, <3>2 DEF Streaming, SameButDown
      <3> QED
        BY <2>1, <2>7, <3>3 DEF StageOf, SameButDown, x, ms, f
    <2> QED
      BY <2>9, <2>10
  <1> QED
    BY <1>1, <1>2, <1>3

\* Scene data is read: it rebases the tracker or takes it one number on.
LEMMA StageRead ==
  ASSUME NEW w \in Wire, w.client = "open", NEW last \in Nat, NEW n \in Nat, NEW A, NEW F,
         StageOf(w, last, n, A, F), w.down # <<>>, SceneData(Head(w.down)),
         NEW x, x = [w EXCEPT !.down = Tail(@)]
  PROVE  /\ Head(w.down).seq \in 1 .. n /\ Head(w.down).scene = FirstScene
         /\ Head(w.down).type = "delta" => last # Fresh /\ Head(w.down).seq = last + 1
         /\ x \in Wire /\ x.client = "open"
         /\ StageOf(x, Head(w.down).seq, n, A, F)
  <1> DEFINE q == w.down
             s == Head(q).seq
  <1>1. /\ q \in Seq(Downward) /\ Tail(q) \in Seq(Downward)
        /\ Head(q) \in Downward /\ Head(q) = q[1] /\ 1 \in DOMAIN q
    <2>1. q \in Seq(Downward)
      BY DEF Wire, Link
    <2> HIDE DEF q
    <2>2. q # <<>> /\ Len(q) \in Nat \ {0} /\ DOMAIN q = 1 .. Len(q)
      BY <2>1, TailQueue DEF q
    <2> QED
      BY <2>1, <2>2, TailQueue
  <1>2. Streaming(w, last, n, A, F)
    <2>1. ~NoData(q)
      BY <1>1 DEF NoData
    <2> QED
      BY <2>1 DEF StageOf, Waiting
  <1>3. /\ s \in 1 .. n
        /\ Head(q).type = "delta" => last # Fresh /\ s = last + 1
        /\ InStep(Tail(q), s, n)
        /\ Complete(q, last, n) => Complete(Tail(q), s, n)
    <2>1. InStep(q, last, n) /\ q # <<>> /\ SceneData(Head(q))
      BY <1>2 DEF Streaming
    <2> HIDE DEF q
    <2> QED
      BY <1>1, <2>1, DataRead
  <1>4. Head(q).scene = FirstScene
    BY <1>1, FrameTypes
  <1>5. /\ x \in Wire /\ x.client = "open" /\ x.server = w.server /\ x.cut = w.cut
        /\ x.up = w.up /\ x.down = Tail(q)
    BY <1>1 DEF Wire, Link
  <1>6. Streaming(x, s, n, A, F)
    BY <1>2, <1>3, <1>5 DEF Streaming, IsLive
  <1> QED
    BY <1>3, <1>4, <1>5, <1>6 DEF StageOf

-----------------------------------------------------------------------------
(***************************************************************************)
(* The steps of the server and of the network, during which the client     *)
(* stands still.                                                           *)
(***************************************************************************)

LEMMA SessionInit == Init => SessionInv
  <1> SUFFICES ASSUME Init PROVE SessionInv
    OBVIOUS
  <1>1. /\ conn = [c \in Conns |-> NewConn] /\ auths = {} /\ activeScene = FirstScene
        /\ DOMAIN scenes = Scenes
        /\ scenes[FirstScene] = [seq |-> 1, replay |-> EmptyRing, listeners |-> {}]
    BY ServerAssumption DEF Init, ServerInit
  <1>2. /\ client = [active |-> TRUE, status |-> "disconnected", socket |-> None,
                     token |-> FirstToken, timer |-> FALSE, last |-> Fresh, attempt |-> 0]
        /\ opening = [t \in Tokens |-> 0] /\ resolved = [c \in Conns |-> None]
        /\ view = {}
    BY DEF Init, ClientInit
  <1> HIDE DEF Init
  <1>3. NewConn \in Wire /\ NewConn.client = "none"
    <2>1. <<>> \in Seq(Upward) /\ <<>> \in Seq(Downward)
      OBVIOUS
    <2> QED
      BY <2>1 DEF NewConn, Wire, Link, EndStates, ServerStates
  <1>4. SceneOK /\ Current = 1 /\ scenes[FirstScene].listeners = {}
    <2>1. /\ scenes[FirstScene].seq = 1 /\ scenes[FirstScene].replay = EmptyRing
          /\ scenes[FirstScene].listeners = {}
          /\ DOMAIN scenes[FirstScene] = {"seq", "replay", "listeners"}
      BY <1>1
    <2>2. Current = 1 /\ Holds(scenes[FirstScene].replay, Current)
      BY <2>1, EmptyHolds DEF Current
    <2> QED
      BY <1>1, <2>1, <2>2 DEF SceneOK
  <1>5. ClientOK
    BY <1>2, SessionAssumption DEF ClientOK, Objects, Fresh
  <1>6. Single
    BY <1>1, <1>2, <1>3 DEF Single
  <1>7. Shown
    <2>1. view = Content(FirstScene, 0) /\ client.last = Fresh
      BY <1>2 DEF Content
    <2> QED
      BY <1>4, <2>1 DEF Shown
  <1>8. ASSUME NEW c \in Conns PROVE Stage(c)
    <2>1. conn[c] = NewConn /\ Awaited(c) = {} /\ Feeds(c) = {}
      BY <1>1, <1>4 DEF Awaited, Feeds
    <2>2. Untouched(NewConn, {}, {})
      BY DEF Untouched, Asked, NoData, NewConn
    <2>3. StageOf(NewConn, client.last, Current, {}, {})
      BY <1>3, <2>2 DEF StageOf
    <2> QED
      BY <2>1, <2>3 DEF Stage
  <1> QED
    BY <1>1, <1>3, <1>4, <1>5, <1>6, <1>7, <1>8 DEF SessionInv

LEMMA ServerSide ==
  ASSUME SessionInv, UNCHANGED clientVars,
         conn' \in [Conns -> Wire],
         \A c \in Conns : conn'[c].client = conn[c].client,
         SceneOK', Current <= Current',
         \A c \in Conns : Stage(c)'
  PROVE  SessionInv'
  <1>1. client' = client /\ opening' = opening /\ resolved' = resolved /\ view' = view
    BY DEF clientVars
  <1>2. ClientOK'
    BY <1>1 DEF SessionInv, ClientOK
  <1>3. Single'
    BY <1>1 DEF SessionInv, Single, ClientOK, Objects
  <1>4. Shown'
    <2>1. Current \in Nat /\ Current' \in Nat
      BY DEF SessionInv, SceneOK
    <2>2. PICK n \in 0 .. Current :
             view = Content(FirstScene, n) /\ (client.last # Fresh => client.last = n)
      BY DEF SessionInv, Shown
    <2>3. n \in 0 .. Current'
      BY <2>1, <2>2
    <2> QED
      BY <1>1, <2>2, <2>3 DEF Shown
  <1> QED
    BY <1>2, <1>3, <1>4 DEF SessionInv

\* Nothing is sent but what makes links quieter, and nobody is fed who was not.
LEMMA QuietSide ==
  ASSUME SessionInv, UNCHANGED clientVars,
         conn' \in [Conns -> Wire], \A c \in Conns : Quieter(conn[c], conn'[c]),
         SceneOK', Current' = Current,
         auths' \subseteq auths,
         scenes'[FirstScene].listeners \subseteq scenes[FirstScene].listeners
  PROVE  SessionInv'
  <1>1. client' = client
    BY DEF clientVars
  <1>2. ASSUME NEW c \in Conns PROVE Stage(c)' /\ conn'[c].client = conn[c].client
    <2>1. conn[c] \in Wire /\ conn'[c] \in Wire /\ Quieter(conn[c], conn'[c])
      BY DEF SessionInv
    <2>2. Awaited(c)' \subseteq Awaited(c) /\ Feeds(c)' \subseteq Feeds(c)
      BY DEF Awaited, Feeds
    <2>3. StageOf(conn[c], client.last, Current, Awaited(c), Feeds(c))
      BY DEF SessionInv, Stage
    <2>4. StageOf(conn'[c], client.last, Current, Awaited(c)', Feeds(c)')
      BY <2>1, <2>2, <2>3, StageQuieter
    <2> QED
      BY <1>1, <2>1, <2>4 DEF Stage, Quieter
  <1>3. Current <= Current'
    BY DEF SessionInv, SceneOK
  <1> QED
    BY <1>2, <1>3, ServerSide

\* The same when only the link of c changes.
LEMMA QuietLink ==
  ASSUME SessionInv, UNCHANGED clientVars, NEW c \in Conns,
         NEW x \in Wire, Quieter(conn[c], x), conn' = [conn EXCEPT ![c] = x],
         UNCHANGED <<scenes, activeScene>>, auths' \subseteq auths
  PROVE  SessionInv'
  <1>1. conn \in [Conns -> Wire]
    BY DEF SessionInv
  <1>2. conn' \in [Conns -> Wire] /\ \A d \in Conns : Quieter(conn[d], conn'[d])
    BY <1>1, QuieterItself
  <1>3. SceneOK' /\ Current' = Current
    BY DEF SessionInv, SceneOK, Current
  <1> QED
    BY <1>2, <1>3, QuietSide

\* sub.unsubscribePatches() takes listeners off and does nothing else.
LEMMA UnsubscribedScenes ==
  ASSUME SceneOK, NEW C, scenes' = Unsubscribed(C), UNCHANGED <<activeScene, auths>>
  PROVE  /\ SceneOK' /\ Current' = Current
         /\ scenes'[FirstScene].listeners \subseteq scenes[FirstScene].listeners
  <1> DEFINE gone == { sub[c].unsubscribe.listener : c \in
                         { d \in C : sub[d].unsubscribe # None
                                      /\ sub[d].unsubscribe.scene = FirstScene } }
             s == scenes[FirstScene]
  <1>1. DOMAIN scenes' = Scenes
    BY DEF Unsubscribed
  <1>2. scenes'[FirstScene] = [s EXCEPT !.listeners = @ \ gone]
    BY ServerAssumption DEF Unsubscribed
  <1>3. DOMAIN s = {"seq", "replay", "listeners"}
    BY DEF SceneOK
  <1> HIDE DEF gone
  <1>4. /\ DOMAIN scenes'[FirstScene] = DOMAIN s
        /\ scenes'[FirstScene].seq = s.seq /\ scenes'[FirstScene].replay = s.replay
        /\ scenes'[FirstScene].listeners = s.listeners \ gone
    BY <1>2, <1>3
  <1>5. Current' = Current
    BY <1>4 DEF Current
  <1>6. SceneOK'
    BY <1>1, <1>4, <1>5 DEF SceneOK
  <1> QED
    BY <1>4, <1>5, <1>6

\* A link that is only asked to close or is new.
LEMMA StageNone ==
  ASSUME SessionInv, NEW c \in Conns
  PROVE  conn[c] \in Wire /\ (conn[c].client = "none" => conn[c] = NewConn)
  BY DEF SessionInv, Stage, StageOf

LEMMA CutKeeps ==
  ASSUME SessionInv, NEW c \in Conns, Cut(c), UNCHANGED <<serverVars, clientVars>>
  PROVE  SessionInv'
  <1> DEFINE x == Severed(conn[c])
  <1>1. conn[c] \in Wire /\ (conn[c].client = "none" => conn[c] = NewConn)
    BY StageNone
  <1>2. conn[c].client # "none"
    BY <1>1 DEF Cut, NewConn
  <1>3. x \in Wire /\ Quieter(conn[c], x)
    BY <1>1, <1>2, SeveredQuieter
  <1>4. /\ conn' = [conn EXCEPT ![c] = x] /\ UNCHANGED clientVars
        /\ UNCHANGED <<scenes, activeScene>> /\ auths' \subseteq auths
    BY DEF Cut, serverVars
  <1> HIDE DEF x
  <1> QED
    BY <1>3, <1>4, QuietLink

LEMMA RefuseConnectionKeeps ==
  ASSUME SessionInv, NEW c \in Conns, RefuseConnection(c), UNCHANGED clientVars
  PROVE  SessionInv'
  <1> DEFINE x == Severed(conn[c])
  <1>1. conn[c] \in Wire /\ conn[c].client # "none"
    BY StageNone DEF RefuseConnection
  <1>2. x \in Wire /\ Quieter(conn[c], x)
    BY <1>1, SeveredQuieter
  <1>3. /\ conn' = [conn EXCEPT ![c] = x]
        /\ UNCHANGED <<scenes, activeScene>> /\ auths' \subseteq auths
    BY DEF RefuseConnection, serverVars
  <1> HIDE DEF x
  <1> QED
    BY <1>2, <1>3, QuietLink

LEMMA AcceptConnectionKeeps ==
  ASSUME SessionInv, NEW c \in Conns, AcceptConnection(c), UNCHANGED clientVars
  PROVE  SessionInv'
  <1> DEFINE protocol == IF "lsdp.v1.1" \in Offers THEN "lsdp.v1.1" ELSE "lsdp.v1"
             x == [Down(conn[c], <<Accept(protocol)>>) EXCEPT !.server = "open"]
  <1>1. /\ conn[c] \in Wire /\ conn[c].client = "connecting" /\ conn[c].server = "none"
        /\ ~conn[c].cut
    BY StageNone DEF AcceptConnection
  <1>2. /\ conn' = [conn EXCEPT ![c] = x] /\ client' = client
        /\ scenes' = scenes /\ activeScene' = activeScene /\ auths' = auths
    BY DEF AcceptConnection, clientVars
  <1>3. protocol \in Protocols
    BY DEF Protocols
  <1>4. StageOf(conn[c], client.last, Current, Awaited(c), Feeds(c))
    BY DEF SessionInv, Stage
  <1> HIDE DEF protocol
  <1>5. /\ x \in Wire /\ x.client = conn[c].client
        /\ StageOf(x, client.last, Current, Awaited(c), Feeds(c))
    BY <1>1, <1>3, <1>4, StageAccepted
  <1> HIDE DEF x
  <1>6. conn \in [Conns -> Wire]
    BY DEF SessionInv
  <1>7. /\ conn' \in [Conns -> Wire] /\ conn'[c] = x
        /\ \A d \in Conns \ {c} : conn'[d] = conn[d]
    BY <1>2, <1>5, <1>6
  <1>8. /\ SceneOK' /\ Current' = Current
        /\ \A d \in Conns : Awaited(d)' = Awaited(d) /\ Feeds(d)' = Feeds(d)
    BY <1>2 DEF SessionInv, SceneOK, Current, Awaited, Feeds
  <1>9. ASSUME NEW d \in Conns PROVE Stage(d)' /\ conn'[d].client = conn[d].client
    <2>1. CASE d = c
      BY <1>2, <1>5, <1>7, <1>8, <2>1 DEF Stage
    <2>2. CASE d # c
      BY <1>2, <1>7, <1>8, <2>2 DEF SessionInv, Stage
    <2> QED
      BY <2>1, <2>2
  <1>10. Current <= Current'
    BY <1>8 DEF SessionInv, SceneOK
  <1> QED
    BY <1>7, <1>8, <1>9, <1>10, ServerSide

LEMMA OnServerCloseKeeps ==
  ASSUME SessionInv, NEW c \in Conns, OnServerClose(c), UNCHANGED clientVars
  PROVE  SessionInv'
  <1> DEFINE x == ServerClosed(conn[c])
  <1>1. conn[c] \in Wire /\ (conn[c].client = "none" => conn[c] = NewConn)
    BY StageNone
  <1>2. conn[c].client # "none" /\ ServerClosable(conn[c])
    BY <1>1 DEF OnServerClose, ServerClosable, NewConn
  <1>3. x \in Wire /\ Quieter(conn[c], x)
    BY <1>1, <1>2, ServerClosedQuieter
  <1>4. /\ conn' = [conn EXCEPT ![c] = x]
        /\ scenes' = Unsubscribed({c}) /\ UNCHANGED <<activeScene, auths>>
    BY DEF OnServerClose
  <1> HIDE DEF x
  <1>5. conn \in [Conns -> Wire] /\ SceneOK
    BY DEF SessionInv
  <1>6. conn' \in [Conns -> Wire] /\ \A d \in Conns : Quieter(conn[d], conn'[d])
    BY <1>3, <1>4, <1>5, QuieterItself
  <1>7. /\ SceneOK' /\ Current' = Current
        /\ scenes'[FirstScene].listeners \subseteq scenes[FirstScene].listeners
    BY <1>4, <1>5, UnsubscribedScenes
  <1>8. auths' \subseteq auths
    BY <1>4
  <1> QED
    BY <1>6, <1>7, <1>8, QuietSide

LEMMA ResetKeeps ==
  ASSUME SessionInv, Reset, UNCHANGED clientVars
  PROVE  SessionInv'
  <1>1. /\ scenes' = Unsubscribed(subs) /\ UNCHANGED <<activeScene, auths>>
        /\ conn' = [c \in Conns |-> IF c \in subs THEN ServerClose(conn[c], 1012) ELSE conn[c]]
    BY DEF Reset, DetachAll
  <1>2. ASSUME NEW c \in Conns
        PROVE  conn'[c] \in Wire /\ Quieter(conn[c], conn'[c])
    <2>1. conn[c] \in Wire /\ (conn[c].client = "none" => conn[c] = NewConn)
      BY StageNone
    <2>2. ServerClose(conn[c], 1012) \in Wire /\ Quieter(conn[c], ServerClose(conn[c], 1012))
      BY <2>1, CloseQuieter
    <2>3. Quieter(conn[c], conn[c])
      BY <2>1, QuieterItself
    <2> QED
      BY <1>1, <2>1, <2>2, <2>3
  <1>3. conn' \in [Conns -> Wire]
    BY <1>1, <1>2
  <1>4. /\ SceneOK' /\ Current' = Current
        /\ scenes'[FirstScene].listeners \subseteq scenes[FirstScene].listeners
    BY <1>1, UnsubscribedScenes DEF SessionInv
  <1>5. auths' \subseteq auths
    BY <1>1
  <1> QED
    BY <1>2, <1>3, <1>4, <1>5, QuietSide

\* authenticate refused, or let in to a rejected scene: the same to the client.
Refused(w, code) == ServerClose(ServerSend(w, <<ErrorFrame(code, FALSE)>>), 1008)

LEMMA RefusalKeeps ==
  ASSUME SessionInv, UNCHANGED clientVars, NEW p \in auths,
         NEW code \in {"AUTH_DENIED", "INVALID_VALUE"},
         auths' = auths \ {p}, UNCHANGED <<scenes, activeScene>>,
         conn' = [conn EXCEPT ![p.conn] = Refused(conn[p.conn], code)]
  PROVE  SessionInv'
  <1>1. PICK c \in Conns : c = p.conn
    BY DEF SessionInv, SceneOK
  <1> DEFINE x == Refused(conn[c], code)
             f == ErrorFrame(code, FALSE)
  <1>2. conn[c] \in Wire /\ (conn[c].client = "none" => conn[c] = NewConn)
    BY StageNone
  <1>3. x \in Wire /\ Quieter(conn[c], x)
    <2>1. f \in Errors
      BY DEF ErrorFrame, Errors
    <2>2. x = ServerClose(ServerSend(conn[c], <<f>>), 1008)
      BY DEF Refused
    <2> HIDE DEF f, x
    <2> QED
      BY <1>2, <2>1, <2>2, RefusalQuieter
  <1>4. conn' = [conn EXCEPT ![c] = x] /\ auths' \subseteq auths
    BY <1>1
  <1> HIDE DEF x
  <1> QED
    BY <1>3, <1>4, QuietLink

LEMMA RecvSubscribeKeeps ==
  ASSUME SessionInv, NEW c \in Conns, RecvSubscribe(c), UNCHANGED clientVars
  PROVE  SessionInv'
  <1> DEFINE w == conn[c]
             x == [w EXCEPT !.up = Tail(@)]
             p == [conn |-> c, call |-> sub[c].subscribes + 1,
                   token |-> Head(w.up).token, since |-> Head(w.up).since]
  <1>1. /\ conn' = [conn EXCEPT ![c] = x] /\ client' = client
        /\ scenes' = scenes /\ activeScene' = activeScene /\ auths' = auths \cup {p}
        /\ HeadIs(w.up, "subscribe")
    BY DEF RecvSubscribe, RecvSubscribeAs, Receiving, Taken, clientVars
  <1>2. w \in Wire
    BY StageNone
  <1>3. p.conn = c /\ p.since = Head(w.up).since /\ p.since \in Nat
    <2>1. w.up \in Seq(Upward) /\ w.up # <<>> /\ Head(w.up).type = "subscribe"
      BY <1>1, <1>2 DEF Wire, Link, HeadIs
    <2> HIDE DEF w
    <2>2. Head(w.up) \in Upward
      BY <2>1, TailQueue
    <2> QED
      BY <2>1, <2>2, FrameTypes
  <1> HIDE DEF p
  <1>4. StageOf(w, client.last, Current, Awaited(c), Feeds(c))
    BY DEF SessionInv, Stage
  <1>5. /\ x \in Wire /\ x.client = w.client
        /\ StageOf(x, client.last, Current, Awaited(c) \cup {p}, Feeds(c))
    <2> HIDE DEF w
    <2> QED
      BY <1>1, <1>2, <1>3, <1>4, StageAsked
  <1> HIDE DEF x
  <1>6. conn \in [Conns -> Wire]
    BY DEF SessionInv
  <1>7. /\ conn' \in [Conns -> Wire] /\ conn'[c] = x
        /\ \A d \in Conns \ {c} : conn'[d] = conn[d]
    BY <1>1, <1>5, <1>6
  <1>8. /\ Current' = Current
        /\ \A d \in Conns : Feeds(d)' = Feeds(d)
        /\ Awaited(c)' = Awaited(c) \cup {p}
        /\ \A d \in Conns \ {c} : Awaited(d)' = Awaited(d)
    BY <1>1, <1>3 DEF Current, Awaited, Feeds
  <1>9. SceneOK'
    BY <1>1, <1>3, <1>8 DEF SessionInv, SceneOK
  <1>10. ASSUME NEW d \in Conns PROVE Stage(d)' /\ conn'[d].client = conn[d].client
    <2>1. CASE d = c
      BY <1>1, <1>5, <1>7, <1>8, <2>1 DEF Stage
    <2>2. CASE d # c
      BY <1>1, <1>7, <1>8, <2>2 DEF SessionInv, Stage
    <2> QED
      BY <2>1, <2>2
  <1>11. Current <= Current'
    BY <1>8 DEF SessionInv, SceneOK
  <1> QED
    BY <1>7, <1>9, <1>10, <1>11, ServerSide

LEMMA ServeSceneKeeps ==
  ASSUME SessionInv, NEW p, ServeScene(p), UNCHANGED clientVars
  PROVE  SessionInv'
  <1>1. PICK c \in Conns : c = p.conn
    BY DEF SessionInv, SceneOK, ServeScene
  <1> DEFINE w == conn[c]
             l == Listener(c, p.call)
             q == Answer(FirstScene, p.since)
             x == ServerSend(w, q)
             s == scenes[FirstScene]
  <1>2. /\ conn' = [conn EXCEPT ![c] = x] /\ client' = client
        /\ scenes' = [scenes EXCEPT ![FirstScene].listeners = @ \cup {l}]
        /\ activeScene' = activeScene /\ auths' = auths \ {p}
        /\ p \in auths
    <2>1. activeScene = FirstScene
      BY DEF SessionInv, SceneOK
    <2> QED
      BY <1>1, <2>1 DEF ServeScene, Served, clientVars
  <1>3. /\ Current \in Nat \ {0} /\ Holds(s.replay, Current) /\ p.since \in Nat
        /\ DOMAIN scenes = Scenes /\ DOMAIN s = {"seq", "replay", "listeners"}
        /\ FirstScene \in Scenes
    BY <1>2, ServerAssumption DEF SessionInv, SceneOK
  <1>4. client.last \in Nat
    BY DEF SessionInv, ClientOK, Objects
  <1>5. q \in Seq(Downward) /\ InStep(q, p.since, Current) /\ Complete(q, p.since, Current)
    <2>1. PICK n \in Nat \ {0} : n = scenes[FirstScene].seq /\ n = Current
      BY <1>3 DEF Current
    <2>2. q \in Seq(Downward) /\ InStep(q, p.since, n) /\ Complete(q, p.since, n)
      BY <1>3, <2>1, AnswerContent
    <2> QED
      BY <2>1, <2>2
  <1>6. w \in Wire /\ p \in Awaited(c)
        /\ StageOf(w, client.last, Current, Awaited(c), Feeds(c))
    BY <1>1, <1>2, StageNone DEF SessionInv, Stage, Awaited
  <1>7. l[1] = c
    BY DEF Listener
  <1> HIDE DEF q, w, l
  <1>8. /\ x \in Wire /\ x.client = w.client
        /\ StageOf(x, client.last, Current, Awaited(c) \ {p}, Feeds(c) \cup {l})
    BY <1>4, <1>5, <1>6, StageServed
  <1> HIDE DEF x
  <1>9. conn \in [Conns -> Wire]
    BY DEF SessionInv
  <1>10. /\ conn' \in [Conns -> Wire] /\ conn'[c] = x
         /\ \A d \in Conns \ {c} : conn'[d] = conn[d]
    BY <1>2, <1>8, <1>9
  <1>11. /\ DOMAIN scenes' = Scenes /\ DOMAIN scenes'[FirstScene] = DOMAIN s
         /\ scenes'[FirstScene].seq = s.seq /\ scenes'[FirstScene].replay = s.replay
         /\ scenes'[FirstScene].listeners = s.listeners \cup {l}
    <2>1. DOMAIN scenes' = Scenes
      BY <1>2, <1>3
    <2>2. scenes'[FirstScene] = [s EXCEPT !.listeners = @ \cup {l}]
      BY <1>2, <1>3
    <2> HIDE DEF s
    <2> QED
      BY <1>3, <2>1, <2>2
  <1>12. /\ Current' = Current
         /\ Feeds(c)' = Feeds(c) \cup {l} /\ Awaited(c)' = Awaited(c) \ {p}
         /\ \A d \in Conns \ {c} : Feeds(d)' = Feeds(d) /\ Awaited(d)' = Awaited(d)
    BY <1>1, <1>2, <1>7, <1>11 DEF Current, Feeds, Awaited
  <1>13. SceneOK'
    BY <1>2, <1>11, <1>12 DEF SessionInv, SceneOK
  <1>14. ASSUME NEW d \in Conns PROVE Stage(d)' /\ conn'[d].client = conn[d].client
    <2>1. CASE d = c
      BY <1>2, <1>8, <1>10, <1>12, <2>1 DEF Stage, w
    <2>2. CASE d # c
      BY <1>2, <1>10, <1>12, <2>2 DEF SessionInv, Stage
    <2> QED
      BY <2>1, <2>2
  <1>15. Current <= Current'
    BY <1>3, <1>12
  <1> QED
    BY <1>10, <1>13, <1>14, <1>15, ServerSide

LEMMA AuthenticatedKeeps ==
  ASSUME SessionInv, NEW p \in auths, Authenticated(p), UNCHANGED clientVars
  PROVE  SessionInv'
  <1>2. CASE AuthRefused(p)
    <2>1. conn' = [conn EXCEPT ![p.conn] = Refused(conn[p.conn], "AUTH_DENIED")]
      BY <1>2 DEF AuthRefused, Refused
    <2>2. auths' = auths \ {p} /\ UNCHANGED <<scenes, activeScene>>
      BY <1>2 DEF AuthRefused
    <2> QED
      BY <2>1, <2>2, RefusalKeeps
  <1>3. CASE RefuseScene(p)
    <2>1. conn' = [conn EXCEPT ![p.conn] = Refused(conn[p.conn], "INVALID_VALUE")]
      BY <1>3 DEF RefuseScene, Refused
    <2>2. auths' = auths \ {p} /\ UNCHANGED <<scenes, activeScene>>
      BY <1>3 DEF RefuseScene
    <2> QED
      BY <2>1, <2>2, RefusalKeeps
  <1>4. CASE ServeScene(p)
    BY <1>4, ServeSceneKeeps
  <1> QED
    BY <1>2, <1>3, <1>4 DEF Authenticated

LEMMA SceneUpdateKeeps ==
  ASSUME SessionInv, SceneUpdate(FirstScene), UNCHANGED clientVars
  PROVE  SessionInv' /\ Current' = Current + 1
  <1> DEFINE s == scenes[FirstScene]
             X(c) == ServerSend(conn[c], [i \in 1 .. Cardinality(Feeds(c)) |->
                                            Delta(FirstScene, Current + 1)])
  <1>1. /\ client' = client /\ activeScene' = activeScene /\ auths' = auths
        /\ scenes' = [scenes EXCEPT ![FirstScene].seq = @ + 1,
                                    ![FirstScene].replay = Pushed(@, s.seq + 1)]
        /\ conn' = Fanout(FirstScene, conn)
    BY DEF SceneUpdate, Emit, clientVars
  <1>2. \A c \in Conns : conn'[c] = X(c)
    BY <1>1 DEF Fanout, Feeds, Current
  <1>3. /\ Current \in Nat \ {0} /\ Current = s.seq /\ Holds(s.replay, Current)
        /\ DOMAIN scenes = Scenes /\ DOMAIN s = {"seq", "replay", "listeners"}
        /\ FirstScene \in Scenes
    BY ServerAssumption DEF SessionInv, SceneOK, Current
  <1>4. client.last \in Nat
    BY DEF SessionInv, ClientOK, Objects
  <1>5. ASSUME NEW c \in Conns
        PROVE  /\ X(c) \in Wire /\ X(c).client = conn[c].client
               /\ StageOf(X(c), client.last, Current + 1, Awaited(c), Feeds(c))
    <2>1. conn[c] \in Wire
          /\ StageOf(conn[c], client.last, Current, Awaited(c), Feeds(c))
      BY StageNone DEF SessionInv, Stage
    <2> DEFINE w == conn[c]
               F == Feeds(c)
               A == Awaited(c)
               last == client.last
    <2>2. w \in Wire /\ last \in Nat /\ Current \in Nat /\ StageOf(w, last, Current, A, F)
      BY <1>3, <1>4, <2>1
    <2> HIDE DEF w, F, A, last
    <2>3. LET x == ServerSend(w, [i \in 1 .. Cardinality(F) |-> Delta(FirstScene, Current + 1)])
          IN  x \in Wire /\ x.client = w.client /\ StageOf(x, last, Current + 1, A, F)
      BY <2>2, StageUpdated
    <2> QED
      BY <2>3 DEF w, F, A, last
  <1> HIDE DEF X
  <1>6. DOMAIN conn' = Conns /\ conn' = [c \in Conns |-> conn'[c]]
    BY <1>1 DEF Fanout
  <1>7. conn' \in [Conns -> Wire]
    BY <1>2, <1>5, <1>6
  <1>8. /\ DOMAIN scenes' = Scenes /\ DOMAIN scenes'[FirstScene] = DOMAIN s
        /\ scenes'[FirstScene].seq = s.seq + 1
        /\ scenes'[FirstScene].replay = Pushed(s.replay, s.seq + 1)
        /\ scenes'[FirstScene].listeners = s.listeners
    <2>1. DOMAIN scenes' = Scenes
      BY <1>1, <1>3
    <2>2. scenes'[FirstScene] = [s EXCEPT !.seq = @ + 1, !.replay = Pushed(@, s.seq + 1)]
      BY <1>1, <1>3
    <2> HIDE DEF s
    <2> QED
      BY <1>3, <2>1, <2>2
  <1> DEFINE ring == s.replay
  <1>9. Holds(Pushed(ring, Current + 1), Current + 1)
    <2>1. Current \in Nat \ {0} /\ Holds(ring, Current)
      BY <1>3
    <2> HIDE DEF ring, s
    <2> QED
      BY <2>1, PushedHolds
  <1>10. /\ Current' = Current + 1
         /\ \A c \in Conns : Feeds(c)' = Feeds(c) /\ Awaited(c)' = Awaited(c)
    BY <1>1, <1>3, <1>8 DEF Current, Feeds, Awaited
  <1>11. SceneOK'
    <2>1. Holds(scenes'[FirstScene].replay, Current')
      BY <1>3, <1>8, <1>9, <1>10
    <2> QED
      BY <1>1, <1>3, <1>8, <1>10, <2>1 DEF SessionInv, SceneOK
  <1>12. ASSUME NEW c \in Conns PROVE Stage(c)' /\ conn'[c].client = conn[c].client
    BY <1>1, <1>2, <1>5, <1>10 DEF Stage
  <1>13. Current <= Current'
    BY <1>3, <1>10
  <1> QED
    BY <1>7, <1>10, <1>11, <1>12, <1>13, ServerSide

\* The host sends no inputs, and the runtime pings nobody and never unsubscribes.
LEMMA NothingElseIsSaid ==
  ASSUME SessionInv, NEW c \in Conns
  PROVE  /\ ~RejectInput(c) /\ ~ApplyInput(c) /\ ~RecvPing(c)
         /\ ~RecvUnsubscribe(c) /\ ~RecvMalformed(c)
  <1>1. ASSUME NEW type \in {"input", "ping", "unsubscribe", "malformed"}
        PROVE  ~Receiving(c, type)
    <2>1. SUFFICES ASSUME HeadIs(conn[c].up, type) PROVE FALSE
      BY DEF Receiving
    <2>2. conn[c] \in Wire
      BY StageNone
    <2>3. conn[c].up \in Seq(Upward) /\ conn[c].up # <<>> /\ Head(conn[c].up).type = type
      BY <2>1, <2>2 DEF Wire, Link, HeadIs
    <2> DEFINE u == conn[c].up
    <2> HIDE DEF u
    <2>4. Head(u) \in Upward
      BY <2>3, TailQueue DEF u
    <2>5. Head(u).type \in {"subscribe", "close"}
      BY <2>4, FrameTypes
    <2> QED
      BY <1>1, <2>3, <2>5 DEF u
  <1> QED
    BY <1>1 DEF RejectInput, ApplyInput, RecvPing, RecvUnsubscribe, RecvMalformed

LEMMA ServerReceivesKeeps ==
  ASSUME SessionInv, NEW c \in Conns, ServerReceives(c), UNCHANGED clientVars
  PROVE  SessionInv'
  BY AcceptConnectionKeeps, RefuseConnectionKeeps, OnServerCloseKeeps, RecvSubscribeKeeps,
     NothingElseIsSaid DEF ServerReceives

-----------------------------------------------------------------------------
(***************************************************************************)
(* The steps of the client, during which the server stands still.          *)
(***************************************************************************)

LEMMA SessionParts ==
  ASSUME SessionInv
  PROVE  /\ conn \in [Conns -> Wire]
         /\ client \in Objects /\ opening \in [Tokens -> Nat]
         /\ resolved \in [Conns -> Tokens \cup {None}]
         /\ Current \in Nat \ {0}
         /\ Single /\ Shown
         /\ \A c \in Conns :
               StageOf(conn[c], client.last, Current, Awaited(c), Feeds(c))
  BY DEF SessionInv, SceneOK, ClientOK, Stage

LEMMA RescheduledObject ==
  ASSUME NEW k \in Objects, NEW immediate
  PROVE  LET j == Rescheduled(k, immediate)
         IN  /\ j \in Objects /\ j.socket = k.socket /\ j.last = k.last
             /\ j.active = k.active /\ (~k.active => j.timer = k.timer)
  <1>1. CASE ~k.active
    BY <1>1 DEF Rescheduled
  <1>2. CASE k.active
    <2> DEFINE n == IF immediate \/ k.attempt = MaxAttempt THEN k.attempt ELSE k.attempt + 1
    <2>1. Rescheduled(k, immediate)
             = [k EXCEPT !.timer = TRUE, !.status = "disconnected", !.attempt = n]
      BY <1>2 DEF Rescheduled
    <2>2. n \in Nat
      BY DEF Objects
    <2> HIDE DEF n
    <2> QED
      BY <1>2, <2>1, <2>2 DEF Objects
  <1> QED
    BY <1>1, <1>2

LEMMA DetachedObject ==
  ASSUME NEW k \in Objects
  PROVE  /\ Detached(k) \in Objects /\ Detached(k).socket = None
         /\ Detached(k).last = k.last /\ Detached(k).active = k.active
         /\ Detached(k).timer = k.timer
  BY DEF Detached, Objects

LEMMA ShutDownObject ==
  ASSUME NEW k \in Objects, k.active
  PROVE  /\ ShutDown(k) \in Objects /\ ShutDown(k).socket = None
         /\ ShutDown(k).last = k.last /\ ~ShutDown(k).active /\ ~ShutDown(k).timer
  BY DEF ShutDown, Detached, Objects

\* At most the link of c changes.
LEMMA ClientSide ==
  ASSUME SessionInv, UNCHANGED serverVars, NEW c \in Conns,
         NEW x \in Wire, conn' = [conn EXCEPT ![c] = x],
         StageOf(x, client'.last, Current, Awaited(c), Feeds(c)),
         client'.last = client.last \/ conn[c].client \in {"connecting", "open"},
         ClientOK', Single', Shown'
  PROVE  SessionInv'
  <1>1. /\ conn \in [Conns -> Wire] /\ Single
        /\ \A d \in Conns :
              StageOf(conn[d], client.last, Current, Awaited(d), Feeds(d))
    BY SessionParts
  <1>2. /\ conn' \in [Conns -> Wire] /\ conn'[c] = x
        /\ \A d \in Conns \ {c} : conn'[d] = conn[d]
    BY <1>1
  <1>3. /\ SceneOK' /\ Current' = Current
        /\ \A d \in Conns : Awaited(d)' = Awaited(d) /\ Feeds(d)' = Feeds(d)
    BY DEF SessionInv, SceneOK, serverVars, Current, Awaited, Feeds
  <1>4. ASSUME NEW d \in Conns PROVE Stage(d)'
    <2>1. CASE d = c
      BY <1>2, <1>3, <2>1 DEF Stage
    <2>2. CASE d # c
      <3>1. CASE client'.last = client.last
        BY <1>1, <1>2, <1>3, <2>2, <3>1 DEF Stage
      <3>2. CASE conn[c].client \in {"connecting", "open"}
        <4>1. conn[d].client # "open"
          BY <1>1, <2>2, <3>2 DEF Single
        <4>2. StageOf(conn[d], client'.last, Current, Awaited(d), Feeds(d))
          BY <1>1, <4>1, StageElsewhere
        <4> QED
          BY <1>2, <1>3, <2>2, <4>2 DEF Stage
      <3> QED
        BY <3>1, <3>2
    <2> QED
      BY <2>1, <2>2
  <1> QED
    BY <1>2, <1>3, <1>4 DEF SessionInv

\* No link changes at all, nor does the tracker or what is shown.
LEMMA LinksKept ==
  ASSUME SessionInv, UNCHANGED serverVars, UNCHANGED <<conn, view>>,
         client'.last = client.last, ClientOK', Single'
  PROVE  SessionInv'
  <1>1. /\ SceneOK' /\ Current' = Current
        /\ \A d \in Conns : Awaited(d)' = Awaited(d) /\ Feeds(d)' = Feeds(d)
    BY DEF SessionInv, SceneOK, serverVars, Current, Awaited, Feeds
  <1>2. Shown'
    BY <1>1 DEF SessionInv, Shown
  <1>3. \A d \in Conns : Stage(d)'
    BY <1>1 DEF SessionInv, Stage
  <1> QED
    BY <1>1, <1>2, <1>3 DEF SessionInv

LEMMA ShownKept ==
  ASSUME SessionInv, UNCHANGED serverVars, UNCHANGED view,
         client'.last = client.last \/ client'.last = Fresh
  PROVE  Shown'
  BY DEF SessionInv, Shown, serverVars, Current

\* Start and TimerFires: from k, which has neither timer nor socket.
LEMMA BeginOpenKeeps ==
  ASSUME SessionInv, UNCHANGED serverVars, UNCHANGED <<conn, resolved, view>>,
         NEW k \in Objects, k.last = client.last, k.active = client.active,
         ~k.timer, k.socket = None, client.socket = None,
         \A t \in Tokens : opening[t] = 0,
         BeginOpen(k)
  PROVE  SessionInv'
  <1>1. client' = [k EXCEPT !.status = "connecting"]
        /\ opening' = [opening EXCEPT ![k.token] = @ + 1]
    BY DEF BeginOpen
  <1>2. /\ client' \in Objects /\ client'.last = client.last
        /\ client'.active = client.active /\ ~client'.timer /\ client'.socket = None
    BY <1>1 DEF Objects
  <1>3. opening \in [Tokens -> Nat] /\ k.token \in Tokens /\ Single
    BY SessionParts DEF Objects
  <1>4. /\ opening' \in [Tokens -> Nat] /\ opening'[k.token] = 1
        /\ \A t \in Tokens \ {k.token} : opening'[t] = 0
    BY <1>1, <1>3
  <1>5. ClientOK'
    BY <1>2, <1>4, SessionParts DEF ClientOK
  <1>6. Single'
    BY <1>2, <1>3, <1>4 DEF Single
  <1> QED
    BY <1>2, <1>5, <1>6, LinksKept

LEMMA StartKeeps ==
  ASSUME SessionInv, HostStarts
  PROVE  SessionInv'
  <1>1. /\ ~client.timer /\ client.socket = None /\ BeginOpen(client)
        /\ UNCHANGED serverVars /\ UNCHANGED <<conn, resolved, view>>
    BY DEF HostStarts, Started, Start, ClientStep
  <1>2. opening \in [Tokens -> Nat] /\ client \in Objects
    BY SessionParts
  <1>3. \A t \in Tokens : opening[t] = 0
    BY <1>2 DEF HostStarts, Started
  <1> QED
    BY <1>1, <1>2, <1>3, BeginOpenKeeps

LEMMA TimerKeeps ==
  ASSUME SessionInv, TimerFires, UNCHANGED serverVars
  PROVE  SessionInv'
  <1> DEFINE k == [client EXCEPT !.timer = FALSE]
  <1>1. client.timer /\ BeginOpen(k) /\ UNCHANGED <<conn, resolved, view>>
    BY DEF TimerFires
  <1>2. client \in Objects /\ Single
    BY SessionParts
  <1>3. client.socket = None /\ \A t \in Tokens : opening[t] = 0
    BY <1>1, <1>2 DEF Single
  <1>4. /\ k \in Objects /\ k.last = client.last /\ k.active = client.active
        /\ ~k.timer /\ k.socket = None
    BY <1>2, <1>3 DEF Objects
  <1> HIDE DEF k
  <1> QED
    BY <1>1, <1>3, <1>4, BeginOpenKeeps

\* The socket c that the field holds is let go of.
LEMMA SocketGoes ==
  ASSUME SessionInv, UNCHANGED serverVars, NEW c \in Conns, client.socket = c,
         NEW x \in Wire, conn' = [conn EXCEPT ![c] = x],
         x.client = "closed" \/ (x.client = "closing" /\ ~client'.active),
         client' \in Objects, client'.socket = None, client'.last = client.last,
         UNCHANGED <<opening, resolved, view>>
  PROVE  SessionInv'
  <1>1. /\ conn \in [Conns -> Wire] /\ Single /\ c # None
    BY SessionParts, SessionAssumption
  <1>2. conn'[c] = x /\ \A d \in Conns \ {c} : conn'[d] = conn[d]
    BY <1>1
  <1>3. client.active /\ \A t \in Tokens : opening[t] = 0
    BY <1>1 DEF Single
  <1>4. Single'
    BY <1>1, <1>2, <1>3 DEF Single
  <1>5. ClientOK' /\ Shown'
    BY SessionParts, ShownKept DEF ClientOK
  <1>6. StageOf(x, client'.last, Current, Awaited(c), Feeds(c))
    BY StageEnded
  <1> QED
    BY <1>4, <1>5, <1>6, ClientSide

LEMMA CloseClientKeeps ==
  ASSUME SessionInv, CloseClient, UNCHANGED serverVars
  PROVE  SessionInv'
  <1>1. /\ client.active /\ client' = ShutDown(client)
        /\ conn' = LinksClosed(client, conn)
        /\ UNCHANGED <<opening, resolved, view>>
    BY DEF CloseClient, LinksShutDown
  <1>2. client \in Objects /\ conn \in [Conns -> Wire] /\ Single
    BY SessionParts
  <1>3. /\ client' \in Objects /\ client'.socket = None /\ client'.last = client.last
        /\ ~client'.active /\ ~client'.timer
    BY <1>1, <1>2, ShutDownObject
  <1>4. CASE client.socket = None
    <2>1. conn' = conn
      BY <1>1, <1>4 DEF LinksClosed
    <2>2. Single'
      BY <1>1, <1>2, <1>3, <1>4, <2>1 DEF Single
    <2>3. ClientOK'
      BY <1>1, <1>3, SessionParts DEF ClientOK
    <2> QED
      BY <1>1, <1>3, <2>1, <2>2, <2>3, LinksKept
  <1>5. CASE client.socket # None
    <2>1. PICK c \in Conns : c = client.socket
      BY <1>2, <1>5 DEF Objects
    <2> DEFINE x == ClientClose(conn[c])
    <2>2. conn' = [conn EXCEPT ![c] = x]
      BY <1>1, <1>5, <2>1 DEF LinksClosed
    <2>3. conn[c].client \in {"connecting", "open"}
      BY <1>2, <1>5, <2>1 DEF Single
    <2>4. x \in Wire /\ x.client = "closing"
      <3>1. conn[c] \in Wire /\ CloseFrame(1000) \in Upward
        BY <1>2 DEF CloseFrame, Upward, Closes
      <3> QED
        BY <2>3, <3>1, ClientCloseLink DEF Wire
    <2> HIDE DEF x
    <2> QED
      BY <1>1, <1>3, <2>1, <2>2, <2>4, SocketGoes
  <1> QED
    BY <1>4, <1>5

LEMMA OnCloseKeeps ==
  ASSUME SessionInv, NEW c \in Conns, OnClose(c), UNCHANGED serverVars
  PROVE  SessionInv'
  <1> DEFINE w == conn[c]
             x == ClientClosed(w)
             k == Detached(client)
  <1>1. /\ ClientClosable(w) /\ conn' = [conn EXCEPT ![c] = x]
        /\ UNCHANGED <<opening, resolved, view>>
    BY DEF OnClose
  <1>2. client \in Objects /\ conn \in [Conns -> Wire] /\ Single /\ w \in Wire
    BY SessionParts
  <1>3. x \in Wire /\ x.client = "closed"
    <2>1. ASSUME w.client = "open", ~w.cut PROVE CloseFrame(Head(w.down).code) \in Upward
      <3>1. w.down \in Seq(Downward) /\ w.down # <<>> /\ Head(w.down).type = "close"
        BY <1>1, <1>2, <2>1 DEF Wire, Link, HeadIs, ClientClosable
      <3> HIDE DEF w
      <3>2. Head(w.down) \in Downward
        BY <3>1, TailQueue
      <3>3. Head(w.down).code \in Nat
        BY <3>1, <3>2, FrameTypes
      <3> QED
        BY <3>3 DEF CloseFrame, Upward, Closes
    <2> HIDE DEF w
    <2> QED
      BY <1>1, <1>2, <2>1, ClientClosedLink DEF Wire
  <1> HIDE DEF x
  <1>4. /\ k \in Objects /\ k.socket = None /\ k.last = client.last
        /\ k.active = client.active /\ k.timer = client.timer
    BY <1>2, DetachedObject
  <1>5. /\ client' \in Objects /\ client'.socket = None /\ client'.last = client.last
        /\ ~client.active => ~client'.active /\ client'.timer = client.timer
    <2>1. CASE ~client.active
      <3>1. client' = [k EXCEPT !.status = "disconnected"]
        BY <2>1 DEF OnClose
      <3> HIDE DEF k
      <3> QED
        BY <1>4, <2>1, <3>1 DEF Objects
    <2>2. CASE client.active
      <3>1. client' = ShutDown(k) \/ client' = Rescheduled(k, FALSE)
        BY <2>2 DEF OnClose
      <3> HIDE DEF k
      <3>2. ShutDown(k) \in Objects /\ ShutDown(k).socket = None /\ ShutDown(k).last = k.last
        BY <1>4, <2>2, ShutDownObject
      <3>3. /\ Rescheduled(k, FALSE) \in Objects /\ Rescheduled(k, FALSE).socket = k.socket
            /\ Rescheduled(k, FALSE).last = k.last
        BY <1>4, RescheduledObject
      <3> QED
        BY <1>4, <2>2, <3>1, <3>2, <3>3
    <2> QED
      BY <2>1, <2>2
  <1>6. CASE client.socket = c
    BY <1>1, <1>3, <1>5, <1>6, SocketGoes
  <1>7. CASE client.socket # c
    <2>1. w.client = "closing" /\ ~client.active /\ client.socket = None
      BY <1>1, <1>2, <1>7 DEF Single, ClientClosable
    <2>2. conn'[c] = x /\ \A d \in Conns \ {c} : conn'[d] = conn[d]
      BY <1>1, <1>2
    <2>3. Single'
      BY <1>1, <1>2, <1>3, <1>5, <2>1, <2>2 DEF Single
    <2>4. ClientOK' /\ Shown'
      BY <1>1, <1>5, SessionParts, ShownKept DEF ClientOK
    <2>5. StageOf(x, client'.last, Current, Awaited(c), Feeds(c))
      BY <1>3, StageEnded
    <2> QED
      BY <1>1, <1>3, <1>5, <2>3, <2>4, <2>5, ClientSide
  <1> QED
    BY <1>6, <1>7

LEMMA TokenResolvedKeeps ==
  ASSUME SessionInv, NEW t \in Tokens, NEW c \in Conns, TokenResolved(t, c),
         UNCHANGED serverVars
  PROVE  SessionInv'
  <1>1. /\ opening[t] > 0 /\ conn[c].client = "none"
        /\ opening' = [opening EXCEPT ![t] = @ - 1] /\ view' = view
    BY DEF TokenResolved, Unused
  <1>2. /\ client \in Objects /\ conn \in [Conns -> Wire] /\ Single
        /\ opening \in [Tokens -> Nat] /\ resolved \in [Conns -> Tokens \cup {None}]
        /\ StageOf(conn[c], client.last, Current, Awaited(c), Feeds(c))
    BY SessionParts
  <1>3. /\ client.socket = None /\ ~client.timer
        /\ opening[t] = 1 /\ \A u \in Tokens \ {t} : opening[u] = 0
    <2>1. opening[t] # 0
      BY <1>1, <1>2
    <2>2. opening[t] = 1
      BY <1>1, <1>2 DEF Single
    <2>3. \A u \in Tokens \ {t} : ~(opening[u] > 0)
      BY <1>1, <1>2 DEF Single
    <2>4. \A u \in Tokens \ {t} : opening[u] = 0
      BY <1>2, <2>3
    <2>5. client.timer \in BOOLEAN
      BY <1>2 DEF Objects
    <2> QED
      BY <1>2, <2>1, <2>2, <2>4, <2>5 DEF Single
  <1>4. opening' \in [Tokens -> Nat] /\ \A u \in Tokens : opening'[u] = 0
    BY <1>1, <1>2, <1>3
  <1>5. CASE client.active
    <2> DEFINE x == [conn[c] EXCEPT !.client = "connecting"]
    <2>1. /\ conn' = [conn EXCEPT ![c] = x] /\ client' = [client EXCEPT !.socket = c]
          /\ resolved' = [resolved EXCEPT ![c] = t]
      BY <1>5 DEF TokenResolved, Made
    <2>2. /\ client' \in Objects /\ client'.socket = c /\ client'.last = client.last
          /\ client'.active /\ ~client'.timer
      BY <1>2, <1>3, <1>5, <2>1 DEF Objects
    <2>3. resolved' \in [Conns -> Tokens \cup {None}]
      BY <1>2, <2>1
    <2>4. conn[c] = NewConn /\ Untouched(conn[c], Awaited(c), Feeds(c)) /\ conn[c] \in Wire
      BY <1>1, <1>2 DEF StageOf
    <2>5. /\ x \in Wire /\ x.client = "connecting" /\ x.up = conn[c].up
          /\ x.down = conn[c].down /\ x.server = "none" /\ x.down = <<>>
      <3>1. /\ x \in Wire /\ x.client = "connecting" /\ x.up = conn[c].up
            /\ x.down = conn[c].down /\ x.server = conn[c].server
        BY <2>4 DEF Wire, Link, EndStates
      <3>2. conn[c].server = "none" /\ conn[c].down = <<>>
        BY <2>4 DEF NewConn
      <3> QED
        BY <3>1, <3>2
    <2> HIDE DEF x
    <2>6. StageOf(x, client'.last, Current, Awaited(c), Feeds(c))
      BY <2>4, <2>5 DEF StageOf, Untouched
    <2>7. conn'[c] = x /\ \A d \in Conns \ {c} : conn'[d] = conn[d]
      BY <1>2, <2>1
    <2>8. Single'
      <3>1. \A d \in Conns \ {c} : conn[d].client \notin {"connecting", "open", "closing"}
        BY <1>2, <1>3, <1>5, SessionAssumption DEF Single
      <3> QED
        BY <1>4, <2>2, <2>5, <2>7, <3>1 DEF Single
    <2>9. ClientOK' /\ Shown'
      BY <1>1, <1>4, <2>2, <2>3, ShownKept DEF ClientOK
    <2> QED
      BY <2>1, <2>2, <2>5, <2>6, <2>8, <2>9, ClientSide
  <1>6. CASE ~client.active
    <2>1. UNCHANGED <<conn, client, resolved>>
      BY <1>6 DEF TokenResolved
    <2>2. Single'
      BY <1>2, <1>3, <1>4, <2>1 DEF Single
    <2>3. ClientOK'
      BY <1>2, <1>4, <2>1 DEF ClientOK
    <2> QED
      BY <1>1, <2>1, <2>2, <2>3, LinksKept
  <1> QED
    BY <1>5, <1>6

LEMMA OpenFailsKeeps ==
  ASSUME SessionInv, NEW t \in Tokens, OpenFails(t), UNCHANGED serverVars
  PROVE  SessionInv'
  <1>1. /\ opening[t] > 0 /\ opening' = [opening EXCEPT ![t] = @ - 1]
        /\ client' = Rescheduled(client, FALSE)
        /\ UNCHANGED <<conn, resolved, view>>
    BY DEF OpenFails
  <1>2. /\ client \in Objects /\ conn \in [Conns -> Wire] /\ Single
        /\ opening \in [Tokens -> Nat] /\ resolved \in [Conns -> Tokens \cup {None}]
    BY SessionParts
  <1>3. /\ client.socket = None
        /\ opening[t] = 1 /\ \A u \in Tokens \ {t} : opening[u] = 0
    <2>1. opening[t] # 0
      BY <1>1, <1>2
    <2>2. opening[t] = 1
      BY <1>1, <1>2 DEF Single
    <2>3. \A u \in Tokens \ {t} : ~(opening[u] > 0)
      BY <1>1, <1>2 DEF Single
    <2>4. \A u \in Tokens \ {t} : opening[u] = 0
      BY <1>2, <2>3
    <2> QED
      BY <1>2, <2>1, <2>2, <2>4 DEF Single
  <1>4. opening' \in [Tokens -> Nat] /\ \A u \in Tokens : opening'[u] = 0
    BY <1>1, <1>2, <1>3
  <1>5. /\ client' \in Objects /\ client'.socket = None /\ client'.last = client.last
        /\ client'.active = client.active
    BY <1>1, <1>2, <1>3, RescheduledObject
  <1>6. Single'
    <2>1. conn' = conn
      BY <1>1
    <2> QED
      BY <1>2, <1>3, <1>4, <1>5, <2>1 DEF Single
  <1>7. ClientOK'
    BY <1>1, <1>2, <1>4, <1>5 DEF ClientOK
  <1> QED
    BY <1>1, <1>5, <1>6, <1>7, LinksKept

\* The link of the socket the field holds changes, but it stays the socket.
LEMMA SocketStays ==
  ASSUME SessionInv, UNCHANGED serverVars, NEW c \in Conns,
         conn[c].client \in {"connecting", "open"},
         NEW x \in Wire, x.client = "open", conn' = [conn EXCEPT ![c] = x],
         StageOf(x, client'.last, Current, Awaited(c), Feeds(c)),
         NEW k \in Objects, client' = k,
         k.socket = client.socket, k.timer = client.timer, k.active = client.active,
         UNCHANGED <<opening, resolved>>, Shown'
  PROVE  SessionInv'
  <1>1. /\ conn \in [Conns -> Wire] /\ Single /\ client \in Objects
        /\ opening \in [Tokens -> Nat] /\ resolved \in [Conns -> Tokens \cup {None}]
    BY SessionParts
  <1>2. conn'[c] = x /\ \A d \in Conns \ {c} : conn'[d] = conn[d]
    BY <1>1
  <1>3. client.socket = c /\ c # None
    BY <1>1, SessionAssumption DEF Single
  <1>4. Single'
    BY <1>1, <1>2, <1>3 DEF Single
  <1>5. ClientOK'
    BY <1>1 DEF ClientOK
  <1> QED
    BY <1>4, <1>5, ClientSide

LEMMA OnOpenKeeps ==
  ASSUME SessionInv, NEW c \in Conns, OnOpen(c), UNCHANGED serverVars
  PROVE  SessionInv' /\ view' = view
  <1> DEFINE u == conn[c]
             v == [u EXCEPT !.client = "open", !.down = Tail(@),
                            !.protocol = Head(u.down).protocol]
             since == IF v.protocol = "lsdp.v1.1" /\ client.last # Fresh
                      THEN client.last ELSE 0
             x == ClientSend(v, Subscribe(resolved[c], since))
             k == [client EXCEPT !.last = since]
  <1>1. /\ conn \in [Conns -> Wire] /\ Single /\ client \in Objects /\ u \in Wire
        /\ resolved[c] \in Tokens \cup {None}
        /\ StageOf(u, client.last, Current, Awaited(c), Feeds(c))
    BY SessionParts
  <1>2. u.client = "connecting" /\ HeadIs(u.down, "accept")
    BY DEF OnOpen
  <1>3. client.socket = c /\ c # None
    BY <1>1, <1>2, SessionAssumption DEF Single
  <1>4. conn' = [conn EXCEPT ![c] = x] /\ client' = k /\ UNCHANGED <<opening, resolved, view>>
    BY <1>1, <1>3 DEF OnOpen
  <1>5. /\ u.down \in Seq(Downward) /\ u.down # <<>> /\ Head(u.down).type = "accept"
        /\ Tail(u.down) \in Seq(Downward) /\ Head(u.down).protocol \in Protocols
    <2>1. u.down \in Seq(Downward) /\ u.down # <<>> /\ Head(u.down).type = "accept"
      BY <1>1, <1>2 DEF Wire, Link, HeadIs
    <2> DEFINE q == u.down
    <2>2. q \in Seq(Downward) /\ q # <<>> /\ Head(q).type = "accept"
      BY <2>1
    <2> HIDE DEF q
    <2>3. Tail(q) \in Seq(Downward) /\ Head(q) \in Downward
      BY <2>2, TailQueue
    <2>4. Head(q).protocol \in Protocols
      BY <2>2, <2>3, FrameTypes
    <2> QED
      BY <2>2, <2>3, <2>4 DEF q
  <1>6. since \in Nat /\ k \in Objects /\ k.last = since
        /\ k.socket = client.socket /\ k.timer = client.timer /\ k.active = client.active
        /\ (since = client.last \/ since = Fresh)
    BY <1>1 DEF Objects, Fresh
  <1>7. /\ v \in Wire /\ v.client = "open" /\ v.server = u.server /\ v.up = u.up
        /\ v.down = Tail(u.down)
    BY <1>1, <1>5 DEF Wire, Link, EndStates
  <1> HIDE DEF since, k, v
  <1>8. /\ x \in Wire /\ x.client = "open"
        /\ StageOf(x, since, Current, Awaited(c), Feeds(c))
    <2> DEFINE token == resolved[c]
               A == Awaited(c)
               F == Feeds(c)
               last == client.last
    <2>1. token \in Tokens \cup {None} /\ StageOf(u, last, Current, A, F)
      BY <1>1
    <2>2. x = ClientSend(v, Subscribe(token, since))
      OBVIOUS
    <2> HIDE DEF token, A, F, last, u, x
    <2>3. /\ x \in Wire /\ x.client = "open" /\ StageOf(x, since, Current, A, F)
      BY <1>1, <1>2, <1>6, <1>7, <2>1, <2>2, StageOpened
    <2> QED
      BY <2>3 DEF A, F
  <1> HIDE DEF x
  <1>9. Shown'
    BY <1>4, <1>6, ShownKept
  <1> QED
    BY <1>2, <1>4, <1>6, <1>8, <1>9, SocketStays

\* Numbers 1 .. n are shown, and the next one is added.
LEMMA NextContent ==
  ASSUME NEW n \in Nat
  PROVE  Content(FirstScene, n) \cup {<<FirstScene, n + 1>>} = Content(FirstScene, n + 1)
  <1>1. 1 .. n + 1 = (1 .. n) \cup {n + 1}
    OBVIOUS
  <1> QED
    BY <1>1 DEF Content

\* Scene data comes on the socket the field holds and is the tracker's next.
LEMMA DataArrives ==
  ASSUME SessionInv, NEW c \in Conns, conn[c].client = "open", conn[c].down # <<>>,
         SceneData(Frame(c))
  PROVE  LET x == [conn[c] EXCEPT !.down = Tail(@)]
             n == Frame(c).seq
         IN  /\ n \in 1 .. Current /\ Frame(c).scene = FirstScene
             /\ Frame(c).type = "delta" => client.last # Fresh /\ n = client.last + 1
             /\ x \in Wire /\ x.client = "open" /\ Read(c) = [conn EXCEPT ![c] = x]
             /\ StageOf(x, n, Current, Awaited(c), Feeds(c))
  <1> DEFINE w == conn[c]
             x == [w EXCEPT !.down = Tail(@)]
             last == client.last
             A == Awaited(c)
             F == Feeds(c)
  <1>1. /\ w \in Wire /\ w.client = "open" /\ w.down # <<>> /\ SceneData(Head(w.down))
        /\ last \in Nat /\ Current \in Nat
        /\ StageOf(w, last, Current, A, F)
    BY SessionParts DEF Frame, Objects
  <1>2. Frame(c) = Head(w.down) /\ Read(c) = [conn EXCEPT ![c] = x]
    BY DEF Frame, Read
  <1> HIDE DEF w, last, A, F
  <1>3. /\ Head(w.down).seq \in 1 .. Current /\ Head(w.down).scene = FirstScene
        /\ Head(w.down).type = "delta" => last # Fresh /\ Head(w.down).seq = last + 1
        /\ x \in Wire /\ x.client = "open"
        /\ StageOf(x, Head(w.down).seq, Current, A, F)
    BY <1>1, StageRead
  <1> QED
    BY <1>2, <1>3 DEF w, last, A, F

LEMMA OnSnapshotKeeps ==
  ASSUME SessionInv, NEW c \in Conns, OnSnapshot(c), UNCHANGED serverVars
  PROVE  SessionInv' /\ view' # {}
  <1> DEFINE n == Frame(c).seq
             x == [conn[c] EXCEPT !.down = Tail(@)]
             k == [client EXCEPT !.last = n, !.attempt = 0, !.status = "live"]
  <1>1. /\ conn[c].client = "open" /\ conn[c].down # <<>> /\ SceneData(Frame(c))
    BY DEF OnSnapshot, Receives, HeadIs, Frame, SceneData
  <1>2. /\ n \in 1 .. Current /\ Frame(c).scene = FirstScene
        /\ x \in Wire /\ x.client = "open" /\ Read(c) = [conn EXCEPT ![c] = x]
        /\ StageOf(x, n, Current, Awaited(c), Feeds(c))
    BY <1>1, DataArrives
  <1>3. client \in Objects /\ Current \in Nat
    BY SessionParts
  <1>4. /\ conn' = Read(c)
        /\ client' = [client EXCEPT !.last = Rebased(@, n), !.attempt = 0, !.status = "live"]
        /\ view' = Content(Frame(c).scene, n) /\ UNCHANGED <<opening, resolved>>
    BY DEF OnSnapshot
  <1>5. n \in Nat /\ n >= 1
    BY <1>2, <1>3
  <1> HIDE DEF n, x
  <1>6. Rebased(client.last, n) = n
    BY <1>5 DEF Rebased
  <1>7. client' = k
    BY <1>4, <1>6
  <1>8. /\ k \in Objects /\ k.last = n /\ k.socket = client.socket
        /\ k.timer = client.timer /\ k.active = client.active
    BY <1>3, <1>5 DEF Objects
  <1> HIDE DEF k
  <1>9. view' = Content(FirstScene, n)
    BY <1>2, <1>4
  <1>10. view' # {}
    <2>1. 1 \in 1 .. n
      BY <1>5
    <2>2. <<FirstScene, 1>> \in Content(FirstScene, n)
      BY <2>1 DEF Content
    <2> QED
      BY <1>9, <2>2
  <1>11. Shown'
    <2>1. n \in 0 .. Current' /\ client'.last = n
      BY <1>2, <1>3, <1>5, <1>7, <1>8 DEF serverVars, Current
    <2> QED
      BY <1>9, <2>1 DEF Shown
  <1>12. conn' = [conn EXCEPT ![c] = x]
    BY <1>2, <1>4
  <1>13. StageOf(x, client'.last, Current, Awaited(c), Feeds(c))
    BY <1>2, <1>7, <1>8
  <1> QED
    BY <1>1, <1>2, <1>4, <1>7, <1>8, <1>10, <1>11, <1>12, <1>13, SocketStays

LEMMA OnDeltaKeeps ==
  ASSUME SessionInv, NEW c \in Conns, OnDelta(c), UNCHANGED serverVars
  PROVE  SessionInv' /\ view' # {}
  <1> DEFINE n == Frame(c).seq
             x == [conn[c] EXCEPT !.down = Tail(@)]
             k == [client EXCEPT !.last = n]
  <1>1. /\ conn[c].client = "open" /\ conn[c].down # <<>> /\ SceneData(Frame(c))
        /\ Frame(c).type = "delta"
    BY DEF OnDelta, Receives, HeadIs, Frame, SceneData
  <1>2. /\ n \in 1 .. Current /\ Frame(c).scene = FirstScene
        /\ client.last # Fresh /\ n = client.last + 1
        /\ x \in Wire /\ x.client = "open" /\ Read(c) = [conn EXCEPT ![c] = x]
        /\ StageOf(x, n, Current, Awaited(c), Feeds(c))
    BY <1>1, DataArrives
  <1>3. client \in Objects /\ Current \in Nat /\ client.last \in Nat
    BY SessionParts DEF Objects
  <1>4. n \in Nat /\ n >= 1
    BY <1>2, <1>3
  <1>5. InOrder(client.last, n)
    BY <1>2, <1>4 DEF InOrder
  <1>6. /\ conn' = Read(c) /\ client' = [client EXCEPT !.last = Observed(@, n)]
        /\ view' = view \cup {<<Frame(c).scene, n>>}
        /\ UNCHANGED <<opening, resolved>>
    BY <1>5 DEF OnDelta
  <1> HIDE DEF n, x
  <1>7. client' = k
    <2>1. Observed(client.last, n) = n
      BY <1>5 DEF Observed
    <2> QED
      BY <1>6, <2>1
  <1>8. /\ k \in Objects /\ k.last = n /\ k.socket = client.socket
        /\ k.timer = client.timer /\ k.active = client.active
    BY <1>3, <1>4 DEF Objects
  <1> HIDE DEF k
  <1>9. view' = Content(FirstScene, n)
    <2>1. view = Content(FirstScene, client.last)
      BY <1>2, SessionParts DEF Shown
    <2> QED
      BY <1>2, <1>3, <1>6, <2>1, NextContent
  <1>10. view' # {}
    BY <1>6
  <1>11. Shown'
    <2>1. n \in 0 .. Current' /\ client'.last = n
      BY <1>2, <1>3, <1>4, <1>7, <1>8 DEF serverVars, Current
    <2> QED
      BY <1>9, <2>1 DEF Shown
  <1>12. conn' = [conn EXCEPT ![c] = x]
    BY <1>2, <1>6
  <1>13. StageOf(x, client'.last, Current, Awaited(c), Feeds(c))
    BY <1>2, <1>7, <1>8
  <1> QED
    BY <1>1, <1>2, <1>6, <1>7, <1>8, <1>10, <1>11, <1>12, <1>13, SocketStays

\* A fatal error: the client closes itself, and with it the socket it came on.
LEMMA OnErrorKeeps ==
  ASSUME SessionInv, NEW c \in Conns, OnError(c), UNCHANGED serverVars
  PROVE  SessionInv'
  <1> DEFINE w == conn[c]
             x == [w EXCEPT !.down = Tail(@)]
             y == ClientClose(x)
  <1>1. /\ conn \in [Conns -> Wire] /\ Single /\ client \in Objects /\ w \in Wire
    BY SessionParts
  <1>2. /\ w.client = "open" /\ w.down \in Seq(Downward) /\ w.down # <<>>
        /\ Head(w.down).type = "error"
    BY <1>1 DEF OnError, Receives, HeadIs, Wire, Link
  <1>3. ~Frame(c).recoverable /\ Tail(w.down) \in Seq(Downward)
    <2> DEFINE q == w.down
    <2>1. q \in Seq(Downward) /\ q # <<>> /\ Head(q).type = "error" /\ Frame(c) = Head(q)
      BY <1>2 DEF Frame
    <2> HIDE DEF q
    <2>2. Head(q) \in Downward /\ Tail(q) \in Seq(Downward)
      BY <2>1, TailQueue
    <2>3. ~Frame(c).recoverable
      BY <2>1, <2>2, FrameTypes
    <2> QED
      BY <2>2, <2>3 DEF q
  <1>4. client.socket = c /\ client.active /\ c # None
    BY <1>1, <1>2, SessionAssumption DEF Single
  <1>5. conn' = [conn EXCEPT ![c] = y] /\ client' = ShutDown(client)
        /\ UNCHANGED <<opening, resolved, view>>
    BY <1>1, <1>3, <1>4 DEF OnError, LinksShutDown, LinksClosed, Read
  <1>6. x \in Wire /\ x.client = "open"
    BY <1>1, <1>2, <1>3 DEF Wire, Link
  <1> HIDE DEF x
  <1>7. y \in Wire /\ y.client = "closing"
    <2>1. CloseFrame(1000) \in Upward
      BY DEF CloseFrame, Upward, Closes
    <2> QED
      BY <1>6, <2>1, ClientCloseLink DEF Wire
  <1> HIDE DEF y
  <1>8. /\ client' \in Objects /\ client'.socket = None /\ client'.last = client.last
        /\ ~client'.active
    BY <1>1, <1>4, <1>5, ShutDownObject
  <1> QED
    BY <1>4, <1>5, <1>7, <1>8, SocketGoes

\* No frame makes the client drop the socket, and none is of another kind.
LEMMA NothingElseIsHeard ==
  ASSUME SessionInv, NEW c \in Conns
  PROVE  ~OnBreakingFrame(c) /\ ~OnSceneChanged(c) /\ ~OnOutOfBand(c)
  <1>1. ASSUME conn[c].down # <<>>
        PROVE  Frame(c).type \in {"snapshot", "delta", "accept", "error", "close"}
    <2> DEFINE q == conn[c].down
    <2>1. conn[c] \in Wire
      BY SessionParts
    <2>2. q \in Seq(Downward) /\ q # <<>> /\ Frame(c) = Head(q)
      BY <1>1, <2>1 DEF Wire, Link, Frame
    <2> HIDE DEF q
    <2>3. Head(q) \in Downward
      BY <2>2, TailQueue
    <2> QED
      BY <2>2, <2>3, FrameTypes
  <1>2. ~OnSceneChanged(c) /\ ~OnOutOfBand(c)
    BY <1>1 DEF OnSceneChanged, OnOutOfBand, Receives, HeadIs, Frame
  <1>3. ASSUME conn[c].client = "open", conn[c].down # <<>>, SceneData(Frame(c))
        PROVE  ~Breaks(Frame(c))
    <2>1. /\ Frame(c).seq \in 1 .. Current
          /\ Frame(c).type = "delta" => Frame(c).seq = client.last + 1
      BY <1>3, DataArrives
    <2>2. Current \in Nat /\ client.last \in Nat
      BY SessionParts DEF Objects
    <2>3. Frame(c).type # "malformed"
      BY <1>1, <1>3
    <2> QED
      BY <2>1, <2>2, <2>3 DEF Breaks, Gap
  <1>4. ~OnBreakingFrame(c)
    BY <1>1, <1>3 DEF OnBreakingFrame, Breaks, SceneData
  <1> QED
    BY <1>2, <1>4

LEMMA OnEventKeeps ==
  ASSUME SessionInv, NEW c \in Conns, OnEvent(c), UNCHANGED serverVars
  PROVE  SessionInv' /\ (view' = view \/ view' # {})
  <1>1. CASE OnOpen(c)
    BY <1>1, OnOpenKeeps
  <1>2. CASE OnClose(c)
    <2>1. view' = view
      BY <1>2 DEF OnClose
    <2> QED
      BY <1>2, <2>1, OnCloseKeeps
  <1>3. CASE OnError(c)
    <2>1. view' = view
      BY <1>3 DEF OnError
    <2> QED
      BY <1>3, <2>1, OnErrorKeeps
  <1>4. CASE OnSnapshot(c)
    BY <1>4, OnSnapshotKeeps
  <1>5. CASE OnDelta(c)
    BY <1>5, OnDeltaKeeps
  <1> QED
    BY <1>1, <1>2, <1>3, <1>4, <1>5, NothingElseIsHeard DEF OnEvent, OnMessage


-----------------------------------------------------------------------------
(***************************************************************************)
(* The whole session, as long as the trouble is cuts, resets and failed    *)
(* token fetches: one step, and then every step.                           *)
(***************************************************************************)

\* A step either publishes the scene's next number or may show something.
LiveStep ==
    \/ Current' = Current + 1 /\ view' = view
    \/ Current' = Current /\ (view' = view \/ view' # {})

LEMMA HeadStands ==
  ASSUME SessionInv
  PROVE  /\ UNCHANGED serverVars => Current' = Current
         /\ \A c \in Conns : ServerReceives(c) => Current' = Current
         /\ \A p \in auths : Authenticated(p) => Current' = Current
         /\ Reset => Current' = Current
  <1>1. SceneOK
    BY DEF SessionInv
  <1>2. scenes' = scenes => Current' = Current
    BY DEF Current
  <1>3. \A C : scenes' = Unsubscribed(C) /\ UNCHANGED <<activeScene, auths>>
               => Current' = Current
    BY <1>1, UnsubscribedScenes
  <1>4. ASSUME NEW c \in Conns, ServerReceives(c) PROVE Current' = Current
    BY <1>2, <1>3, <1>4, NothingElseIsSaid
       DEF ServerReceives, AcceptConnection, RefuseConnection, OnServerClose, RecvSubscribe,
           RecvSubscribeAs, serverVars
  <1>5. ASSUME NEW p \in auths, Authenticated(p) PROVE Current' = Current
    <2>1. CASE AuthRefused(p) \/ RefuseScene(p)
      BY <1>2, <2>1 DEF AuthRefused, RefuseScene
    <2>2. CASE ServeScene(p)
      <3>1. PICK l : scenes' = [scenes EXCEPT ![FirstScene].listeners = @ \cup {l}]
        BY <1>1, <2>2 DEF ServeScene, Served, SceneOK
      <3>2. FirstScene \in Scenes /\ DOMAIN scenes = Scenes
            /\ DOMAIN scenes[FirstScene] = {"seq", "replay", "listeners"}
        BY <1>1, ServerAssumption DEF SceneOK
      <3> QED
        BY <3>1, <3>2 DEF Current
    <2> QED
      BY <1>5, <2>1, <2>2 DEF Authenticated
  <1>6. ASSUME Reset PROVE Current' = Current
    BY <1>3, <1>6 DEF Reset, DetachAll
  <1> QED
    BY <1>2, <1>4, <1>5, <1>6 DEF serverVars

LEMMA TroubledKeeps ==
  ASSUME Trouble \subseteq {"cut", "reset", "token fails"}, SessionInv, Troubled
  PROVE  SessionInv' /\ LiveStep
  <1>1. /\ "swap" \notin Trouble /\ "token" \notin Trouble /\ "start" \notin Trouble
    OBVIOUS
  <1>2. \/ (\E c \in Conns : Cut(c)) /\ UNCHANGED <<serverVars, clientVars>>
        \/ Reset /\ UNCHANGED clientVars
        \/ (\E t \in Tokens : OpenFails(t)) /\ UNCHANGED serverVars
    BY <1>1 DEF Troubled
  <1>3. CASE (\E c \in Conns : Cut(c)) /\ UNCHANGED <<serverVars, clientVars>>
    <2>1. view' = view /\ Current' = Current
      BY <1>3, HeadStands DEF clientVars
    <2> QED
      BY <1>3, <2>1, CutKeeps DEF LiveStep
  <1>4. CASE Reset /\ UNCHANGED clientVars
    <2>1. view' = view /\ Current' = Current
      BY <1>4, HeadStands DEF clientVars
    <2> QED
      BY <1>4, <2>1, ResetKeeps DEF LiveStep
  <1>5. CASE (\E t \in Tokens : OpenFails(t)) /\ UNCHANGED serverVars
    <2>1. view' = view /\ Current' = Current
      BY <1>5, HeadStands DEF OpenFails
    <2> QED
      BY <1>5, <2>1, OpenFailsKeeps DEF LiveStep
  <1> QED
    BY <1>2, <1>3, <1>4, <1>5

LEMMA SessionStep ==
  ASSUME Trouble \subseteq {"cut", "reset", "token fails"}, SessionInv, [Next]_vars
  PROVE  SessionInv' /\ LiveStep
  <1>1. CASE HostStarts
    <2>1. view' = view /\ Current' = Current
      BY <1>1, HeadStands DEF HostStarts, Start, ClientStep
    <2> QED
      BY <1>1, <2>1, StartKeeps DEF LiveStep
  <1>2. CASE HostUpdates
    <2>1. activeScene = FirstScene
      BY DEF SessionInv, SceneOK
    <2>2. SceneUpdate(FirstScene) /\ UNCHANGED clientVars
      BY <1>2, <2>1 DEF HostUpdates, ServerStep
    <2>3. view' = view
      BY <2>2 DEF clientVars
    <2> QED
      BY <2>2, <2>3, SceneUpdateKeeps DEF LiveStep
  <1>3. CASE HostStops
    <2>1. CloseClient /\ UNCHANGED serverVars
      BY <1>3 DEF HostStops, ClientStep
    <2>2. view' = view /\ Current' = Current
      BY <2>1, HeadStands DEF CloseClient
    <2> QED
      BY <2>1, <2>2, CloseClientKeeps DEF LiveStep
  <1>4. ASSUME NEW c \in Conns, ServerHandles(c) PROVE SessionInv' /\ LiveStep
    <2>1. ServerReceives(c) /\ UNCHANGED clientVars
      BY <1>4 DEF ServerHandles, ServerStep
    <2>2. view' = view /\ Current' = Current
      BY <2>1, HeadStands DEF clientVars
    <2> QED
      BY <2>1, <2>2, ServerReceivesKeeps DEF LiveStep
  <1>5. ASSUME NEW c \in Conns, ClientHandles(c) PROVE SessionInv' /\ LiveStep
    <2>1. OnEvent(c) /\ UNCHANGED serverVars
      BY <1>5 DEF ClientHandles, ClientStep
    <2>2. Current' = Current
      BY <2>1, HeadStands
    <2> QED
      BY <2>1, <2>2, OnEventKeeps DEF LiveStep
  <1>6. CASE AuthEnds
    <2>1. PICK p \in auths : Authenticated(p) /\ UNCHANGED clientVars
      BY <1>6 DEF AuthEnds, ServerStep
    <2>2. view' = view /\ Current' = Current
      BY <2>1, HeadStands DEF clientVars
    <2> QED
      BY <2>1, <2>2, AuthenticatedKeeps DEF LiveStep
  <1>7. CASE TimerEnds
    <2>1. TimerFires /\ UNCHANGED serverVars
      BY <1>7 DEF TimerEnds, ClientStep
    <2>2. view' = view /\ Current' = Current
      BY <2>1, HeadStands DEF TimerFires
    <2> QED
      BY <2>1, <2>2, TimerKeeps DEF LiveStep
  <1>8. CASE TokenArrives
    <2>1. PICK t \in Tokens, c \in Conns : TokenResolved(t, c) /\ UNCHANGED serverVars
      BY <1>8 DEF TokenArrives, ClientStep, Unused
    <2>2. view' = view /\ Current' = Current
      BY <2>1, HeadStands DEF TokenResolved
    <2> QED
      BY <2>1, <2>2, TokenResolvedKeeps DEF LiveStep
  <1>9. CASE Troubled
    BY <1>9, TroubledKeeps
  <1>10. CASE UNCHANGED vars
    <2>1. UNCHANGED <<conn, serverVars, clientVars>>
      BY <1>10 DEF vars
    <2>2. /\ UNCHANGED <<conn, scenes, activeScene, auths>>
          /\ UNCHANGED <<client, opening, resolved, view>>
      BY <2>1 DEF serverVars, clientVars
    <2>3. Current' = Current
      BY <2>2 DEF Current
    <2>4. ClientOK' /\ Single'
      BY <2>2, <2>3 DEF SessionInv, ClientOK, Single
    <2> QED
      BY <2>1, <2>2, <2>3, <2>4, LinksKept DEF LiveStep
  <1> QED
    BY <1>1, <1>2, <1>3, <1>4, <1>5, <1>6, <1>7, <1>8, <1>9, <1>10 DEF Next

LEMMA ContentSize ==
  ASSUME NEW n \in Nat
  PROVE  Cardinality(Content(FirstScene, n)) = n
  <1> DEFINE S == 1 .. n
             T == Content(FirstScene, n)
             f == [i \in S |-> <<FirstScene, i>>]
  <1>1. IsFiniteSet(S) /\ Cardinality(S) = n
    BY FS_Interval
  <1>2. f \in Bijection(S, T)
    <2>1. \A i \in S : f[i] \in T
      BY DEF Content
    <2>2. \A i, j \in S : f[i] = f[j] => i = j
      OBVIOUS
    <2>3. \A t \in T : \E i \in S : f[i] = t
      BY DEF Content
    <2>4. f \in [S -> T] /\ DOMAIN f = S
      BY <2>1
    <2> HIDE DEF f, T
    <2> QED
      BY <2>2, <2>3, <2>4 DEF Bijection, Injection, Surjection, IsInjective
  <1> HIDE DEF f
  <1>3. ExistsBijection(S, T)
    BY <1>2 DEF ExistsBijection
  <1> QED
    BY <1>1, <1>3, FS_Bijection

\* What the invariant says of the view, in numbers.
Numbered ==
    /\ Current \in Nat
    /\ view # {} => Cardinality(view) \in 1 .. Current
    /\ view = Content(FirstScene, Cardinality(view))
    /\ client.last # Fresh => Cardinality(view) = client.last

LEMMA ViewNumbered == SessionInv => Numbered
  <1> SUFFICES ASSUME SessionInv PROVE Numbered
    OBVIOUS
  <1>1. Current \in Nat
    BY SessionParts
  <1>2. PICK n \in 0 .. Current :
           view = Content(FirstScene, n) /\ (client.last # Fresh => client.last = n)
    BY SessionParts DEF Shown
  <1>3. Cardinality(view) = n
    BY <1>1, <1>2, ContentSize
  <1>4. n = 0 => view = {}
    BY <1>2 DEF Content
  <1> QED
    BY <1>1, <1>2, <1>3, <1>4 DEF Numbered

LEMMA SessionAlways ==
  ASSUME Trouble \subseteq {"cut", "reset", "token fails"}
  PROVE  Spec => []SessionInv
  BY SessionInit, SessionStep, PTL DEF Spec

\* Whatever is cut, reset, failed, refused, replayed or resumed, and however far
\* the scene has gone meanwhile, what the host has been shown is the content of
\* one state of the scene, and the tracker is at that state or fresh.  The two
\* kinds of trouble left out, setToken() while a token is being fetched and a
\* second start(), are those that can give one client two live sockets.
THEOREM SessionViewIsOneState ==
  ASSUME Trouble \subseteq {"cut", "reset", "token fails"}
  PROVE  Spec => []ViewIsOneState
  <1>1. ASSUME SessionInv PROVE ViewIsOneState
    <2>1. Numbered /\ FirstScene \in Scenes
      BY <1>1, ViewNumbered, ServerAssumption
    <2> QED
      BY <2>1 DEF Numbered, ViewIsOneState, Current
  <1> QED
    BY <1>1, SessionAlways, PTL

\* The same sessions implement the abstract live view: each step of the client,
\* the server or the network publishes the scene's next number, shows one that
\* has been published, or is none of the host's business.
THEOREM SessionImplementsLiveView ==
  ASSUME Trouble \subseteq {"cut", "reset", "token fails"}
  PROVE  Spec => ImplementsLiveView
  <1>1. ASSUME Init PROVE Live!Init
    <2>1. view = {} /\ scenes[FirstScene].seq = 1
      BY <1>1, ServerAssumption DEF Init, ServerInit, ClientInit
    <2>2. Cardinality(view) = 0
      BY <2>1, FS_EmptySet
    <2> QED
      BY <2>1, <2>2 DEF Live!Init
  <1>2. ASSUME SessionInv, SessionInv', [Next]_vars PROVE [Live!Next]_Live!vars
    <2>1. LiveStep
      BY <1>2, SessionStep
    <2>2. CASE Current' = Current + 1 /\ view' = view
      BY <2>2 DEF Live!Next, Live!Publish, Current
    <2>3. CASE Current' = Current /\ view' = view
      BY <2>3 DEF Live!vars, Current
    <2>4. CASE Current' = Current /\ view' # {}
      <3>1. (SessionInv => Numbered)'
        BY ViewNumbered, PTL
      <3>2. Cardinality(view)' \in 1 .. Current'
        BY <1>2, <2>4, <3>1 DEF Numbered
      <3> QED
        BY <2>4, <3>2 DEF Live!Next, Live!Show, Current
    <2> QED
      BY <2>1, <2>2, <2>3, <2>4 DEF LiveStep
  <1> QED
    BY <1>1, <1>2, SessionAlways, PTL DEF Spec, ImplementsLiveView, Live!Spec
=============================================================================
