-------------------------- MODULE ConformanceProofs --------------------------
(***************************************************************************)
(* A conformance run plays its scenario alone: while its steps are walked, *)
(* the server serves nobody else, and all the scene data it has read is of *)
(* its own scene - for any suite, whatever earlier runs left behind and    *)
(* whichever requests and connections fail.                                *)
(***************************************************************************)
EXTENDS ConformanceRun, CommonProofs, FiniteSetTheorems

(***************************************************************************)
(* What travels: up, what the steps of a suite send; down, scene data of   *)
(* some scenes and frames without any.                                     *)
(***************************************************************************)
Closes == [type : {"close"}, code : Nat]
Sayable == {f \in {Scenarios[p[1]].steps[p[2]].frame : p \in (1 .. Len(Scenarios)) \X Nat} :
              f.type # "close" /\ (f.type = "subscribe" => f.since \in Nat)}
Upward == Sayable \cup Closes
Others == [type : {"accept"}, protocol : Protocols] \cup {Pong}
            \cup [type : {"error"}, recoverable : BOOLEAN,
                  code : {"AUTH_DENIED", "WRITE_FORBIDDEN", "INVALID_VALUE", "INTERNAL"}]
Frames(S) == [type : {"snapshot", "delta"}, scene : S, seq : Nat] \cup Others \cup Closes
Wire(S) == Link(Upward, Frames(S))

(***************************************************************************)
(* The harness                                                             *)
(***************************************************************************)
Phases == {"next", "setup", "dial", "steps", "reset"}
Runs ==
    [run : Nat \ {0}, phase : Phases, step : Nat, wait : Names \cup {None},
     inbox : Seq(Frames(Scenes)), closeCode : Nat, shadow : Nat, failed : BOOLEAN,
     read : SUBSET Frames(Scenes)]
Calls == [op : Names \cup {None}, answered : BOOLEAN, ok : BOOLEAN, state : Nat]

InPlay == h.phase \in {"dial", "steps"}

\* Where a run is: it is set up while the request for it is out, and from the
\* answer on the active scene is its own and nobody else subscribes.
Where ==
    /\ h \in Runs /\ call \in Calls
    /\ call.op = "setup" <=> h.phase = "setup"
    /\ h.wait # None => h.phase = "steps"
    /\ h.phase # "next" => h.run \in 1 .. Len(Scenarios) /\ ~Skipped
    /\ h.phase = "steps" => h.step \in 1 .. Len(Scenario.steps)
    /\ h.phase \in {"next", "setup", "dial"} => h.step = 1 /\ h.inbox = <<>> /\ h.read = {}
    /\ h.phase = "setup" /\ call.ok =>
          Scenario.named /\ activeScene = Scenario.scene /\ subs = {}
    /\ h.phase \in {"dial", "steps", "reset"} => Scenario.named
    /\ InPlay => activeScene = Scenario.scene /\ subs \subseteq {h.run}
    /\ h.phase = "steps" =>
          h.inbox \in Seq(Frames({activeScene})) /\ h.read \subseteq Frames({activeScene})

\* The connections: one is dialled at a time, those of later runs are new, and
\* the one in play carries the run's scene alone.
Lines ==
    /\ conn \in [Conns -> Wire(Scenes)]
    /\ InPlay => conn[h.run] \in Wire({activeScene})
    /\ \A c \in Conns :
          /\ conn[c].client = "connecting" => c = h.run /\ h.phase = "dial"
          /\ conn[c].client = "none" => conn[c].server = "none"
          /\ conn[c].server = "none" => conn[c].down = <<>>
    /\ \A n \in Conns \cap Nat :
          n > h.run \/ (n = h.run /\ h.phase \in {"next", "setup"}) => conn[n].client = "none"

(***************************************************************************)
(* The server                                                              *)
(***************************************************************************)
SceneOK(x) ==
    /\ x = [seq |-> x.seq, replay |-> x.replay, listeners |-> x.listeners]
    /\ x.seq \in Nat \ {0} /\ Holds(x.replay, x.seq)
    /\ IsFiniteSet(x.listeners)
ScenesOK(S) == DOMAIN S = Scenes /\ \A s \in Scenes : SceneOK(S[s])
ServerOK ==
    /\ activeScene \in Scenes /\ ScenesOK(scenes)
    /\ \A p \in auths : p.conn \in Conns /\ p.since \in Nat

ConfInv == Where /\ Lines /\ ServerOK

-----------------------------------------------------------------------------
(***************************************************************************)
(* Frames and links                                                        *)
(***************************************************************************)

LEMMA FramesMore ==
  ASSUME NEW S, NEW T, S \subseteq T
  PROVE  Frames(S) \subseteq Frames(T) /\ Wire(S) \subseteq Wire(T)
  <1>1. Frames(S) \subseteq Frames(T)
    BY DEF Frames
  <1>2. ASSUME NEW w \in Wire(S) PROVE w \in Wire(T)
    <2>1. w.down \in Seq(Frames(S))
      BY DEF Wire, Link
    <2>2. w.down \in Seq(Frames(T))
      BY <1>1, <2>1, SeqMonotonic
    <2> QED
      BY <2>2 DEF Wire, Link
  <1> QED
    BY <1>1, <1>2

LEMMA FrameKinds ==
  ASSUME NEW S, NEW f \in Frames(S)
  PROVE  /\ f.type = "close" => f.code \in Nat
         /\ f.type = "accept" => f.protocol \in Protocols
         /\ SceneData(f) => f.scene \in S /\ f.seq \in Nat
  <1>1. CASE f \in [type : {"snapshot", "delta"}, scene : S, seq : Nat]
    BY <1>1 DEF SceneData
  <1>2. CASE f \in Others
    BY <1>2 DEF Others, Pong, SceneData
  <1>3. CASE f \in Closes
    BY <1>3 DEF Closes, SceneData
  <1> QED
    BY <1>1, <1>2, <1>3 DEF Frames

LEMMA UpKinds ==
  ASSUME NEW f \in Upward
  PROVE  /\ f.type = "close" => f.code \in Nat
         /\ f.type = "subscribe" => f.since \in Nat
  BY DEF Upward, Sayable, Closes

LEMMA CloseFrames ==
  ASSUME NEW code \in Nat
  PROVE  CloseFrame(code) \in Upward /\ \A S : CloseFrame(code) \in Frames(S)
  <1>1. CloseFrame(code) \in Closes
    BY DEF CloseFrame, Closes
  <1> QED
    BY <1>1 DEF Upward, Frames

LEMMA OtherFrames ==
  ASSUME NEW S
  PROVE  /\ Pong \in Frames(S)
         /\ \A p \in Protocols : Accept(p) \in Frames(S)
         /\ \A r \in BOOLEAN,
              e \in {"AUTH_DENIED", "WRITE_FORBIDDEN", "INVALID_VALUE", "INTERNAL"} :
                ErrorFrame(e, r) \in Frames(S)
  <1>1. Pong \in Others
    BY DEF Others
  <1>2. \A p \in Protocols : Accept(p) \in Others
    BY DEF Accept, Others
  <1>3. ASSUME NEW r \in BOOLEAN,
               NEW e \in {"AUTH_DENIED", "WRITE_FORBIDDEN", "INVALID_VALUE", "INTERNAL"}
        PROVE  ErrorFrame(e, r) \in Others
    BY DEF ErrorFrame, Others
  <1> QED
    BY <1>1, <1>2, <1>3 DEF Frames

\* What a step of a suite sends may travel up.
LEMMA StepIsSayable ==
  ASSUME Playable, NEW n \in 1 .. Len(Scenarios), NEW i \in 1 .. Len(Scenarios[n].steps),
         Scenarios[n].tag = TagFilter, Scenarios[n].target # "runtime", Scenarios[n].named,
         Scenarios[n].steps[i].kind = "client-sends"
  PROVE  Scenarios[n].steps[i].frame \in Upward
  <1> DEFINE f == Scenarios[n].steps[i].frame
             Sent == {Scenarios[p[1]].steps[p[2]].frame : p \in (1 .. Len(Scenarios)) \X Nat}
  <1>1. i \in Nat /\ f.type # "close" /\ (f.type = "subscribe" => f.since \in Nat)
    BY DEF Playable
  <1>2. <<n, i>> \in (1 .. Len(Scenarios)) \X Nat
    BY <1>1
  <1>3. f \in Sent
    <2>1. \E p \in (1 .. Len(Scenarios)) \X Nat : f = Scenarios[p[1]].steps[p[2]].frame
      <3>1. <<n, i>>[1] = n /\ <<n, i>>[2] = i
        OBVIOUS
      <3> QED
        BY <1>2, <3>1
    <2> QED
      BY <2>1
  <1>4. Sayable = {g \in Sent : g.type # "close" /\ (g.type = "subscribe" => g.since \in Nat)}
    BY DEF Sayable
  <1> HIDE DEF Sent
  <1> QED
    BY <1>1, <1>3, <1>4 DEF Upward

-----------------------------------------------------------------------------
(***************************************************************************)
(* What the server and the network do to one connection: the client's end  *)
(* stays, a new connection stays new, and only the active scene's data is  *)
(* added.                                                                  *)
(***************************************************************************)
Serves(w, u) ==
    /\ u.client = w.client
    /\ w.client = "none" /\ w.server = "none" => u.server = "none"
    /\ u.server = "none" => w.server = "none" /\ u.down \in {w.down, <<>>}
    /\ \A S \in SUBSET Scenes : activeScene \in S /\ w \in Wire(S) => u \in Wire(S)

LEMMA ServesItself == \A w : Serves(w, w)
  BY DEF Serves

LEMMA ServesOn ==
  ASSUME NEW w, NEW v, NEW u, Serves(w, v), Serves(v, u)
  PROVE  Serves(w, u)
  BY DEF Serves

LEMMA ServesWire ==
  ASSUME activeScene \in Scenes, NEW w \in Wire(Scenes), NEW u, Serves(w, u)
  PROVE  u \in Wire(Scenes)
  BY DEF Serves

LEMMA ServesTaken ==
  ASSUME NEW w \in Wire(Scenes), w.up # <<>>
  PROVE  Serves(w, [w EXCEPT !.up = Tail(@)])
  <1> DEFINE u == [w EXCEPT !.up = Tail(@)]
  <1>1. ASSUME NEW S, w \in Wire(S) PROVE u \in Wire(S)
    <2>1. Tail(w.up) \in Seq(Upward)
      BY TailQueue DEF Wire, Link
    <2> QED
      BY <1>1, <2>1 DEF Wire, Link
  <1>2. u.client = w.client /\ u.server = w.server /\ u.down = w.down
    BY DEF Wire, Link
  <1> HIDE DEF u
  <1>3. Serves(w, u)
    BY <1>1, <1>2 DEF Serves
  <1> QED
    BY <1>3 DEF u

LEMMA ServesSent ==
  ASSUME NEW w \in Wire(Scenes), NEW ms \in Seq(Frames({activeScene})), activeScene \in Scenes
  PROVE  Serves(w, ServerSend(w, ms))
  <1> DEFINE u == ServerSend(w, ms)
  <1>1. ASSUME NEW S, activeScene \in S, w \in Wire(S)
        PROVE  /\ u \in Wire(S) /\ SameButDown(w, u)
               /\ u.server = "none" => u.down = w.down
    <2>1. Frames({activeScene}) \subseteq Frames(S)
      BY <1>1, FramesMore
    <2>2. ms \in Seq(Frames(S))
      BY <2>1, SeqMonotonic
    <2> QED
      BY <1>1, <2>2, ServerSendLink DEF Wire, SameButDown
  <1>2. SameButDown(w, u) /\ (u.server = "none" => u.down = w.down)
    BY <1>1
  <1> HIDE DEF u
  <1>3. Serves(w, u)
    BY <1>1, <1>2 DEF Serves, SameButDown
  <1> QED
    BY <1>3 DEF u

LEMMA ServesClose ==
  ASSUME NEW w \in Wire(Scenes), NEW code \in Nat
  PROVE  Serves(w, ServerClose(w, code))
  <1> DEFINE u == ServerClose(w, code)
  <1>1. ASSUME NEW S, w \in Wire(S)
        PROVE  /\ u \in Wire(S) /\ u.client = w.client
               /\ u.server = IF w.server = "open" THEN "closing" ELSE w.server
               /\ w.server # "open" => u.down = w.down
    <2> DEFINE F == Frames(S)
    <2>1. w \in Link(Upward, F) /\ CloseFrame(code) \in F
      BY <1>1, CloseFrames DEF Wire
    <2> HIDE DEF F
    <2>2. /\ u \in Link(Upward, F) /\ u.client = w.client
          /\ u.server = IF w.server = "open" THEN "closing" ELSE w.server
          /\ u.down = IF w.server = "open" /\ ~w.cut
                      THEN w.down \o <<CloseFrame(code)>> ELSE w.down
      BY <2>1, ServerCloseLink
    <2> HIDE DEF u
    <2> QED
      BY <2>2 DEF Wire, F
  <1>2. /\ u.client = w.client
        /\ u.server = IF w.server = "open" THEN "closing" ELSE w.server
        /\ w.server # "open" => u.down = w.down
    BY <1>1
  <1> HIDE DEF u
  <1>3. Serves(w, u)
    BY <1>1, <1>2 DEF Serves
  <1> QED
    BY <1>3 DEF u

LEMMA ServesEnd ==
  ASSUME NEW w \in Wire(Scenes), ServerClosable(w)
  PROVE  Serves(w, ServerClosed(w))
  <1> DEFINE u == ServerClosed(w)
  <1>1. w.server \in {"open", "closing"} /\ (~w.cut => HeadIs(w.up, "close"))
    BY DEF ServerClosable
  <1>2. ~w.cut => Head(w.up).code \in Nat
    <2> SUFFICES ASSUME ~w.cut PROVE Head(w.up).code \in Nat
      OBVIOUS
    <2>1. w.up \in Seq(Upward) /\ w.up # <<>> /\ Head(w.up).type = "close"
      BY <1>1 DEF HeadIs, Wire, Link
    <2>2. Head(w.up) \in Upward
      BY <2>1, TailQueue
    <2> QED
      BY <2>1, <2>2, UpKinds
  <1>3. ASSUME NEW S, w \in Wire(S)
        PROVE  u \in Wire(S) /\ u.client = w.client /\ u.server = "closed"
    <2> DEFINE F == Frames(S)
    <2>1. ~w.cut => CloseFrame(Head(w.up).code) \in F
      BY <1>2, CloseFrames
    <2>2. w \in Link(Upward, F)
      BY <1>3 DEF Wire
    <2> HIDE DEF F
    <2>3. /\ u \in Link(Upward, F)
          /\ u.server = "closed" /\ u.client = w.client
          /\ u.cut = w.cut /\ u.up = <<>>
          /\ u.down = IF w.server = "open" /\ ~w.cut /\ w.client # "closed"
                      THEN w.down \o <<CloseFrame(Head(w.up).code)>> ELSE w.down
      BY <2>1, <2>2, ServerClosedLink
    <2> HIDE DEF u
    <2> QED
      BY <2>3 DEF Wire, F
  <1>4. u.client = w.client /\ u.server = "closed"
    BY <1>3
  <1> HIDE DEF u
  <1>5. Serves(w, u)
    BY <1>1, <1>3, <1>4 DEF Serves
  <1> QED
    BY <1>5 DEF u

LEMMA ServesCut ==
  ASSUME NEW w \in Wire(Scenes)
  PROVE  Serves(w, Severed(w))
  <1> DEFINE u == Severed(w)
  <1>1. ASSUME NEW S, w \in Wire(S)
        PROVE  u \in Wire(S) /\ u.client = w.client /\ u.server = w.server /\ u.down = <<>>
    <2> DEFINE F == Frames(S)
    <2>1. w \in Link(Upward, F)
      BY <1>1 DEF Wire
    <2> HIDE DEF F
    <2>2. /\ u \in Link(Upward, F)
          /\ u.client = w.client /\ u.server = w.server
          /\ u.cut = TRUE /\ u.up = <<>> /\ u.down = <<>>
      BY <2>1, SeveredLink
    <2> HIDE DEF u
    <2> QED
      BY <2>2 DEF Wire, F
  <1>2. u.client = w.client /\ u.server = w.server /\ u.down = <<>>
    BY <1>1
  <1> HIDE DEF u
  <1>3. Serves(w, u)
    BY <1>1, <1>2 DEF Serves
  <1> QED
    BY <1>3 DEF u

LEMMA ServesAccept ==
  ASSUME NEW w \in Wire(Scenes), w.client = "connecting", NEW p \in Protocols
  PROVE  Serves(w, [Down(w, <<Accept(p)>>) EXCEPT !.server = "open"])
  <1> DEFINE ms == <<Accept(p)>>
             d == Down(w, ms)
             u == [d EXCEPT !.server = "open"]
  <1>1. ASSUME NEW S, w \in Wire(S)
        PROVE  u \in Wire(S) /\ u.client = w.client /\ u.server = "open"
    <2>1. ms \in Seq(Frames(S))
      BY OtherFrames
    <2> HIDE DEF ms
    <2>2. d \in Wire(S) /\ SameButDown(w, d)
      BY <1>1, <2>1, DownLink DEF Wire
    <2> HIDE DEF d
    <2> QED
      BY <2>2 DEF Wire, Link, ServerStates, SameButDown
  <1>2. u.client = w.client /\ u.server = "open"
    BY <1>1
  <1> HIDE DEF u
  <1>3. Serves(w, u)
    BY <1>1, <1>2 DEF Serves
  <1> QED
    BY <1>3 DEF u, d, ms

-----------------------------------------------------------------------------
(***************************************************************************)
(* Scenes                                                                  *)
(***************************************************************************)

LEMMA FewerListen ==
  ASSUME NEW x, SceneOK(x), NEW G
  PROVE  SceneOK([x EXCEPT !.listeners = @ \ G])
  <1> DEFINE y == [x EXCEPT !.listeners = @ \ G]
  <1>1. /\ y.seq = x.seq /\ y.replay = x.replay /\ y.listeners = x.listeners \ G
        /\ y = [seq |-> y.seq, replay |-> y.replay, listeners |-> y.listeners]
    BY DEF SceneOK
  <1> HIDE DEF y
  <1>2. IsFiniteSet(y.listeners)
    BY <1>1, FS_Subset DEF SceneOK
  <1>3. SceneOK(y)
    BY <1>1, <1>2 DEF SceneOK
  <1> QED
    BY <1>3 DEF y

LEMMA OneMoreListens ==
  ASSUME NEW x, SceneOK(x), NEW l
  PROVE  SceneOK([x EXCEPT !.listeners = @ \cup {l}])
  <1> DEFINE y == [x EXCEPT !.listeners = @ \cup {l}]
  <1>1. /\ y.seq = x.seq /\ y.replay = x.replay /\ y.listeners = x.listeners \cup {l}
        /\ y = [seq |-> y.seq, replay |-> y.replay, listeners |-> y.listeners]
    BY DEF SceneOK
  <1> HIDE DEF y
  <1>2. IsFiniteSet(y.listeners)
    BY <1>1, FS_AddElement DEF SceneOK
  <1>3. SceneOK(y)
    BY <1>1, <1>2 DEF SceneOK
  <1> QED
    BY <1>3 DEF y

LEMMA NumberedOn ==
  ASSUME NEW x, SceneOK(x)
  PROVE  SceneOK([x EXCEPT !.seq = x.seq + 1, !.replay = Pushed(@, x.seq + 1)])
  <1> DEFINE n == x.seq + 1
             ring == Pushed(x.replay, n)
             z == [x EXCEPT !.seq = n]
             y == [z EXCEPT !.replay = ring]
  <1> HIDE DEF n, ring
  <1>0. /\ z.seq = n /\ z.listeners = x.listeners
        /\ z = [seq |-> z.seq, replay |-> z.replay, listeners |-> z.listeners]
    BY DEF SceneOK
  <1> HIDE DEF z
  <1>1. /\ y.seq = n /\ y.replay = ring /\ y.listeners = x.listeners
        /\ y = [seq |-> y.seq, replay |-> y.replay, listeners |-> y.listeners]
    BY <1>0
  <1> HIDE DEF y
  <1>2. Holds(Pushed(x.replay, x.seq + 1), x.seq + 1)
    BY PushedHolds DEF SceneOK
  <1>3. x.seq + 1 \in Nat \ {0}
    BY DEF SceneOK
  <1>4. SceneOK(y)
    BY <1>1, <1>2, <1>3 DEF SceneOK, n, ring
  <1> QED
    BY <1>4 DEF y, z, n, ring

LEMMA UnsubscribedOK ==
  ASSUME ScenesOK(scenes), NEW C
  PROVE  ScenesOK(Unsubscribed(C))
  <1> DEFINE Gone(s) == { sub[c].unsubscribe.listener : c \in
                            { d \in C : sub[d].unsubscribe # None
                                         /\ sub[d].unsubscribe.scene = s } }
  <1>1. Unsubscribed(C) = [s \in Scenes |-> [scenes[s] EXCEPT !.listeners = @ \ Gone(s)]]
    BY DEF Unsubscribed
  <1> HIDE DEF Gone
  <1>2. \A s \in Scenes : SceneOK([scenes[s] EXCEPT !.listeners = @ \ Gone(s)])
    BY FewerListen DEF ScenesOK
  <1> QED
    BY <1>1, <1>2 DEF ScenesOK

\* What an authenticated subscriber is answered is of the active scene.
LEMMA AnswerFrames ==
  ASSUME ScenesOK(scenes), NEW s \in Scenes, NEW since \in Nat
  PROVE  Answer(s, since) \in Seq(Frames({s}))
  <1> DEFINE n == scenes[s].seq
             A == Answer(s, since)
  <1>1. n \in Nat \ {0} /\ Holds(scenes[s].replay, n)
    BY DEF ScenesOK, SceneOK
  <1> HIDE DEF n
  <1>2. CASE Resumable(s, since)
    <2>1. since \in 1 .. n /\ Covered(scenes[s].replay, since)
      BY <1>1, <1>2 DEF Resumable, n
    <2> DEFINE missed == Missed(scenes[s].replay, since)
               m == n - since
    <2>2. missed = [i \in 1 .. m |-> since + i]
      BY <1>1, <2>1, MissedContent
    <2>3. m \in Nat /\ \A i \in 1 .. m : since + i \in Nat
      BY <1>1, <2>1
    <2>4. A = [i \in 1 .. Len(missed) |-> Delta(s, missed[i])]
      BY <1>2 DEF Answer
    <2> HIDE DEF missed, A, m
    <2>5. Len(missed) = m /\ \A i \in 1 .. m : missed[i] = since + i
      BY <2>2, <2>3
    <2>6. A = [i \in 1 .. m |-> Delta(s, since + i)]
      BY <2>4, <2>5
    <2>7. \A i \in 1 .. m : Delta(s, since + i) \in Frames({s})
      BY <2>3 DEF Delta, Frames
    <2> DEFINE g(i) == Delta(s, since + i)
               F == Frames({s})
    <2>8. A \in Seq(F)
      <3>1. A = [i \in 1 .. m |-> g(i)] /\ \A i \in 1 .. m : g(i) \in F
        BY <2>6, <2>7
      <3> HIDE DEF g, F
      <3> QED
        BY <2>3, <3>1
    <2> QED
      BY <2>8 DEF A
  <1>3. CASE ~Resumable(s, since)
    <2>1. A = <<Snapshot(s, n)>>
      BY <1>3 DEF Answer, n
    <2>2. Snapshot(s, n) \in Frames({s})
      BY <1>1 DEF Snapshot, Frames
    <2> QED
      BY <2>1, <2>2
  <1> QED
    BY <1>2, <1>3

\* An update: the scenes stay well formed, and each link carries more of its data.
LEMMA EmitServes ==
  ASSUME ScenesOK(scenes), activeScene \in Scenes,
         NEW w \in [Conns -> Wire(Scenes)], Emit(activeScene, w)
  PROVE  /\ ScenesOK(scenes')
         /\ conn' = [c \in Conns |-> conn'[c]]
         /\ \A c \in Conns : Serves(w[c], conn'[c])
  <1> DEFINE s == activeScene
             x == scenes[s]
             n == x.seq + 1
             Copies(c) == Cardinality({l \in scenes[s].listeners : l[1] = c})
             Ms(c) == [i \in 1 .. Copies(c) |-> Delta(s, n)]
             u(c) == ServerSend(w[c], Ms(c))
  <1>1. /\ scenes' = [scenes EXCEPT ![s].seq = n, ![s].replay = Pushed(@, n)]
        /\ conn' = [c \in Conns |-> u(c)]
    BY DEF Emit, Fanout
  <1>2. SceneOK(x) /\ DOMAIN scenes = Scenes
    BY DEF ScenesOK
  <1>3. ScenesOK(scenes')
    <2>1. /\ DOMAIN scenes' = Scenes
          /\ \A t \in Scenes \ {s} : scenes'[t] = scenes[t]
          /\ scenes'[s] = [x EXCEPT !.seq = n, !.replay = Pushed(@, n)]
      BY <1>1, <1>2
    <2>2. SceneOK(scenes'[s])
      BY <1>2, <2>1, NumberedOn
    <2> QED
      BY <2>1, <2>2 DEF ScenesOK
  <1>4. n \in Nat /\ IsFiniteSet(scenes[s].listeners)
    BY <1>2 DEF SceneOK
  <1>5. ASSUME NEW c \in Conns PROVE Serves(w[c], u(c))
    <2>1. Copies(c) \in Nat
      <3> DEFINE L == {l \in scenes[s].listeners : l[1] = c}
      <3>1. L \subseteq scenes[s].listeners
        OBVIOUS
      <3> HIDE DEF L
      <3>2. IsFiniteSet(L)
        BY <1>4, <3>1, FS_Subset
      <3>3. Cardinality(L) \in Nat
        BY <3>2, FS_CardinalityType
      <3> QED
        BY <3>3 DEF L
    <2>2. Delta(s, n) \in Frames({s})
      BY <1>4 DEF Delta, Frames
    <2> HIDE DEF n, Copies
    <2>3. Ms(c) \in Seq(Frames({s}))
      BY <2>1, <2>2
    <2> HIDE DEF Ms
    <2> QED
      BY <2>3, ServesSent
  <1> HIDE DEF u
  <1>6. \A c \in Conns : Serves(w[c], conn'[c])
    BY <1>1, <1>5
  <1> QED
    BY <1>1, <1>3, <1>6

-----------------------------------------------------------------------------
(***************************************************************************)
(* Steps of the server and the network: the harness stays where it is      *)
(***************************************************************************)
AllServe ==
    /\ conn' = [c \in Conns |-> conn'[c]]
    /\ \A c \in Conns : Serves(conn[c], conn'[c])

AuthsOK(A) == \A p \in A : p.conn \in Conns /\ p.since \in Nat

\* A run that has come further than its setup has what it needs.
LEMMA Played ==
  ASSUME Playable, Where, h.phase # "next", Scenario.named
  PROVE  /\ h.run \in 1 .. Len(Scenarios) /\ h.run \in Conns
         /\ Scenario.scene \in Scenes /\ Len(Scenario.steps) \in Nat \ {0}
  BY DEF Playable, Where, Scenario, Skipped

LEMMA Unmoved ==
  ASSUME Playable, ConfInv, h' = h, AllServe, call' \in Calls, call'.op = call.op,
         activeScene' \in Scenes, ScenesOK(scenes'), AuthsOK(auths'),
         InPlay => activeScene' = activeScene /\ subs' \subseteq {h.run},
         h.phase = "setup" /\ call'.ok =>
            Scenario.named /\ activeScene' = Scenario.scene /\ subs' = {}
  PROVE  ConfInv'
  <1> USE DEF ConfInv
  <1>1. Where'
    BY DEF Where, InPlay, Scenario, Skipped
  <1>2. \A c \in Conns : conn'[c] \in Wire(Scenes)
    BY ServesWire DEF Lines, AllServe, ServerOK
  <1>3. conn' \in [Conns -> Wire(Scenes)]
    BY <1>2 DEF AllServe
  <1>4. InPlay => conn'[h.run] \in Wire({activeScene})
    <2> SUFFICES ASSUME InPlay PROVE conn'[h.run] \in Wire({activeScene})
      OBVIOUS
    <2>1. h.run \in Conns /\ conn[h.run] \in Wire({activeScene})
      BY Played DEF Where, Lines, InPlay
    <2>2. {activeScene} \in SUBSET Scenes /\ activeScene \in {activeScene}
      BY DEF ServerOK
    <2> QED
      BY <2>1, <2>2 DEF AllServe, Serves
  <1>5. ASSUME NEW c \in Conns
        PROVE  /\ conn'[c].client = "connecting" => c = h.run /\ h.phase = "dial"
               /\ conn'[c].client = "none" => conn'[c].server = "none"
               /\ conn'[c].server = "none" => conn'[c].down = <<>>
    BY DEF Lines, AllServe, Serves
  <1>6. ASSUME NEW n \in Conns \cap Nat,
               n > h.run \/ (n = h.run /\ h.phase \in {"next", "setup"})
        PROVE  conn'[n].client = "none"
    BY <1>6 DEF Lines, AllServe, Serves
  <1>7. Lines'
    BY <1>3, <1>4, <1>5, <1>6 DEF Lines, InPlay
  <1>8. ServerOK'
    BY DEF ServerOK, AuthsOK
  <1> QED
    BY <1>1, <1>7, <1>8

\* The same without an answer of the control plane.
LEMMA ServerAlone ==
  ASSUME Playable, ConfInv, h' = h, call' = call, activeScene' = activeScene,
         AllServe, ScenesOK(scenes'), AuthsOK(auths'),
         subs' \subseteq subs \/ (InPlay /\ subs' \subseteq {h.run})
  PROVE  ConfInv'
  <1>1. call' \in Calls /\ activeScene' \in Scenes
    BY DEF ConfInv, Where, ServerOK
  <1>2. InPlay => activeScene' = activeScene /\ subs' \subseteq {h.run}
    BY DEF ConfInv, Where
  <1>3. h.phase = "setup" /\ call'.ok =>
            Scenario.named /\ activeScene' = Scenario.scene /\ subs' = {}
    BY DEF ConfInv, Where, InPlay
  <1> QED
    BY <1>1, <1>2, <1>3, Unmoved

LEMMA OneServes ==
  ASSUME ConfInv, NEW c \in Conns, NEW u, Serves(conn[c], u), conn' = [conn EXCEPT ![c] = u]
  PROVE  AllServe
  <1>1. DOMAIN conn = Conns
    BY DEF ConfInv, Lines
  <1>2. conn' = [d \in Conns |-> conn'[d]] /\ conn'[c] = u
        /\ \A d \in Conns \ {c} : conn'[d] = conn[d]
    BY <1>1
  <1>3. \A d \in Conns : Serves(conn[d], conn'[d])
    BY <1>2, ServesItself
  <1> QED
    BY <1>2, <1>3 DEF AllServe

LEMMA NoneServes ==
  ASSUME ConfInv, conn' = conn
  PROVE  AllServe
  <1>1. conn \in [Conns -> Wire(Scenes)]
    BY DEF ConfInv, Lines
  <1>2. conn' = [d \in Conns |-> conn'[d]] /\ \A d \in Conns : conn'[d] = conn[d]
    BY <1>1
  <1> QED
    BY <1>2, ServesItself DEF AllServe

LEMMA HeardServes ==
  ASSUME ConfInv, NEW c \in Conns, NEW type, Receiving(c, type)
  PROVE  /\ conn[c] \in Wire(Scenes) /\ Taken(c) \in Wire(Scenes) /\ Serves(conn[c], Taken(c))
         /\ Head(conn[c].up) \in Upward /\ Head(conn[c].up).type = type
  <1>1. conn[c] \in Wire(Scenes) /\ conn[c].up # <<>> /\ Head(conn[c].up).type = type
        /\ activeScene \in Scenes
    BY DEF ConfInv, Lines, ServerOK, Receiving, HeadIs
  <1>2. Serves(conn[c], Taken(c))
    BY <1>1, ServesTaken DEF Taken
  <1>3. conn[c].up \in Seq(Upward)
    BY <1>1 DEF Wire, Link
  <1>4. Head(conn[c].up) \in Upward
    BY <1>1, <1>3, TailQueue
  <1> QED
    BY <1>1, <1>2, <1>4, ServesWire

LEMMA ServesOne ==
  ASSUME activeScene \in Scenes, NEW w \in Wire(Scenes), NEW f \in Frames({activeScene})
  PROVE  Serves(w, ServerSend(w, <<f>>)) /\ ServerSend(w, <<f>>) \in Wire(Scenes)
  <1> DEFINE ms == <<f>>
  <1>1. ms \in Seq(Frames({activeScene}))
    OBVIOUS
  <1> HIDE DEF ms
  <1>2. Serves(w, ServerSend(w, ms))
    BY <1>1, ServesSent
  <1>3. ServerSend(w, ms) \in Wire(Scenes)
    BY <1>2, ServesWire
  <1> QED
    BY <1>2, <1>3 DEF ms

\* One frame in reply, the connection kept.
LEMMA ReplyServes ==
  ASSUME ConfInv, NEW c \in Conns, NEW type, Receiving(c, type),
         NEW f \in Frames({activeScene})
  PROVE  Serves(conn[c], ServerSend(Taken(c), <<f>>))
  <1>1. Taken(c) \in Wire(Scenes) /\ Serves(conn[c], Taken(c)) /\ activeScene \in Scenes
    BY HeardServes DEF ConfInv, ServerOK
  <1>2. Serves(Taken(c), ServerSend(Taken(c), <<f>>))
    BY <1>1, ServesOne
  <1> QED
    BY <1>1, <1>2, ServesOn

\* One frame, then a close.
LEMMA RefusalServes ==
  ASSUME activeScene \in Scenes, NEW w \in Wire(Scenes), NEW f \in Frames({activeScene}),
         NEW code \in Nat
  PROVE  Serves(w, ServerClose(ServerSend(w, <<f>>), code))
  <1> DEFINE v == ServerSend(w, <<f>>)
  <1>1. Serves(w, v) /\ v \in Wire(Scenes)
    BY ServesOne
  <1> HIDE DEF v
  <1>2. Serves(v, ServerClose(v, code))
    BY <1>1, ServesClose
  <1>3. Serves(w, ServerClose(v, code))
    BY <1>1, <1>2, ServesOn
  <1> QED
    BY <1>3 DEF v

LEMMA DetachAllServes ==
  ASSUME ConfInv, NEW code \in Nat, DetachAll(code)
  PROVE  AllServe /\ ScenesOK(scenes') /\ subs' = {}
  <1>1. conn \in [Conns -> Wire(Scenes)] /\ ScenesOK(scenes)
    BY DEF ConfInv, Lines, ServerOK
  <1>2. conn' = [c \in Conns |-> IF c \in subs THEN ServerClose(conn[c], code) ELSE conn[c]]
        /\ scenes' = Unsubscribed(subs) /\ subs' = {}
    BY DEF DetachAll
  <1>3. \A c \in Conns : Serves(conn[c], conn'[c])
    BY <1>1, <1>2, ServesClose, ServesItself
  <1>4. conn' = [c \in Conns |-> conn'[c]]
    BY <1>2
  <1> QED
    BY <1>1, <1>2, <1>3, <1>4, UnsubscribedOK DEF AllServe

\* The server hears a connection: it answers that one, or an update goes to all.
LEMMA ServerHearsKeeps ==
  ASSUME Playable, ConfInv, NEW c \in Conns, ServerHears(c)
  PROVE  ConfInv'
  <1>1. /\ h' = h /\ call' = call /\ conn \in [Conns -> Wire(Scenes)]
        /\ activeScene \in Scenes /\ ScenesOK(scenes) /\ AuthsOK(auths)
    BY DEF ServerHears, harnessVars, ConfInv, Lines, ServerOK, AuthsOK
  <1>2. CASE AcceptConnection(c)
    <2> DEFINE p == IF "lsdp.v1.1" \in Offers THEN "lsdp.v1.1" ELSE "lsdp.v1"
               u == [Down(conn[c], <<Accept(p)>>) EXCEPT !.server = "open"]
    <2>1. conn[c].client = "connecting" /\ p \in Protocols
      BY <1>2 DEF AcceptConnection, Protocols
    <2>2. conn' = [conn EXCEPT ![c] = u]
      BY <1>2 DEF AcceptConnection
    <2> HIDE DEF p
    <2>3. Serves(conn[c], u)
      BY <1>1, <2>1, ServesAccept
    <2> HIDE DEF u
    <2>4. AllServe
      BY <2>2, <2>3, OneServes
    <2>5. InPlay /\ subs' \subseteq {h.run}
      BY <1>2, <2>1 DEF AcceptConnection, ConfInv, Where, Lines, InPlay
    <2>6. UNCHANGED <<scenes, activeScene, auths>>
      BY <1>2 DEF AcceptConnection
    <2> QED
      BY <1>1, <2>4, <2>5, <2>6, ServerAlone
  <1>3. CASE OnServerClose(c)
    <2>1. /\ conn' = [conn EXCEPT ![c] = ServerClosed(conn[c])] /\ ServerClosable(conn[c])
          /\ scenes' = Unsubscribed({c}) /\ subs' \subseteq subs
          /\ UNCHANGED <<activeScene, auths>>
      BY <1>3 DEF OnServerClose
    <2>2. AllServe
      BY <1>1, <2>1, ServesEnd, OneServes
    <2>3. ScenesOK(scenes')
      BY <1>1, <2>1, UnsubscribedOK
    <2> QED
      BY <1>1, <2>1, <2>2, <2>3, ServerAlone
  <1>4. CASE AuthCalled(c)
    <2> DEFINE token == IF Head(conn[c].up).token \in installed THEN Head(conn[c].up).token
                        ELSE NoToken
               p == [conn |-> c, call |-> sub[c].subscribes + 1, token |-> token,
                     since |-> Head(conn[c].up).since]
    <2>1. Receiving(c, "subscribe") /\ RecvSubscribeAs(c, token)
      BY <1>4 DEF AuthCalled
    <2>2. /\ conn' = [conn EXCEPT ![c] = Taken(c)] /\ auths' = auths \cup {p}
          /\ UNCHANGED <<scenes, activeScene, subs>>
      BY <2>1 DEF RecvSubscribeAs
    <2>3. AllServe
      BY <2>1, <2>2, HeardServes, OneServes
    <2>4. p.since \in Nat /\ p.conn \in Conns
      BY <2>1, HeardServes, UpKinds
    <2> HIDE DEF p
    <2>5. AuthsOK(auths')
      BY <1>1, <2>2, <2>4 DEF AuthsOK
    <2> QED
      BY <1>1, <2>2, <2>3, <2>5, ServerAlone
  <1>5. CASE RejectInput(c)
    <2>1. Receiving(c, "input") /\ UNCHANGED <<scenes, activeScene, subs, auths>>
      BY <1>5 DEF RejectInput, serverVars
    <2>2. PICK f \in {ErrorFrame("AUTH_DENIED", FALSE), ErrorFrame("WRITE_FORBIDDEN", TRUE),
                      ErrorFrame("INVALID_VALUE", TRUE)} :
             conn' = [conn EXCEPT ![c] = ServerSend(Taken(c), <<f>>)]
      BY <1>5 DEF RejectInput
    <2>3. f \in Frames({activeScene})
      BY <2>2, OtherFrames
    <2>4. AllServe
      BY <2>1, <2>2, <2>3, ReplyServes, OneServes
    <2> QED
      BY <1>1, <2>1, <2>4, ServerAlone
  <1>6. CASE ApplyInput(c)
    <2> DEFINE w == [conn EXCEPT ![c] = Taken(c)]
    <2>1. /\ Receiving(c, "input") /\ Emit(activeScene, w)
          /\ UNCHANGED <<activeScene, subs, auths>>
      BY <1>6 DEF ApplyInput
    <2>2. Taken(c) \in Wire(Scenes) /\ Serves(conn[c], Taken(c))
      BY <2>1, HeardServes
    <2>3. w \in [Conns -> Wire(Scenes)] /\ \A d \in Conns : Serves(conn[d], w[d])
      BY <1>1, <2>2, ServesItself
    <2> HIDE DEF w
    <2>4. /\ ScenesOK(scenes') /\ conn' = [d \in Conns |-> conn'[d]]
          /\ \A d \in Conns : Serves(w[d], conn'[d])
      BY <1>1, <2>1, <2>3, EmitServes
    <2>5. AllServe
      BY <2>3, <2>4, ServesOn DEF AllServe
    <2> QED
      BY <1>1, <2>1, <2>4, <2>5, ServerAlone
  <1>7. CASE RecvPing(c)
    <2>1. /\ Receiving(c, "ping") /\ UNCHANGED <<scenes, activeScene, subs, auths>>
          /\ conn' = [conn EXCEPT ![c] = ServerSend(Taken(c), <<Pong>>)]
      BY <1>7 DEF RecvPing, serverVars
    <2>2. Pong \in Frames({activeScene})
      BY OtherFrames
    <2> DEFINE u == ServerSend(Taken(c), <<Pong>>)
    <2>3. Serves(conn[c], u)
      BY <1>1, <2>1, <2>2, ReplyServes
    <2>4. conn' = [conn EXCEPT ![c] = u]
      BY <2>1
    <2> HIDE DEF u
    <2>5. AllServe
      BY <1>1, <2>3, <2>4, OneServes
    <2> QED
      BY <1>1, <2>1, <2>5, ServerAlone
  <1>8. CASE RecvUnsubscribe(c)
    <2>1. /\ Receiving(c, "unsubscribe") /\ UNCHANGED <<scenes, activeScene, subs, auths>>
          /\ conn' = [conn EXCEPT ![c] = ServerClose(Taken(c), 1000)]
      BY <1>8 DEF RecvUnsubscribe, serverVars
    <2>2. Taken(c) \in Wire(Scenes) /\ Serves(conn[c], Taken(c))
      BY <2>1, HeardServes
    <2>3. Serves(Taken(c), ServerClose(Taken(c), 1000))
      BY <2>2, ServesClose
    <2> DEFINE u == ServerClose(Taken(c), 1000)
    <2>4. Serves(conn[c], u)
      BY <2>2, <2>3, ServesOn
    <2>5. conn' = [conn EXCEPT ![c] = u]
      BY <2>1
    <2> HIDE DEF u
    <2>6. AllServe
      BY <1>1, <2>4, <2>5, OneServes
    <2> QED
      BY <1>1, <2>1, <2>6, ServerAlone
  <1> QED
    BY <1>2, <1>3, <1>4, <1>5, <1>6, <1>7, <1>8 DEF ServerHears

\* A lookup has ended: its connection is refused, or answered and fed from now on.
LEMMA TokenLookedUpKeeps ==
  ASSUME Playable, ConfInv, TokenLookedUp
  PROVE  ConfInv'
  <1>1. /\ h' = h /\ call' = call /\ conn \in [Conns -> Wire(Scenes)]
        /\ activeScene \in Scenes /\ ScenesOK(scenes) /\ AuthsOK(auths)
    BY DEF TokenLookedUp, harnessVars, ConfInv, Lines, ServerOK, AuthsOK
  <1>2. PICK p \in auths : Authenticated(p)
    BY DEF TokenLookedUp
  <1>3. p.conn \in Conns /\ p.since \in Nat /\ conn[p.conn] \in Wire(Scenes)
    BY <1>1, <1>2 DEF AuthsOK
  <1>4. auths' \subseteq auths /\ UNCHANGED <<activeScene, subs>>
    BY <1>2 DEF Authenticated, AuthRefused, RefuseScene, ServeScene, Served
  <1>5. AuthsOK(auths')
    BY <1>1, <1>4 DEF AuthsOK
  <1>6. CASE AuthRefused(p) \/ RefuseScene(p)
    <2>1. PICK f \in {ErrorFrame("AUTH_DENIED", FALSE), ErrorFrame("INVALID_VALUE", FALSE)} :
             conn' = [conn EXCEPT ![p.conn] =
                         ServerClose(ServerSend(conn[p.conn], <<f>>), 1008)]
      BY <1>6 DEF AuthRefused, RefuseScene
    <2>2. f \in Frames({activeScene})
      BY <2>1, OtherFrames
    <2> DEFINE u == ServerClose(ServerSend(conn[p.conn], <<f>>), 1008)
    <2>3. AllServe
      <3>1. Serves(conn[p.conn], u)
        BY <1>1, <1>3, <2>2, RefusalServes
      <3>2. conn' = [conn EXCEPT ![p.conn] = u]
        BY <2>1
      <3> HIDE DEF u
      <3> QED
        BY <1>3, <3>1, <3>2, OneServes
    <2>4. scenes' = scenes
      BY <1>6 DEF AuthRefused, RefuseScene
    <2> QED
      BY <1>1, <1>4, <1>5, <2>3, <2>4, ServerAlone
  <1>7. CASE ServeScene(p)
    <2> DEFINE l == Listener(p.conn, p.call)
               A == Answer(activeScene, p.since)
    <2>1. /\ conn' = [conn EXCEPT ![p.conn] = ServerSend(conn[p.conn], A)]
          /\ scenes' = [scenes EXCEPT ![activeScene].listeners = @ \cup {l}]
      BY <1>7 DEF ServeScene, Served
    <2>2. A \in Seq(Frames({activeScene}))
      BY <1>1, <1>3, AnswerFrames
    <2> HIDE DEF A, l
    <2>3. AllServe
      BY <1>1, <1>3, <2>1, <2>2, ServesSent, OneServes
    <2>4. ScenesOK(scenes')
      <3> DEFINE x == scenes[activeScene]
                 y == [x EXCEPT !.listeners = @ \cup {l}]
      <3>1. /\ DOMAIN scenes' = Scenes
            /\ \A t \in Scenes \ {activeScene} : scenes'[t] = scenes[t]
            /\ scenes'[activeScene] = y
        BY <1>1, <2>1 DEF ScenesOK
      <3>2. SceneOK(y)
        <4>1. SceneOK(x)
          BY <1>1 DEF ScenesOK
        <4> HIDE DEF x
        <4> QED
          BY <4>1, OneMoreListens
      <3> HIDE DEF y
      <3> QED
        BY <1>1, <3>1, <3>2 DEF ScenesOK
    <2> QED
      BY <1>1, <1>4, <1>5, <2>3, <2>4, ServerAlone
  <1> QED
    BY <1>2, <1>6, <1>7 DEF Authenticated

-----------------------------------------------------------------------------
(***************************************************************************)
(* The control plane                                                       *)
(***************************************************************************)

LEMMA CallTypes ==
  ASSUME Playable
  PROVE  /\ NoCall \in Calls /\ NoCall.op = None /\ ~NoCall.ok
         /\ None \notin Names
         /\ \A op \in Names : Asks(op) \in Calls /\ Asks(op).op = op /\ ~Asks(op).ok
  BY DEF Playable, NoCall, Asks, Calls

LEMMA AnsweredCall ==
  ASSUME ConfInv, NEW ok \in BOOLEAN, NEW state \in Nat, Answered(ok, state)
  PROVE  call' \in Calls /\ call'.op = call.op /\ call'.ok = ok
  BY DEF ConfInv, Where, Calls, Answered

LEMMA ControlServesKeeps ==
  ASSUME Playable, ConfInv, ControlServes
  PROVE  ConfInv'
  <1>1. /\ h' = h /\ activeScene \in Scenes /\ ScenesOK(scenes) /\ AuthsOK(auths)
        /\ conn \in [Conns -> Wire(Scenes)] /\ (call.op = "setup" <=> h.phase = "setup")
        /\ (InPlay => subs \subseteq {h.run})
    BY DEF ControlServes, ConfInv, Lines, ServerOK, AuthsOK, Where
  <1>2. CASE ServesSetup
    <2>1. h.phase = "setup" /\ ~InPlay
      BY <1>1, <1>2 DEF ServesSetup, Asked, InPlay
    <2>2. CASE SetupHalf(SetupRequest) /\ Answered(FALSE, 0)
      <3>1. DetachAll(1012) /\ UNCHANGED <<activeScene, auths>>
        BY <2>2 DEF SetupHalf, Reset
      <3>2. AllServe /\ ScenesOK(scenes')
        BY <3>1, DetachAllServes
      <3>3. call' \in Calls /\ call'.op = call.op /\ call'.ok = FALSE
        BY <2>2, AnsweredCall
      <3> QED
        BY <1>1, <2>1, <3>1, <3>2, <3>3, Unmoved
    <2>3. CASE SetupDone(SetupRequest) /\ Answered(TRUE, 0)
      <3>1. /\ DetachAll(1012) /\ Scenario.named /\ activeScene' = Scenario.scene
            /\ UNCHANGED auths
        BY <2>3 DEF SetupDone, SetActiveScene, SetupRequest
      <3>2. AllServe /\ ScenesOK(scenes') /\ subs' = {}
        BY <3>1, DetachAllServes
      <3>3. call' \in Calls /\ call'.op = call.op
        BY <2>3, AnsweredCall
      <3>4. Scenario.scene \in Scenes
        BY <2>1, <3>1, Played DEF ConfInv
      <3> QED
        BY <1>1, <2>1, <3>1, <3>2, <3>3, <3>4, Unmoved
    <2> QED
      BY <1>2, <2>2, <2>3 DEF ServesSetup
  <1>3. CASE ServesEmit
    <2>1. h.phase # "setup"
      BY <1>1, <1>3 DEF ServesEmit, Asked
    <2>2. CASE ControlEmit(Step.valid) /\ Answered(TRUE, 0)
      <3>1. Emit(activeScene, conn) /\ UNCHANGED <<activeScene, subs, auths>>
        BY <2>2 DEF ControlEmit, SceneUpdate
      <3>2. AllServe /\ ScenesOK(scenes')
        BY <1>1, <3>1, EmitServes DEF AllServe
      <3>3. call' \in Calls /\ call'.op = call.op
        BY <2>2, AnsweredCall
      <3> QED
        BY <1>1, <2>1, <3>1, <3>2, <3>3, Unmoved
    <2>3. CASE EmitRefused(Step.valid) /\ Answered(FALSE, 0)
      <3>1. UNCHANGED <<conn, scenes, activeScene, subs, auths>>
        BY <2>3 DEF EmitRefused, serverVars
      <3>2. AllServe
        BY <3>1, NoneServes
      <3>3. call' \in Calls /\ call'.op = call.op
        BY <2>3, AnsweredCall
      <3> QED
        BY <1>1, <2>1, <3>1, <3>2, <3>3, Unmoved
    <2> QED
      BY <1>3, <2>2, <2>3 DEF ServesEmit
  <1>4. CASE ServesState
    <2>1. /\ h.phase # "setup" /\ Answered(TRUE, scenes[activeScene].seq)
          /\ UNCHANGED <<conn, scenes, activeScene, subs, auths>>
      BY <1>1, <1>4 DEF ServesState, Asked, serverVars, StateShown
    <2>2. scenes[activeScene].seq \in Nat
      BY <1>1 DEF ScenesOK, SceneOK
    <2>3. call' \in Calls /\ call'.op = call.op
      BY <2>1, <2>2, AnsweredCall
    <2>4. AllServe
      BY <2>1, NoneServes
    <2> QED
      BY <1>1, <2>1, <2>3, <2>4, Unmoved
  <1>5. CASE ServesReset
    <2>1. /\ h.phase # "setup" /\ DetachAll(1012) /\ Answered(TRUE, 0)
          /\ UNCHANGED <<activeScene, auths>>
      BY <1>1, <1>5 DEF ServesReset, Asked, ControlReset, Reset
    <2>2. AllServe /\ ScenesOK(scenes') /\ subs' = {}
      BY <2>1, DetachAllServes
    <2>3. call' \in Calls /\ call'.op = call.op
      BY <2>1, AnsweredCall
    <2> QED
      BY <1>1, <2>1, <2>2, <2>3, Unmoved
  <1> QED
    BY <1>2, <1>3, <1>4, <1>5 DEF ControlServes

\* A request fails, or the transport of a connection does.
LEMMA TroubledKeeps ==
  ASSUME Playable, ConfInv, Troubled
  PROVE  ConfInv'
  <1>1. /\ activeScene \in Scenes /\ ScenesOK(scenes) /\ AuthsOK(auths)
        /\ conn \in [Conns -> Wire(Scenes)] /\ (InPlay => subs \subseteq {h.run})
    BY DEF ConfInv, Lines, ServerOK, AuthsOK, Where
  <1>2. CASE CallFails /\ UNCHANGED <<serverVars, controlVars>>
    <2>1. /\ h' = h /\ Answered(FALSE, 0)
          /\ UNCHANGED <<conn, scenes, activeScene, subs, auths>>
      BY <1>2 DEF CallFails, serverVars
    <2>2. call' \in Calls /\ call'.op = call.op /\ ~call'.ok
      BY <2>1, AnsweredCall
    <2>3. AllServe
      BY <2>1, NoneServes
    <2> QED
      BY <1>1, <2>1, <2>2, <2>3, Unmoved
  <1>3. CASE (\E c \in Conns : Cut(c)) /\ UNCHANGED <<serverVars, controlVars, harnessVars>>
    <2>1. PICK c \in Conns : Cut(c)
      BY <1>3
    <2>2. conn' = [conn EXCEPT ![c] = Severed(conn[c])]
      BY <2>1 DEF Cut
    <2>3. AllServe
      BY <1>1, <2>2, ServesCut, OneServes
    <2>4. h' = h /\ call' = call /\ UNCHANGED <<scenes, activeScene, subs, auths>>
      BY <1>3 DEF serverVars, harnessVars
    <2> QED
      BY <1>1, <2>3, <2>4, ServerAlone
  <1> QED
    BY <1>2, <1>3 DEF Troubled

-----------------------------------------------------------------------------
(***************************************************************************)
(* Steps of the harness: the server stays as it is                         *)
(***************************************************************************)

LEMMA ServerOKStays ==
  ASSUME ConfInv, UNCHANGED serverVars
  PROVE  ServerOK' /\ UNCHANGED <<activeScene, subs>>
  BY DEF ConfInv, ServerOK, serverVars

\* The run goes on or ends, with what its connection brought it, and with what it
\* did to that connection.
LEMMA PlaysOn ==
  ASSUME Playable, ConfInv, UNCHANGED serverVars, h.phase = "steps",
         h' \in Runs, h'.run = h.run, call' \in Calls, call'.op # "setup",
         \/ h'.phase = "steps" /\ h'.step \in 1 .. Len(Scenario.steps)
         \/ h'.phase = "reset" /\ h'.wait = None,
         h'.inbox \in Seq(Frames({activeScene})), h'.read \subseteq Frames({activeScene}),
         NEW u \in Wire({activeScene}), u.client # "connecting",
         u.client = "none" => u.server = "none",
         u.server = "none" => u.down = <<>>,
         conn' = [conn EXCEPT ![h.run] = u]
  PROVE  ConfInv'
  <1> USE DEF ConfInv
  <1>1. ServerOK' /\ UNCHANGED <<activeScene, subs>>
    BY ServerOKStays
  <1>2. InPlay /\ h.run \in Conns /\ activeScene \in Scenes
    BY Played DEF InPlay, Where, ServerOK
  <1>3. Where'
    BY <1>1, <1>2 DEF Where, InPlay, Scenario, Skipped
  <1>4. u \in Wire(Scenes)
    BY <1>2, FramesMore
  <1>5. /\ conn' \in [Conns -> Wire(Scenes)] /\ conn'[h.run] = u
        /\ \A c \in Conns \ {h.run} : conn'[c] = conn[c]
    BY <1>2, <1>4 DEF Lines
  <1>6. ASSUME NEW c \in Conns
        PROVE  /\ conn'[c].client # "connecting"
               /\ conn'[c].client = "none" => conn'[c].server = "none"
               /\ conn'[c].server = "none" => conn'[c].down = <<>>
    BY <1>2, <1>5 DEF Lines
  <1>7. ASSUME NEW n \in Conns \cap Nat, n > h.run
        PROVE  conn'[n].client = "none"
    <2>1. n # h.run
      BY <1>7 DEF Where, Runs
    <2> QED
      BY <1>5, <1>7, <2>1 DEF Lines
  <1>8. Lines'
    BY <1>1, <1>5, <1>6, <1>7 DEF Lines, InPlay
  <1> QED
    BY <1>1, <1>3, <1>8

\* A state of the run within its step.
Follows(k) ==
    /\ k \in Runs /\ k.run = h.run /\ k.phase = "steps" /\ k.step = h.step
    /\ k.inbox \in Seq(Frames({activeScene})) /\ k.read \subseteq Frames({activeScene})

LEMMA HereFollows ==
  ASSUME ConfInv, h.phase = "steps"
  PROVE  Follows(h)
  BY DEF ConfInv, Where, Follows

\* The run's connection, as a step leaves it that does not close it.
SameEnds(w) ==
    /\ w \in Wire({activeScene})
    /\ w.client = Socket.client /\ w.server = Socket.server /\ w.down = Socket.down

LEMMA SocketHere ==
  ASSUME Playable, ConfInv, h.phase = "steps"
  PROVE  /\ h.run \in Conns /\ SameEnds(Socket) /\ Socket.client # "connecting"
         /\ Socket.client = "none" => Socket.server = "none"
         /\ Socket.server = "none" => Socket.down = <<>>
  <1>1. h.run \in Conns /\ InPlay
    BY Played DEF ConfInv, Where, InPlay
  <1> QED
    BY <1>1 DEF ConfInv, Lines, SameEnds, Socket

LEMMA WaitsKeeps ==
  ASSUME Playable, ConfInv, UNCHANGED serverVars, h.phase = "steps",
         NEW wait \in Names, NEW request \in Calls, request.op # "setup",
         Waits(wait, request)
  PROVE  ConfInv'
  <1>1. h' = [h EXCEPT !.wait = wait] /\ call' = request /\ conn' = conn
    BY DEF Waits
  <1>2. Follows(h) /\ h.step \in 1 .. Len(Scenario.steps)
    BY HereFollows DEF ConfInv, Where
  <1>3. /\ h' \in Runs /\ h'.run = h.run /\ h'.phase = "steps" /\ h'.step = h.step
        /\ h'.inbox = h.inbox /\ h'.read = h.read
    BY <1>1, <1>2 DEF Follows, Runs
  <1>4. conn' = [conn EXCEPT ![h.run] = Socket]
    BY <1>1 DEF ConfInv, Lines, Socket
  <1>5. /\ Socket \in Wire({activeScene}) /\ Socket.client # "connecting"
        /\ Socket.client = "none" => Socket.server = "none"
        /\ Socket.server = "none" => Socket.down = <<>>
    BY SocketHere DEF SameEnds
  <1> QED
    BY <1>1, <1>2, <1>3, <1>4, <1>5, PlaysOn DEF Follows

LEMMA FinishKeeps ==
  ASSUME Playable, ConfInv, UNCHANGED serverVars, h.phase = "steps",
         NEW k, Follows(k), NEW w, SameEnds(w), Finish(k, w)
  PROVE  ConfInv'
  <1> DEFINE u == ClientClose(w)
  <1>1. /\ h' = [k EXCEPT !.phase = "reset", !.wait = None] /\ call' = Asks("reset")
        /\ conn' = [conn EXCEPT ![h.run] = u]
    BY DEF Finish
  <1>2. /\ h' \in Runs /\ h'.run = h.run /\ h'.phase = "reset" /\ h'.wait = None
        /\ h'.inbox = k.inbox /\ h'.read = k.read
    BY <1>1 DEF Follows, Runs, Phases
  <1>3. call' \in Calls /\ call'.op = "reset"
    BY <1>1, CallTypes DEF Names
  <1>4. /\ u \in Wire({activeScene}) /\ u.server = w.server
        /\ u.client = IF w.client \in {"connecting", "open"} THEN "closing" ELSE w.client
        /\ u.down \in {w.down, <<>>, CloseOnly(w.down)}
    BY CloseFrames, ClientCloseLink DEF SameEnds, Wire
  <1> HIDE DEF u
  <1>5. /\ w.client # "connecting" /\ (w.client = "none" => w.server = "none")
        /\ w.server = "none" => w.down = <<>>
    BY SocketHere DEF SameEnds
  <1>6. CloseOnly(<<>>) = <<>>
    BY DEF CloseOnly
  <1>7. /\ u.client # "connecting" /\ (u.client = "none" => u.server = "none")
        /\ u.server = "none" => u.down = <<>>
    BY <1>4, <1>5, <1>6
  <1> QED
    BY <1>1, <1>2, <1>3, <1>4, <1>7, PlaysOn DEF Follows

LEMMA PassedKeeps ==
  ASSUME Playable, ConfInv, UNCHANGED serverVars, h.phase = "steps",
         NEW k, Follows(k), NEW w, SameEnds(w), Passed(k, w)
  PROVE  ConfInv'
  <1>1. CASE k.step = Len(Scenario.steps)
    BY <1>1, FinishKeeps DEF Passed
  <1>2. CASE k.step # Len(Scenario.steps)
    <2>1. /\ h' = [k EXCEPT !.step = k.step + 1, !.wait = None] /\ call' = NoCall
          /\ conn' = [conn EXCEPT ![h.run] = w]
      BY <1>2 DEF Passed
    <2>2. k.step \in 1 .. Len(Scenario.steps) /\ Len(Scenario.steps) \in Nat
      BY Played DEF ConfInv, Where, Follows
    <2>3. k.step + 1 \in 1 .. Len(Scenario.steps) /\ k.step + 1 \in Nat
      BY <1>2, <2>2
    <2>4. /\ h' \in Runs /\ h'.run = h.run /\ h'.phase = "steps" /\ h'.step = k.step + 1
          /\ h'.inbox = k.inbox /\ h'.read = k.read
      BY <2>1, <2>3 DEF Follows, Runs
    <2>5. call' \in Calls /\ call'.op # "setup"
      BY <2>1, CallTypes DEF Names
    <2>6. /\ w \in Wire({activeScene}) /\ w.client # "connecting"
          /\ w.client = "none" => w.server = "none"
          /\ w.server = "none" => w.down = <<>>
      BY SocketHere DEF SameEnds
    <2> QED
      BY <2>1, <2>3, <2>4, <2>5, <2>6, PlaysOn DEF Follows
  <1> QED
    BY <1>1, <1>2

LEMMA FailedKeeps ==
  ASSUME Playable, ConfInv, UNCHANGED serverVars, h.phase = "steps",
         NEW k, Follows(k), Failed(k)
  PROVE  ConfInv'
  <1> DEFINE j == [k EXCEPT !.failed = TRUE]
  <1>1. Follows(j)
    BY DEF Follows, Runs
  <1>2. Finish(j, Socket) /\ SameEnds(Socket)
    BY SocketHere DEF Failed
  <1> HIDE DEF j
  <1> QED
    BY <1>1, <1>2, FinishKeeps

LEMMA VerdictKeeps ==
  ASSUME Playable, ConfInv, UNCHANGED serverVars, h.phase = "steps",
         NEW k, Follows(k), NEW good, Verdict(k, good)
  PROVE  ConfInv'
  <1>1. Passed(k, Socket) \/ Failed(k)
    BY DEF Verdict
  <1> QED
    BY <1>1, SocketHere, PassedKeeps, FailedKeeps

\* A wait that has run out or met a closed socket.
LEMMA NothingCameKeeps ==
  ASSUME Playable, ConfInv, UNCHANGED serverVars, Waiting,
         NEW quietly, NothingCame(quietly)
  PROVE  ConfInv'
  <1>1. h.phase = "steps" /\ Follows(h)
    BY HereFollows DEF Waiting
  <1>2. /\ {"nudge", "fully"} \subseteq Names
        /\ NoCall \in Calls /\ NoCall.op # "setup"
        /\ Asks("emit") \in Calls /\ Asks("emit").op # "setup"
    BY CallTypes DEF Names
  <1>3. \/ Waits("nudge", Asks("emit")) \/ Waits("fully", NoCall) \/ Failed(h)
        \/ Verdict(h, quietly) \/ Passed(h, Socket)
    BY DEF NothingCame
  <1> QED
    BY <1>1, <1>2, <1>3, WaitsKeeps, FailedKeeps, VerdictKeeps, PassedKeeps, SocketHere

\* A step that starts, or goes on with the control plane's answer.
LEMMA StepKeeps ==
  ASSUME Playable, ConfInv, UNCHANGED serverVars,
         \/ ClientSends \/ StartsToRead \/ ExpectRuntimeState
         \/ EmitAnswered \/ NudgeAnswered \/ StateAnswered
  PROVE  ConfInv'
  <1>1. h.phase = "steps"
    <2>1. None \notin Names
      BY CallTypes
    <2>2. h.wait # None => h.phase = "steps"
      BY DEF ConfInv, Where
    <2> QED
      BY <2>1, <2>2 DEF Names, ClientSends, StartsToRead, ExpectRuntimeState, Stepping,
                        EmitAnswered, NudgeAnswered, StateAnswered
  <1>2. Follows(h) /\ SameEnds(Socket)
    BY <1>1, HereFollows, SocketHere
  <1>3. /\ {"briefly", "quiet", "action", "emit", "state", "fully"} \subseteq Names
        /\ NoCall \in Calls /\ NoCall.op # "setup"
        /\ \A op \in {"emit", "state"} : Asks(op) \in Calls /\ Asks(op).op # "setup"
    BY CallTypes DEF Names
  <1>4. CASE ClientSends
    <2>1. Step.kind = "client-sends"
      BY <1>4 DEF ClientSends, Stepping
    <2>2. Step.frame \in Upward
      <3>1. /\ h.run \in 1 .. Len(Scenarios) /\ h.step \in 1 .. Len(Scenario.steps)
            /\ Scenario.tag = TagFilter /\ Scenario.target # "runtime" /\ Scenario.named
        BY <1>1 DEF ConfInv, Where, Skipped
      <3> QED
        BY <2>1, <3>1, StepIsSayable DEF Scenario, Step
    <2>3. CASE Socket.client = "open"
      <3> DEFINE w == ClientSend(Socket, Step.frame)
      <3>1. w \in Wire({activeScene}) /\ SameButUp(Socket, w)
        BY <1>2, <2>2, ClientSendLink DEF Wire, SameEnds
      <3>2. Passed(h, w)
        BY <1>4, <2>3 DEF ClientSends
      <3> HIDE DEF w
      <3>3. SameEnds(w)
        BY <3>1 DEF SameEnds, SameButUp
      <3> QED
        BY <1>1, <1>2, <3>2, <3>3, PassedKeeps
    <2>4. CASE Socket.client # "open"
      BY <1>1, <1>2, <1>4, <2>4, FailedKeeps DEF ClientSends
    <2> QED
      BY <2>3, <2>4
  <1>5. CASE StartsToRead
    <2>1. \/ Waits("briefly", NoCall) \/ Waits("quiet", NoCall) \/ Waits("action", NoCall)
          \/ Waits("emit", Asks("emit")) \/ Waits("state", Asks("state"))
      BY <1>5 DEF StartsToRead
    <2> QED
      BY <1>1, <1>3, <2>1, WaitsKeeps
  <1>6. CASE ExpectRuntimeState
    BY <1>1, <1>2, <1>6, VerdictKeeps DEF ExpectRuntimeState
  <1>7. CASE EmitAnswered
    <2>1. Waits("briefly", NoCall) \/ Failed(h)
      BY <1>7 DEF EmitAnswered
    <2> QED
      BY <1>1, <1>2, <1>3, <2>1, WaitsKeeps, FailedKeeps
  <1>8. CASE NudgeAnswered
    <2>1. Waits("fully", NoCall)
      BY <1>8 DEF NudgeAnswered
    <2> QED
      BY <1>1, <1>3, <2>1, WaitsKeeps
  <1>9. CASE StateAnswered
    BY <1>1, <1>2, <1>9, VerdictKeeps DEF StateAnswered
  <1> QED
    BY <1>4, <1>5, <1>6, <1>7, <1>8, <1>9

\* recv resolves with a frame that the run's connection brought.
LEMMA ReadsKeeps ==
  ASSUME Playable, ConfInv, UNCHANGED serverVars, Reads
  PROVE  ConfInv'
  <1> DEFINE f == Head(h.inbox)
             k == [h EXCEPT !.inbox = Tail(@), !.read = @ \cup {f}]
             a == Absorbed(k, f)
  <1>1. h.phase = "steps" /\ h.inbox # <<>>
    BY DEF Reads
  <1>2. Follows(h) /\ SameEnds(Socket) /\ activeScene \in Scenes
    BY <1>1, HereFollows, SocketHere DEF ConfInv, ServerOK
  <1>3. f \in Frames({activeScene}) /\ Tail(h.inbox) \in Seq(Frames({activeScene}))
    BY <1>1, <1>2, TailQueue DEF Follows
  <1>4. Frames({activeScene}) \subseteq Frames(Scenes)
    BY <1>2, FramesMore
  <1>5. f \in Frames(Scenes) /\ Tail(h.inbox) \in Seq(Frames(Scenes))
    BY <1>3, <1>4, SeqMonotonic
  <1>6. SceneData(f) => f.seq \in Nat
    BY <1>3, FrameKinds
  <1>7. Passed(a, Socket) \/ Failed(k)
    BY DEF Reads
  <1> HIDE DEF f
  <1>8. Follows(k)
    BY <1>2, <1>3, <1>5 DEF Follows, Runs
  <1> HIDE DEF k
  <1>9. Follows(a)
    BY <1>6, <1>8 DEF Follows, Runs, Absorbed
  <1> QED
    BY <1>1, <1>2, <1>7, <1>8, <1>9, PassedKeeps, FailedKeeps

LEMMA HearsKeeps ==
  ASSUME Playable, ConfInv, UNCHANGED serverVars, HarnessHears
  PROVE  ConfInv'
  <1> DEFINE w == Socket
             u == [w EXCEPT !.down = Tail(@)]
             f == Head(w.down)
  <1>1. /\ h.phase = "steps" /\ w.client = "open" /\ w.down # <<>>
        /\ h' = [h EXCEPT !.inbox = Append(@, f)] /\ call' = call
        /\ conn' = [conn EXCEPT ![h.run].down = Tail(@)]
    BY DEF HarnessHears
  <1>2. /\ Follows(h) /\ w \in Wire({activeScene}) /\ activeScene \in Scenes /\ h.run \in Conns
        /\ w.server = "none" => w.down = <<>>
    BY <1>1, HereFollows, SocketHere DEF ConfInv, ServerOK, SameEnds
  <1>3. conn' = [conn EXCEPT ![h.run] = u]
    BY <1>1, <1>2 DEF Socket, ConfInv, Lines
  <1>4. w.down \in Seq(Frames({activeScene}))
    BY <1>2 DEF Wire, Link
  <1>5. f \in Frames({activeScene}) /\ Tail(w.down) \in Seq(Frames({activeScene}))
    BY <1>1, <1>4, TailQueue
  <1>6. u \in Wire({activeScene}) /\ u.client = "open" /\ u.server = w.server
    BY <1>1, <1>2, <1>5 DEF Wire, Link
  <1>7. f \in Frames(Scenes)
    BY <1>2, <1>5, FramesMore
  <1> HIDE DEF u, w, f
  <1>8. /\ h' \in Runs /\ h'.run = h.run /\ h'.phase = "steps" /\ h'.step = h.step
        /\ h'.inbox = Append(h.inbox, f) /\ h'.read = h.read
    <2> DEFINE F == Frames(Scenes)
    <2>1. h \in Runs /\ h.inbox \in Seq(F) /\ f \in F
      BY <1>2, <1>7 DEF Follows, Runs
    <2> HIDE DEF F
    <2>2. Append(h.inbox, f) \in Seq(F)
      BY <2>1
    <2> DEFINE q == Append(h.inbox, f)
    <2>3. q \in Seq(Frames(Scenes))
      BY <2>2 DEF F
    <2>4. h' = [h EXCEPT !.inbox = q]
      BY <1>1
    <2> HIDE DEF q
    <2>5. /\ h' \in Runs /\ h'.run = h.run /\ h'.phase = h.phase /\ h'.step = h.step
          /\ h'.inbox = q /\ h'.read = h.read
      BY <2>1, <2>3, <2>4 DEF Runs
    <2> QED
      BY <1>1, <2>5 DEF q
  <1>9. h'.inbox \in Seq(Frames({activeScene})) /\ h'.read \subseteq Frames({activeScene})
    <2> DEFINE F == Frames({activeScene})
    <2>1. h.inbox \in Seq(F) /\ f \in F /\ h.read \subseteq F
      BY <1>2, <1>5 DEF Follows
    <2> HIDE DEF F
    <2>2. Append(h.inbox, f) \in Seq(F)
      BY <2>1
    <2> QED
      BY <1>8, <2>1, <2>2 DEF F
  <1>10. call' \in Calls /\ call'.op # "setup" /\ h.step \in 1 .. Len(Scenario.steps)
    BY <1>1 DEF ConfInv, Where
  <1>11. u.server # "none"
    BY <1>1, <1>2, <1>6
  <1> QED
    BY <1>1, <1>3, <1>6, <1>8, <1>9, <1>10, <1>11, PlaysOn

\* The client's end of a connection closes.
LEMMA EndsClosed ==
  ASSUME NEW S, NEW w \in Wire(S), ClientClosable(w)
  PROVE  /\ ClientClosed(w) \in Wire(S) /\ ClientClosed(w).client = "closed"
         /\ ClientClosed(w).server = w.server /\ ClientClosed(w).down = <<>>
         /\ ClientCloseCode(w) \in Nat
         /\ w.client \in {"connecting", "open", "closing"}
  <1>1. w.client \in {"connecting", "open", "closing"} /\ (~w.cut => HeadIs(w.down, "close"))
    BY DEF ClientClosable
  <1>2. ~w.cut => Head(w.down).code \in Nat
    <2> SUFFICES ASSUME ~w.cut PROVE Head(w.down).code \in Nat
      OBVIOUS
    <2>1. w.down \in Seq(Frames(S)) /\ w.down # <<>> /\ Head(w.down).type = "close"
      BY <1>1 DEF HeadIs, Wire, Link
    <2>2. Head(w.down) \in Frames(S)
      BY <2>1, TailQueue
    <2> QED
      BY <2>1, <2>2, FrameKinds
  <1>3. w.client = "open" /\ ~w.cut => CloseFrame(Head(w.down).code) \in Upward
    BY <1>2, CloseFrames
  <1>4. /\ ClientClosed(w) \in Wire(S) /\ ClientClosed(w).client = "closed"
        /\ ClientClosed(w).server = w.server /\ ClientClosed(w).down = <<>>
    BY <1>3, ClientClosedLink DEF Wire
  <1>5. ClientCloseCode(w) \in Nat
    BY <1>2 DEF ClientCloseCode
  <1> QED
    BY <1>1, <1>4, <1>5

LEMMA SeesCloseKeeps ==
  ASSUME Playable, ConfInv, UNCHANGED serverVars, NEW c \in Conns, HarnessSeesClose(c)
  PROVE  ConfInv'
  <1> USE DEF ConfInv
  <1> DEFINE u == ClientClosed(conn[c])
  <1>1. /\ ~(c = h.run /\ h.phase = "dial") /\ ClientClosable(conn[c])
        /\ conn' = [conn EXCEPT ![c] = u] /\ call' = call
        /\ h' = IF c = h.run THEN [h EXCEPT !.closeCode = ClientCloseCode(conn[c])] ELSE h
    BY DEF HarnessSeesClose
  <1>2. /\ u \in Wire(Scenes) /\ u.client = "closed"
        /\ u.server = conn[c].server /\ u.down = <<>>
        /\ ClientCloseCode(conn[c]) \in Nat
        /\ conn[c].client # "none"
    BY <1>1, EndsClosed DEF Lines
  <1>3. conn[c] \in Wire({activeScene}) => u \in Wire({activeScene})
    BY <1>1, EndsClosed
  <1> HIDE DEF u
  <1>4. /\ h' \in Runs /\ h'.run = h.run /\ h'.phase = h.phase /\ h'.step = h.step
        /\ h'.wait = h.wait /\ h'.inbox = h.inbox /\ h'.read = h.read
    BY <1>1, <1>2 DEF Where, Runs
  <1>5. ServerOK' /\ UNCHANGED <<activeScene, subs>>
    BY ServerOKStays
  <1>6. Where'
    BY <1>1, <1>4, <1>5 DEF Where, InPlay, Scenario, Skipped
  <1>7. /\ conn' \in [Conns -> Wire(Scenes)] /\ conn'[c] = u
        /\ \A d \in Conns \ {c} : conn'[d] = conn[d]
    BY <1>1, <1>2 DEF Lines
  <1>8. InPlay => conn'[h.run] \in Wire({activeScene})
    <2> SUFFICES ASSUME InPlay PROVE conn'[h.run] \in Wire({activeScene})
      OBVIOUS
    <2>1. h.run \in Conns /\ conn[h.run] \in Wire({activeScene})
      BY Played DEF Where, Lines, InPlay
    <2> QED
      BY <1>3, <1>7, <2>1
  <1>9. ASSUME NEW d \in Conns
        PROVE  /\ conn'[d].client = "connecting" => d = h.run /\ h.phase = "dial"
               /\ conn'[d].client = "none" => conn'[d].server = "none"
               /\ conn'[d].server = "none" => conn'[d].down = <<>>
    BY <1>2, <1>7 DEF Lines
  <1>10. ASSUME NEW n \in Conns \cap Nat,
                n > h.run \/ (n = h.run /\ h.phase \in {"next", "setup"})
         PROVE  conn'[n].client = "none"
    <2>1. conn[n].client = "none"
      BY <1>10 DEF Lines
    <2>2. n # c
      BY <1>2, <2>1
    <2> QED
      BY <1>7, <2>1, <2>2
  <1>11. Lines'
    BY <1>4, <1>5, <1>7, <1>8, <1>9, <1>10 DEF Lines, InPlay
  <1> QED
    BY <1>5, <1>6, <1>11

\* A run ends and the next one is about to begin.
LEMMA ReportedKeeps ==
  ASSUME Playable, ConfInv, UNCHANGED serverVars, conn' = conn, h.phase # "dial",
         NEW verdict, NEW step, Reported(verdict, step)
  PROVE  ConfInv'
  <1> USE DEF ConfInv
  <1>1. h' = NewRun(h.run + 1) /\ call' = NoCall /\ h.run \in Nat \ {0}
    BY DEF Reported, Where, Runs
  <1>2. h.run + 1 \in Nat \ {0}
    BY <1>1
  <1>3. /\ h' \in Runs /\ h'.run = h.run + 1 /\ h'.phase = "next" /\ h'.wait = None
        /\ h'.step = 1 /\ h'.inbox = <<>> /\ h'.read = {}
    BY <1>1, <1>2 DEF NewRun, Runs, Phases
  <1>4. call' \in Calls /\ call'.op # "setup" /\ ~call'.ok
    BY <1>1, CallTypes DEF Names
  <1>5. ServerOK'
    BY ServerOKStays
  <1>6. Where'
    BY <1>3, <1>4 DEF Where, InPlay
  <1>7. ASSUME NEW n \in Conns \cap Nat, n > h.run + 1 \/ n = h.run + 1
        PROVE  conn[n].client = "none"
    <2>1. n > h.run
      BY <1>1, <1>7
    <2> QED
      BY <2>1 DEF Lines
  <1>8. Lines'
    BY <1>3, <1>7 DEF Lines, InPlay
  <1> QED
    BY <1>5, <1>6, <1>8

LEMMA BeginKeeps ==
  ASSUME Playable, ConfInv, UNCHANGED serverVars, Begin
  PROVE  ConfInv'
  <1> USE DEF ConfInv
  <1>1. h.run <= Len(Scenarios) /\ h.phase = "next" /\ conn' = conn
    BY DEF Begin
  <1>2. CASE Reported("SKIP", 0)
    BY <1>1, <1>2, ReportedKeeps
  <1>3. CASE ~Skipped /\ h' = [h EXCEPT !.phase = "setup"] /\ call' = Asks("setup")
    <2>1. /\ h' \in Runs /\ h'.run = h.run /\ h'.phase = "setup" /\ h'.step = h.step
          /\ h'.wait = h.wait /\ h'.inbox = h.inbox /\ h'.read = h.read
      BY <1>3 DEF Where, Runs, Phases
    <2>2. call' \in Calls /\ call'.op = "setup" /\ ~call'.ok
      BY <1>3, CallTypes DEF Names
    <2>3. h.run \in 1 .. Len(Scenarios) /\ h.wait = None
      BY <1>1 DEF Playable, Where, Runs
    <2>4. ServerOK' /\ UNCHANGED <<activeScene, subs>>
      BY ServerOKStays
    <2>5. h.step = 1
      BY <1>1 DEF Where
    <2>6. Where'
      BY <1>1, <1>3, <2>1, <2>2, <2>3, <2>4, <2>5 DEF Where, InPlay, Scenario, Skipped
    <2>7. Lines'
      BY <1>1, <2>1, <2>4 DEF Lines, InPlay
    <2> QED
      BY <2>4, <2>6, <2>7
  <1> QED
    BY <1>2, <1>3 DEF Begin

\* The scene is up: the run's connection, new and empty, is dialled.
LEMMA SetupAnsweredKeeps ==
  ASSUME Playable, ConfInv, UNCHANGED serverVars, SetupAnswered
  PROVE  ConfInv'
  <1> USE DEF ConfInv
  <1>1. h.phase = "setup" /\ h.step = 1 /\ h.inbox = <<>> /\ h.read = {} /\ h.wait = None
    BY DEF SetupAnswered, Where
  <1>2. CASE Reported("FAIL", 0) /\ conn' = conn
    BY <1>1, <1>2, ReportedKeeps
  <1>3. CASE /\ call.ok /\ h' = [h EXCEPT !.phase = "dial"] /\ call' = NoCall
             /\ conn' = [conn EXCEPT ![h.run].client = "connecting"]
    <2> DEFINE w == conn[h.run]
               u == [w EXCEPT !.client = "connecting"]
    <2>1. Scenario.named /\ activeScene = Scenario.scene /\ subs = {}
      BY <1>1, <1>3 DEF Where
    <2>2. h.run \in Conns /\ h.run \in 1 .. Len(Scenarios) /\ ~Skipped
      BY <1>1, <2>1, Played DEF Where
    <2>3. w \in Wire(Scenes) /\ w.client = "none" /\ w.server = "none" /\ w.down = <<>>
      BY <1>1, <2>2 DEF Lines
    <2>4. <<>> \in Seq(Frames({activeScene}))
      OBVIOUS
    <2>5. /\ u \in Wire(Scenes) /\ u \in Wire({activeScene}) /\ u.client = "connecting"
          /\ u.server = "none" /\ u.down = <<>>
      BY <2>3, <2>4 DEF Wire, Link, EndStates
    <2>6. conn' = [conn EXCEPT ![h.run] = u]
      BY <1>3, <2>2 DEF Lines
    <2> HIDE DEF u, w
    <2>7. /\ conn' \in [Conns -> Wire(Scenes)] /\ conn'[h.run] = u
          /\ \A d \in Conns \ {h.run} : conn'[d] = conn[d]
      BY <2>2, <2>5, <2>6 DEF Lines
    <2>8. /\ h' \in Runs /\ h'.run = h.run /\ h'.phase = "dial" /\ h'.step = h.step
          /\ h'.wait = h.wait /\ h'.inbox = h.inbox /\ h'.read = h.read
      BY <1>3 DEF Where, Runs, Phases
    <2>9. call' \in Calls /\ call'.op # "setup" /\ ~call'.ok
      BY <1>3, CallTypes DEF Names
    <2>10. ServerOK' /\ UNCHANGED <<activeScene, subs>>
      BY ServerOKStays
    <2>11. Where'
      BY <1>1, <2>1, <2>2, <2>8, <2>9, <2>10 DEF Where, InPlay, Scenario, Skipped
    <2>12. ASSUME NEW d \in Conns
           PROVE  /\ conn'[d].client = "connecting" => d = h.run
                  /\ conn'[d].client = "none" => conn'[d].server = "none"
                  /\ conn'[d].server = "none" => conn'[d].down = <<>>
      BY <1>1, <2>5, <2>7 DEF Lines
    <2>13. ASSUME NEW n \in Conns \cap Nat, n > h.run
           PROVE  conn'[n].client = "none"
      <3>1. n # h.run
        BY <2>13 DEF Where, Runs
      <3> QED
        BY <2>7, <2>13, <3>1 DEF Lines
    <2>14. Lines'
      BY <2>5, <2>7, <2>8, <2>10, <2>12, <2>13 DEF Lines, InPlay
    <2> QED
      BY <2>10, <2>11, <2>14
  <1> QED
    BY <1>2, <1>3 DEF SetupAnswered

\* The run's connection is open or has failed, having carried no data yet.
LEMMA DialKeeps ==
  ASSUME Playable, ConfInv, UNCHANGED serverVars, Dialled \/ DialFails
  PROVE  ConfInv'
  <1> USE DEF ConfInv
  <1> DEFINE w == conn[h.run]
  <1>1. /\ h.phase = "dial" /\ h.step = 1 /\ h.inbox = <<>> /\ h.read = {} /\ h.wait = None
        /\ InPlay /\ Scenario.named
    BY DEF Dialled, DialFails, Where, InPlay
  <1>2. /\ h.run \in Conns /\ w \in Wire({activeScene}) /\ activeScene \in Scenes
        /\ Len(Scenario.steps) \in Nat \ {0}
        /\ w.client = "none" => w.server = "none"
        /\ w.server = "none" => w.down = <<>>
    BY <1>1, Played DEF Lines, ServerOK
  <1>3. ServerOK' /\ UNCHANGED <<activeScene, subs>>
    BY ServerOKStays
  <1>4. ASSUME NEW u \in Wire({activeScene}), conn' = [conn EXCEPT ![h.run] = u],
               u.client \in {"open", "closed"},
               u.server = "none" => u.down = <<>>,
               h'.run = h.run, h'.phase \in {"steps", "reset"}
        PROVE  Lines'
    <2>1. u \in Wire(Scenes)
      BY <1>2, FramesMore
    <2>2. /\ conn' \in [Conns -> Wire(Scenes)] /\ conn'[h.run] = u
          /\ \A d \in Conns \ {h.run} : conn'[d] = conn[d]
      BY <1>2, <1>4, <2>1 DEF Lines
    <2>3. ASSUME NEW d \in Conns
           PROVE  /\ conn'[d].client # "connecting"
                  /\ conn'[d].client = "none" => conn'[d].server = "none"
                  /\ conn'[d].server = "none" => conn'[d].down = <<>>
      BY <1>1, <1>4, <2>2 DEF Lines
    <2>4. ASSUME NEW n \in Conns \cap Nat, n > h.run
           PROVE  conn'[n].client = "none"
      <3>1. n # h.run
        BY <2>4 DEF Where, Runs
      <3> QED
        BY <2>2, <2>4, <3>1 DEF Lines
    <2> QED
      BY <1>3, <1>4, <2>2, <2>3, <2>4 DEF Lines, InPlay
  <1>5. CASE Dialled
    <2> DEFINE f == Head(w.down)
               u == [w EXCEPT !.client = "open", !.down = Tail(@), !.protocol = f.protocol]
    <2>1. /\ w.down # <<>> /\ f.type = "accept"
          /\ conn' = [conn EXCEPT ![h.run] = u]
          /\ h' = [h EXCEPT !.phase = "steps"] /\ call' = call
      BY <1>2, <1>5 DEF Dialled, Socket, HeadIs, Lines
    <2>2. w.down \in Seq(Frames({activeScene}))
      BY <1>2 DEF Wire, Link
    <2>3. f \in Frames({activeScene}) /\ Tail(w.down) \in Seq(Frames({activeScene}))
      BY <2>1, <2>2, TailQueue
    <2>4. f.protocol \in Protocols
      BY <2>1, <2>3, FrameKinds
    <2> HIDE DEF f
    <2>5. u \in Wire({activeScene}) /\ u.client = "open" /\ u.server = w.server
      BY <1>2, <2>3, <2>4 DEF Wire, Link, EndStates
    <2>6. w.server # "none"
      BY <1>2, <2>1
    <2> HIDE DEF u, w
    <2>7. /\ h' \in Runs /\ h'.run = h.run /\ h'.phase = "steps" /\ h'.step = h.step
          /\ h'.wait = h.wait /\ h'.inbox = h.inbox /\ h'.read = h.read
      BY <2>1 DEF Where, Runs, Phases
    <2>8. 1 \in 1 .. Len(Scenario.steps) /\ <<>> \in Seq(Frames({activeScene}))
      BY <1>2
    <2>9. Where'
      BY <1>1, <1>3, <2>1, <2>7, <2>8 DEF Where, InPlay, Scenario, Skipped
    <2>10. Lines'
      BY <1>4, <2>1, <2>5, <2>6, <2>7
    <2> QED
      BY <1>3, <2>9, <2>10
  <1>6. CASE DialFails
    <2> DEFINE u == ClientClosed(w)
    <2>1. /\ ClientClosable(w) /\ conn' = [conn EXCEPT ![h.run] = u]
          /\ h' = [h EXCEPT !.phase = "reset", !.step = 0, !.failed = TRUE]
          /\ call' = Asks("reset")
      BY <1>6 DEF DialFails, Socket
    <2>2. u \in Wire({activeScene}) /\ u.client = "closed" /\ u.down = <<>>
      BY <1>2, <2>1, EndsClosed
    <2> HIDE DEF u, w
    <2>3. /\ h' \in Runs /\ h'.run = h.run /\ h'.phase = "reset"
          /\ h'.wait = h.wait /\ h'.inbox = h.inbox /\ h'.read = h.read
      BY <2>1 DEF Where, Runs, Phases
    <2>4. call' \in Calls /\ call'.op = "reset"
      BY <2>1, CallTypes DEF Names
    <2>5. Where'
      BY <1>1, <1>3, <2>3, <2>4 DEF Where, InPlay, Scenario, Skipped
    <2>6. Lines'
      BY <1>4, <2>1, <2>2, <2>3
    <2> QED
      BY <1>3, <2>5, <2>6
  <1> QED
    BY <1>5, <1>6

-----------------------------------------------------------------------------
LEMMA ConfInitially ==
  ASSUME Playable, ConformanceInit
  PROVE  ConfInv
  <1>1. h = NewRun(1) /\ call = NoCall
    BY DEF ConformanceInit, HarnessInit
  <1>2. /\ h \in Runs /\ h.run = 1 /\ h.phase = "next" /\ h.step = 1 /\ h.wait = None
        /\ h.inbox = <<>> /\ h.read = {}
    BY <1>1 DEF NewRun, Runs, Phases
  <1>3. Where
    BY <1>1, <1>2, CallTypes DEF Where, InPlay, Names
  <1>4. <<>> \in Seq(Upward) /\ <<>> \in Seq(Frames(Scenes))
    OBVIOUS
  <1>5. NewConn \in Wire(Scenes)
    BY <1>4 DEF NewConn, Wire, Link, EndStates, ServerStates
  <1>6. Lines
    BY <1>2, <1>5 DEF ConformanceInit, Lines, InPlay, NewConn
  <1>7. SceneOK([seq |-> 1, replay |-> EmptyRing, listeners |-> {}])
    BY EmptyHolds, FS_EmptySet DEF SceneOK
  <1>8. ServerOK
    BY <1>7, ServerAssumption DEF ConformanceInit, ServerInit, ServerOK, ScenesOK
  <1> QED
    BY <1>3, <1>6, <1>8 DEF ConfInv

LEMMA ConfStep ==
  ASSUME Playable, ConfInv, [ConformanceNext]_conformanceVars
  PROVE  ConfInv'
  <1>1. CASE Acts
    <2>1. UNCHANGED serverVars /\ HarnessActs
      BY <1>1 DEF Acts
    <2>2. CASE Begin \/ SetupAnswered \/ Dialled \/ DialFails
      BY <2>1, <2>2, BeginKeeps, SetupAnsweredKeeps, DialKeeps
    <2>3. CASE ResetAnswered
      BY <2>1, <2>3, ReportedKeeps DEF ResetAnswered
    <2>4. CASE FindsClosed
      BY <2>1, <2>4, NothingCameKeeps DEF FindsClosed
    <2>5. CASE Reads \/ HarnessHears \/ \E c \in Conns : HarnessSeesClose(c)
      BY <2>1, <2>5, ReadsKeeps, HearsKeeps, SeesCloseKeeps
    <2> QED
      BY <2>1, <2>2, <2>3, <2>4, <2>5, StepKeeps DEF HarnessActs
  <1>2. CASE TimerFires
    BY <1>2, NothingCameKeeps DEF TimerFires, TimesOut
  <1>3. CASE UNCHANGED conformanceVars
    <2>1. h' = h /\ call' = call /\ UNCHANGED <<conn, scenes, activeScene, subs, auths>>
      BY <1>3 DEF conformanceVars, serverVars, harnessVars
    <2>2. AllServe /\ ScenesOK(scenes') /\ AuthsOK(auths')
      BY <2>1, NoneServes DEF ConfInv, ServerOK, AuthsOK
    <2> QED
      BY <2>1, <2>2, ServerAlone
  <1> QED
    BY <1>1, <1>2, <1>3, ControlServesKeeps, TokenLookedUpKeeps, ServerHearsKeeps,
       TroubledKeeps DEF ConformanceNext

\* What the harness and the server keep in every behaviour: from the answer to its
\* setup on (test-control.ts setup) the server's scene is the run's own and nobody
\* else subscribes, since each run closes its socket and resets the server before
\* the next one dials (harness.ts runOne).
THEOREM ConformanceInductive ==
  ASSUME Playable
  PROVE  Spec => []ConfInv
  <1>1. ConformanceInit => ConfInv
    BY ConfInitially
  <1>2. ConfInv /\ [ConformanceNext]_conformanceVars => ConfInv'
    BY ConfStep
  <1> QED
    BY <1>1, <1>2, PTL DEF Spec

\* harness.ts reads nothing of another run's scene, and the server it drives has no
\* other subscriber, also when the sockets and lookups of earlier runs end late.
THEOREM ConformanceIsolates ==
  ASSUME Playable
  PROVE  Spec => []ScenarioIsolation
  <1>1. ConfInv => ScenarioIsolation
    <2> SUFFICES ASSUME ConfInv, h.phase = "steps"
                 PROVE  /\ subs \subseteq {h.run}
                        /\ \A f \in h.read : SceneData(f) => f.scene = Scenario.scene
      BY DEF ScenarioIsolation
    <2>1. subs \subseteq {h.run} /\ activeScene = Scenario.scene
          /\ h.read \subseteq Frames({activeScene})
      BY DEF ConfInv, Where, InPlay
    <2> QED
      BY <2>1, FrameKinds
  <1> QED
    BY <1>1, ConformanceInductive, PTL
=============================================================================
