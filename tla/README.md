# Verification of lumencast-js

TLA+ models of lumencast-js: the LSDP session between the runtime and the
reference server, the replay ring a session is resumed from, the mount that turns
a session into what is painted, the machinery of the page (live bindings, capture
streams, peer rooms, the compiler's and the renderer's gates), and the tooling
around them (adapters, development server, conformance harness). TLC checks the
models on small instances; TLAPS proves the safety of the ring, the client, the
server, the session, the mount, the page's shared streams, an adapter on the
development server and the isolation of conformance runs for every value of the
constants. `PROJECT.json` says which lines of the source each definition models.

Paths below are relative to `src/packages/`.

## 1. The system

lumencast-js is the JavaScript implementation of LSDP, a protocol that keeps a
rendered scene in step with a server. A **scene** is a set of named leaves on
the server. A **client** opens a WebSocket, sends `subscribe`, and receives one
`snapshot` followed by numbered `delta` frames. On LSDP 1.1 a client that lost
its connection says the last number it applied (`since_sequence`), and the
server answers with the missed deltas when its replay ring still holds them.
A client may send `input` frames, which the server authorises, validates and
applies. The **mount** fetches the render bundle a snapshot names and paints.

| component | state | operations | interacts with |
|---|---|---|---|
| Sequence tracker (`protocol/src/sequence.ts`) | the last number | `observe`, `observeSnapshot`, `reset` | called by every LSDP client |
| Frames and codec (`protocol/src/envelope.ts`, `codec.ts`) | none | encode, decode, refuse | both ends |
| Replay ring (`server/src/replay-buffer.ts`) | records, head, size | `push`, `since` | filled by the scene, read by a subscribe |
| Scene (`server/src/scene.ts`, `store.ts`) | seq, leaves, listeners, ring, rejection | `update`, `applyInput`, `validateInput`, `onPatches`, `reject` | called by the server, adapters, host; calls its listeners |
| LSDP server (`server/src/server.ts`, `auth.ts`) | subscribers, active scene, authentications under way | connection, message and close handlers; `setActiveScene`, `reset`, `close` | WebSocket, scene, the user's `authenticate` |
| Runtime transport (`runtime/src/transport/`) | active, status, socket, token, timer, tracker, attempt | `start`, `setToken`, `sendInput`, `close`, socket events, timer | WebSocket, the user's token provider, the mount's callbacks |
| Mount (`runtime/src/mount.ts`, `render/bundle.ts`) | bundle cache, requests in flight, warmed versions, painted bundle, active | frame callbacks, roster warm-up, `disconnect`, end of a fetch | transport, HTTP, store, host |
| Leaf store (`runtime/src/state/`) | value and transition directive per path; reserved leaves | `reset`, `set`, `setWithTransition`; `onSnapshot`, `onDelta` of the observer | mount, renderer, host |
| Animation (`runtime/src/animate/`, `render/bind-animate.tsx`) | values buffered for a frame; animations in flight | the effect of a bound node and its cleanup, `push`, flush | store, `requestAnimationFrame`, framer-motion |
| Capture stream cache (`runtime/src/render/primitives/capture-stream-cache.ts`, `capture.tsx`) | stream and reference count per device | `claim`, `release`, the primitive's effect | React effects, the host's resolver, `getUserMedia` |
| Meet viewer (`runtime/src/webrtc/`) | rooms, peers, negotiation state, stream registry, owners of labels | join, leave, `setRooms`, signalling messages | signalling socket, `RTCPeerConnection` |
| Compiler (`compiler/src/`) | none | lowering, audit and bounds of a node | documents; the renderer repeats its gates |
| Renderer (`runtime/src/render/`) | none | what a node's props, compiled or live, paint | store, React |
| Vue and Svelte adapters (`runtime-{vue,svelte}/src/_internal/client.ts`) | socket, timer, tracker, values | connect, dispose, messages | WebSocket, tracker |
| Development server (`dev-server/src/server.ts`) | subscribers with a number each, state | subscribe, delta, scene change, HTTP controls | WebSocket |
| Test control (`server/src/test-control.ts`, `cli.ts`) | token store, bundle provider | set-up, reset, emit, state | server, harness |
| Conformance harness (`protocol/src/conformance/`) | the run, its step and timers, results | steps of a scenario, verdict | a server and its control plane |
| Polling adapter (`server/src/adapters/`) | timer, stopped | tick, stop | scene |
| Canonical form, archive | none | hashes, packing | - |

### What is hard, and what makes each part correct

* **Replay ring.** Index arithmetic of a head that has wrapped, and the edge of
  what the ring still covers. Correct when a covered `since` returns exactly
  the later numbers, in order, and when a cursor within the window is covered.
* **Server.** `handleMessage` is synchronous except for one await,
  `authenticate`; updates, swaps, resets, the connection's own close and
  further messages of the same connection come in between. Correct when a
  subscriber's stream has no hole and no repeat, an open connection follows the
  active scene, and every subscribe is answered.
* **Transport.** `openSocket` awaits a token; old sockets keep their handlers;
  the handlers act on the *field* that holds the socket and not on the socket
  they belong to. Correct when the client is never left waiting for nothing,
  `close` is final, and what the host is told is one state of one scene.
* **Mount.** A snapshot waits for its bundle, deltas do not wait. Correct when
  what is painted is what the stream says, a bundle is fetched once, and
  nothing is painted after `disconnect`.
* **Live bindings.** Values wait for a frame, one per key, while nodes come and go
  and some values are refused. Correct when the last value, if it is a good one,
  is shown in the end.
* **Capture.** Effects wait for the host's resolver and for a device that others
  share. Correct when a device is open exactly for those who show it.
* **Peers.** Two handlers of one connection run between each other's awaits, and
  offers cross; rooms close and open again while their connections still report.
  Correct when viewer and peer come to agree, and a label resolves to who is there.
* **Compiler and renderer.** Bounds, enumerations, hosts and prop names are written
  down twice, since a live value has seen no compiler. Correct when the two agree,
  and nothing an author wrote is lost without a word.
* **Adapters, development server, conformance.** Another client and another server
  with other rules of numbering; a harness whose runs follow each other on one
  server. Correct when the adapter shows what was published and is silent once
  disposed, and when a run's outcome does not depend on the run before.

`PROJECT.json` lists the hazards line by line, with the property that covers
each.

## 2. The modules

```
SequenceTracker ──┐                       ReplayBuffer ── Scene ── SceneProofs
LsdpFrames ───────┼── WsClient ──────┐           │        └ (INSTANCE) ServerAnyClients
WebSocketLink ────┤     │            │           │
  (external)      │  ClientAnyServer ├── LsdpSession ── LiveView (refined)
                  │     │            │    │      └──── SessionProofs
                  │  MCClient,       │  MCSession
                  │  ClientProofs    │
                  └── LsdpServer ────┘
                        │
                     ServerAnyClients ── MCServer, ServerProofs

LeafStore ── Mount ─┬─ MCMount
                    └─ PageProofs ── CaptureCache, PeerRooms, RenderedNode

SequenceTracker, WebSocketLink ── AdapterClient ┐
                 WebSocketLink ── DevServer ────┴─ DevSession ── DevProofs
LsdpServer ── TestControl ┐
LsdpFrames ── Harness ────┴─ ConformanceRun ─┬─ MCConformance
                                             └─ ConformanceProofs

PageValues ┬─ Compiler ┐
           └─ Renderer ┴─ RenderedNode ┬─ PageProofs
FrameBinding, CaptureCache ────────────┼─ MCPage
MeetViewer, PeerRooms, DevSession ─────┘

ReplayBuffer, WebSocketLink ── CommonProofs ── the proof modules of the scene, the
                 client, the server, the session, the adapter and the conformance run
```

**`SequenceTracker`** The three methods as functions of `lastSeq`: is a number
in order, a duplicate or a gap, and what is the next state.

**`ReplayBuffer`, `Scene`** The ring as the record it is in the code (an array of
slots, `head`, `size`) with `push` and `since`; the scene is the counter that
feeds it. The content of a scene is a function of its number, so numbers stand
for states and no leaf values are kept.

**`LsdpFrames`** Frames as records with the fields the handlers look at. What a
decoder refuses is one of three malformed frames: wrong envelope version, fatal
error, recoverable error.

**`WebSocketLink`** The browser's WebSocket and the `ws` package, from how the
code uses them: two ends, a FIFO queue each way, the closing handshake, and a
transport that may fail and lose what is in flight. External.

**`LsdpServer`** One action per handler, split only where the code awaits: a
subscribe is `RecvSubscribe` and, later, `AuthRefused`, `RefuseScene` or
`ServeScene`. `subs` is the `subscribers` set, `sub` the `Subscriber` objects,
`auths` the calls suspended in `authenticate`, `scenes[s].listeners` the
`onPatches` registrations. `Emit` is `store.apply` with everything its listeners
do: count, record, send to each. `ServerAnyClients` closes it with clients that
may send any frame at any time.

**`WsClient`** `client` is the object's fields, `opening` the `openSocket` calls
suspended while a token is resolved, `resolved` the token each `onopen` closure
captured, `view` what the callbacks have told the host. `OnOpen(c)`, `OnClose(c)`
and the message actions may come from any connection ever made, and act on
`client.socket` as the code does. `ClientAnyServer` closes it with a server that
may send any frame, close with any code, or vanish.

**`LsdpSession`** The two together on the same connections, plus *trouble*: cut,
reset, swap, token swap, second `start()`, failing token fetch. **`LiveView`** is
what a session promises: the scene moves on, and what is shown is always one of
the states the scene has been in.

**`LeafStore`, `Mount`** The store's values and directives; the mount's frame
callbacks, `get()` with its cache and shared requests, the warm-up, `disconnect`.
A fetch ends in one step: filling the cache, clearing the in-flight entry and
resuming the waiters are microtasks of one task, so no frame comes in between.
`waiting[v]` is the sequence of `onSnapshot` calls suspended on version `v`.
`stream` is not in the code: it is what the frames received so far say.

**`AdapterClient`, `DevServer`, `DevSession`** The headless client of the Vue and
Svelte packages (one file, twice) and the development server. `adapter` and `dev`
are the variables the two closures keep. The state of a scene is the set of
updates that made it, so that a lost, repeated or misplaced delta shows.

**`TestControl`, `Harness`, `ConformanceRun`** The control plane over `LsdpServer` and
its token store; the harness as the program counter of `runConformance`, `runOne`
and `Exec`: each await is a state, `h.wait` says which. A frame of a scenario is a
template, matched by type and fields.

**`FrameBinding`** `useBindAnimate` with the coalescer: `leaves`, what waits, what is
shown, what is on its way.

**`CaptureCache`** One element of `claims` per run of the Capture primitive's effect,
at the await it has reached; `cache` and `acqs` are the module's map and the
acquisitions it shares. `nodeStream` is the primitive's React state `stream`, which
only a successful claim sets and only an unmount destroys; `nodeVideo` is what its
`<video>` plays, there for visual kinds only and attached when the state changes.

**`MeetViewer`, `PeerRooms`** `MeetViewer` is one viewer and one peer: `remote` is the
`RemoteState` with the connection's signalling state and its chain of operations,
`up` and `down` the relay. `PeerRooms` takes negotiation as done and models what
`index.ts` does with several viewers, one registry, and sockets that end late.

**`PageValues`, `Compiler`, `Renderer`, `RenderedNode`** A node as a record of authored
keys; its lowering, and what the renderer reads of the result, as operators. A
number is in tenths, `-0` a value of its own (it passes `< 0`), everything that is
not a number, a string or an object of the right shape is *malformed*; colours
are valid or not; a painting is the sequence of styled boxes around a primitive.
`RenderedNode` compiles a document, mounts it and lets values arrive on bound props.

**`MCPage`** A sum: the variable `part` chooses, once, which of the systems that share
no state runs, so that states add up and do not multiply.

Definitions marked *Fault* are not part of the specifications. Each changes the
definition that follows it the way a plausible bug would, and shows that the
property named in `PROJECT.json` "mutants" can fail.

## 3. The runs

| run | question | bounds | result |
|---|---|---|---|
| `Scene` | Is `since` right at every position of a wrapped ring? | capacity 5, numbers to 130 (25 laps) | holds |
| `ServerSubscribe` | Is a stream complete, whatever happens while its subscriber is authenticated? | 2 connections, 1 subscribe each from any number, 2 scenes of 4 numbers, capacity 2, tokens good and bad | holds |
| `ServerFrames` | Who is served what, and is every subscribe answered? | 1 connection, any 2 client frames, 3 scenes (one rejected), cuts | holds |
| `ClientLifecycle` | Is the client ever stranded, or alive after `close`? | 2 connections, any server, any host calls | holds |
| `SessionSafety` | Is what the host is told one state of the scene? Does the session implement `LiveView`? | 4 connections, any 3 of cut, reset and failed token fetch, 4 numbers, capacity 1 | holds |
| `SessionLive` | Does the host come to be shown the latest state? | 5 connections, 1 trouble, 3 numbers | holds |
| `SessionSwap` | ... also across a scene swap? | 2 scenes, 1 swap | **violated** |
| `SessionToken` | ... also across a token swap? | 4 connections, 1 `setToken`, 4 numbers, LSDP 1.0 | **violated** |
| `MountSafety` | Are bundles fetched once, is nobody left waiting, is the painted view the stream? | 2 versions, 2 paths, 4 frames, failing fetches | holds |
| `Conformance` | Does a run have the outcome that is due, whatever the run before left behind? | 4 scenarios, 2 of which connect, 2 troubles | holds |
| `Page` | Are devices, labels, negotiations, live values and the two gates of a value right? Does a Vue or Svelte adapter show what was published, catch up, and keep silent once disposed? | bindings: 2 keys, 4 values published; capture: 2 nodes, 3 claims; meet: 2 negotiations of the peer; rooms: 2 rooms, 2 peers of one name, 2 viewers; 1450 documents; adapter: 2 connections, 2 updates, 1 trouble, 1 reset | holds |
| `MountLatest` | Is the newest snapshot's scene painted in the end? | the same, no failures | **violated** |

**Why the bounds are enough.** *Scene*: the slot a number lands in depends on the
number modulo the capacity, and the walk of `since` on where the head is; 25
laps pass every combination many times, and the proofs below remove the bound.
*ServerSubscribe*: capacity 2 with 4 numbers makes the ring overwrite records
while a subscriber waits, so resumes are covered, just covered and too old; two
connections make one subscriber's detachment and another's attachment meet.
*ServerFrames*: two frames are enough for a second subscribe, an input before or
during a subscribe, and a malformed frame after one. *ClientLifecycle*: two
connections are the old socket and the new one; `opening` allows two suspended
calls. *Session*: four connections and three troubles let a trouble come during
the recovery from another; capacity 1 makes resumes fail often. `SessionToken` is at
LSDP 1.0, with clients that offer nothing else: a runtime that meets a server
which knows only 1.0 is in the same position. In
`SessionLive` five connections are more than one trouble can consume, so the
bound on connections never stops a recovery. *Mount*: with four frames a
snapshot can wait while a delta, a second snapshot of the same scene and one of
the other scene arrive, in any order.
*Conformance*: the scenarios hold every kind of step, an update that is refused, a
token that is refused, a frame that must be asked for again and, between two runs
that connect, one whose set-up fails half-way; the numbers of the scenes stay below
`MaxSeq`.
*Page*: in `FrameBinding` four values are a good one, a refused one, the same key
again and the other key, across one unmounting. In `CaptureCache` three claims on
two nodes let a claim join an acquisition, outlive it, and follow it under the
same key, and let a node keep a stopped stream; both kinds are visual, the audio
kinds are left to the theorem. In `MeetViewer` two wants of the peer and the viewer's own make glare,
rollback and a second exchange; candidates are one per description. In
`PeerRooms` two viewers are two rooms at once, or one that is closed and opened
again; both peers have one name, the worst case. The documents of `RenderedNode`
give every key that any of the eleven kinds consumes (and one that none does) every
value of a small set that holds a good value, one beyond each bound, and malformed
ones; bound props take the same values live, next to the props they interact with.
Of the adapter's two connections one is the old one and one the new; the second update
comes while the first is on its way, with one trouble between or after.
`MaxAttempt` makes the backoff counter saturate; the delay it computes is not
modelled, a timer may fire at any moment. Deadlock is not checked: the host and
the server may stop, and the bounded instances do.

**Symmetry** is used in `ServerSubscribe` only, on connections, which no
constant distinguishes; the run has no temporal property.

**Fairness.** `SubscribeAnswered` assumes that the server's event loop delivers
what arrived on each connection and that the user's `authenticate` settles;
nothing is assumed of the clients, of the host or of the network. `ViewCatchesUp`
assumes in addition that the client's event loop delivers its events, timers
fire, token fetches settle, and the host calls `start` once. No assumption says
that trouble ends: it ends because `MaxTrouble` bounds it, and the property is
about what follows. `DevCatchesUp` assumes the same of the adapter's page and of the
development server; `HarnessEnds` that the harness's timers fire and that the control
plane and the server handle what has arrived, but not that a frame ever comes.
`LatestGoodReached` assumes that frames come while the node is mounted and that
animations end; nothing makes a node stay mounted. `MeetSettles` assumes that
both ends hear what was sent, that the platform finishes its chained operations and
fires `negotiationneeded`, and that the peer makes the offers it needs; it is only
about pairs that stay together.

### What the passing properties say

* `StreamComplete`: between reading the number, replaying and registering the
  listener nothing can slip (`server.ts:203-236` has no await); removing the
  coverage test breaks it.
* `OpenFollowsActive`, `OneScenePerConnection`: authentication that ends after a
  swap attaches to the scene active then; a connection never carries two scenes.
* `NeverStranded`: in every state a started, unclosed client has a live socket, a
  timer or a suspended `openSocket`.
* `ViewIsOneState`: cuts, resets, failed token fetches and a host that closes may
  come at any moment of a recovery, and resumes fail or succeed: the host never
  sees a state the scene was not in. The proof shows why, and what it rests on: one
  socket at a time feeds the tracker. Where two do, the property fails (below).
* `UndisturbedViewIsStream`: as long as no frame overtakes a waiting snapshot and
  no fetch fails, the store and the bundle are the stream's. `MountLatest` shows
  that the condition is needed.
* `LiveShowsPublished`, `NumbersNeverGap`: the development server counts for
  connections that have not subscribed, and counts error frames that the adapter
  does not; a snapshot that starts both again is what keeps them together.
* `ScenarioIsolation`, `PromptServerPasses`: a run's set-up detaches what an earlier
  run left attached, so the verdict is a function of the scenario, unless a request
  failed or a frame came after the harness had stopped waiting for it (`late`).
* `StreamsFollowHolders`: an effect that is cleaned up while it waits gives its claim
  back when it goes on, so no interleaving leaves a device open or closes one that
  a node holds a claim on, and such a node's state is that live stream. It does not
  say that whatever a node paints is live: after a change of source it paints the
  stream of before until the new claim succeeds, which may be never (below). Two suspicions about the cache alone - a release before the stream is
  there, an eviction that hits another consumer's entry - are unreachable with its
  only user.
* `MeetSettles`: glare ends in one exchange, and the candidates that waited are
  handed over; the exception (`stranded`) is below.
* `LabelsFollowPeers`: closing and opening rooms while old connections still report
  never misdirects a label, but for the cases in `disputed`, which are below.
* `NoSilentDrop`, `LiveIsAuthored`: what the two audits let fall in silence, and
  where the two gates differ, is exactly what `KnownSilent`, `RendererOnlyBlend`,
  `LooseTransform` and `MaskEatsBlend` name.

### The violated properties

* **`SessionSwap`.** After `setActiveScene` the client keeps its tracker and
  resumes with the *old* scene's number, which the server compares with the new
  scene's. When the new scene is at least as far, the answer is deltas of the
  new scene on top of the old scene's leaves.
* **`SessionToken`.** `setToken` closes the socket and schedules a reconnect, but
  the old socket's `onclose` is still installed: it clears the field, even when it
  already holds the new socket, and schedules another reconnect. Two subscribed
  sockets follow, which feed one tracker, and each `handleOpen` may reset it. A
  tracker that is fresh takes the next *delta* as its baseline, whatever lies
  between it and what the host was shown, and the host is told a mixture of two
  states. `ws.ts:148` speaks of one reopening, `ws.ts:257-258` of a snapshot as the
  only way to set the baseline. With a server that speaks 1.1 a reset needs a
  socket that opens while the field holds one that is still connecting: two
  `setToken` calls, five connections and three numbers show the same mixture, in a
  search too long to keep as a run.
* **`MountLatest`.** Two snapshots are applied in the order in which their bundles
  arrive, so that a slow bundle paints an older scene over a newer one, for good.

### Other divergences seen while modelling

The models show these too; each can be reproduced by adding the property to a
configuration.

* `start()` while a reconnect timer is pending opens a second socket: the guard
  looks at the field and at the status only (`runtime/src/transport/ws.ts:126`).
  With a cut at the right moment the mixture of `SessionToken` follows from it too.
* A socket the field no longer holds still delivers messages after `close()`, and
  a snapshot on it sets the status to `live` again (`ws.ts:158`, `270`).
* `setToken` while a token is being resolved changes the field only: the session
  goes on with the old token (`ws.ts:133-134`, `148-156`).
* `ws.ts:11-12` and `runtime/README.md:155` call the token swap parallel and free of
  flicker; the old socket is closed before the new one is made.
* A second `subscribe` on one connection replaces the first one's unsubscribe
  handle, and a listener registered after the detachment is not found by it: such
  a listener is removed by no swap (`server/src/server.ts:229-234`).
* An input of a subscriber that has been detached, read while the close is
  pending, is applied to the scene that replaced its own (`server.ts:279`).
* An input that arrives while its own connection's subscribe is in `authenticate`
  is answered with the fatal `AUTH_DENIED`, "input before subscribe"
  (`server.ts:244-245`), which closes the client for good.
* A client resumed by replay receives no snapshot: its status stays `connecting`
  and its backoff is not reset (`ws.ts:270-271`, `reconnect.ts:35`).
* `handleProtocols` returning false does not make the `ws` package refuse the
  upgrade, as the comment in `server.ts` says.
* A waiting snapshot overwrites the deltas that came after it and were applied at
  once (`mount.ts:96`, `247`).
* `store.reset` clears the transition directives of the paths in the snapshot;
  `store.ts:34-36` says all pending ones.
* A bundle request that fails after `disconnect()` still calls `onError`
  (`mount.ts:238-244` tests `active` only after the catch).
* The impolite viewer ignores an offer that arrives while it is applying the peer's
  answer: the state is read before the await and there is no pending-answer flag
  (`webrtc/meet-viewer.ts:269-272`; `:11` calls it perfect negotiation). The peer,
  for whom nothing collided, waits for an answer that never comes.
* After a connection fails, a signal still on its way makes the entry again, named by
  the prefix of the peer's id and not by its label (`meet-viewer.ts:263`).
* A room that was refused a label is not asked again when the owner releases it: there
  is no new track event. `webrtc/index.ts:143` and `:186-187` say it takes over. A
  socket that drops closes its connections without an event, so its labels stay
  owned and resolve to dead streams; a room that is closing may take a label it has
  just given up; two peers of one name in a room replace each other; and a join that
  fails is not tried again while the set of rooms stays the same.
* A good live value that a refused one follows within one frame is lost with it
  (`render/bind-animate.tsx:307`).
* An animated node's blend is isolated by the box the animation adds outside of it,
  which the comments on blending exclude (`bind-animate.tsx`, `tree.tsx`).
* A mask that is recognised as an object takes the node's blend over before it is known
  to be buildable (`render/tree.tsx:126`, `290`): when it is rejected the blend is lost.
* The runtime blends with `plus-lighter`, the compiler does not know it, though
  `render/blend-mode.ts` mirrors the compiler's list; only the compiler bounds
  gradient transforms; a path that does not start with a move compiles and is then
  dropped, with a diagnostic.
* `filter-clamp.ts:110` describes the only string the compiler emits; the compiler
  emits any finite number, the expression takes four decimals.
* The allow list that mirrors what primitives read (`render/prop-allowlist.ts`) has
  `shadow`, `opacity` for kinds that do not read them, and lacks `radius` and
  `flipY` of a frame; `size` alone is ignored where the box is made with the position.
* `primitives/capture.tsx:21-23` says that any failure falls back to the placeholder.
  After a change of source it does not: the cleanup (`:94-98`) releases the old stream,
  which may stop it, the state `stream` is set only at `:86`, and the `<video>` (`:121`)
  stays with the old, stopped stream while the new claim is pending, and for good when
  that claim ends at `:76` or `:87`. `ChangeSource`, `Done` and `DeviceFails` do the same,
  and `StreamsFollowHolders` leaves such nodes out.
* A `<video>` that is rendered anew for a stream the state already had gets no `srcObject`
  (`:106-113` runs on a change of `stream`): a node that goes from a camera that another
  node keeps open to a microphone, and back before or without getting it, shows nothing.
* `token()` that rejects after `dispose()` still calls `onError`
  (`runtime-vue/src/_internal/client.ts:107-108`), which `:60` excludes.
* `POST /__mock/reset` tells nobody: an adapter shows the state from before until
  the next scene change (`dev-server/src/server.ts:355-363`).
* The harness asks for a late delta again after 150 ms, and the first one then answers
  the wrong step (`conformance/harness.ts:270-287`); `expect-client-action` passes
  without looking.
* A poll in flight still updates its scene after `stop()`
  (`server/src/adapters/http-poll.ts:35`).
* `ReplayBuffer.reset` is called by nothing, though documented as "Used on
  scene_changed": a scene keeps its ring for life, a swap brings another scene.

## 4. The proofs

Eight modules hold theorems. All safety properties of the runs `Scene`,
`ServerSubscribe`, `ServerFrames`, `ClientLifecycle`, `SessionSafety` and
`MountSafety` are proved, those of `Conformance` but for `PromptServerPasses`, and of
`Page` those of the adapter, the two about shared streams and `NoSilentDrop`, with a
good part of `LiveIsAuthored`: for every value of the constants, under the assumptions
the modules state: `CapAssumption`, `MaxSeqAssumption`, `ServerAssumption`,
`ClientFramesAssumption` (a subscribe carries a token and a natural number),
`ClientAssumption` (the server's frames have the fields their types have),
`SessionAssumption`, `MountAssumption`, `RoomsAssumption` (a page has finitely many
rooms), `AdapterAssumption` (no socket is `None`; the backoff has a bound),
`DevServerAssumption` (the server starts with one of its scenes),
`DocumentsAssumption` (a document has its fields, a kind the compiler knows, and both
halves of every pair, as the types of LSML have it). TLC evaluates each of them. The
theorems about the conformance run have a hypothesis, `Playable`, which says what a
suite is: a scenario that is neither skipped nor without a bundle id has a connection
of its own, a scene of the server and at least one step, and what its steps send are
frames of a client. TLC evaluates it on the suite of the run (`ScenariosArePlayable`).

**The ring** (`CommonProofs`, `SceneProofs`). None of the scene's invariants is
inductive, for the ring's `head` is not mentioned in them. `Holds(ring, seq)` says
where every number is: the slots before `head` were written on the current lap,
slot `j` holding `seq + 1 + j - head`; once the ring is full the slots from `head`
on were written a lap earlier, and hold `Cap` less. A push overwrites the slot at
`head`, the oldest one, and either moves the boundary by one or, at the end of the
array, starts a new lap. The only arithmetic beyond linear is the modulus;
`OneLap` reduces it to a case split. The window, and from it the four properties
of `since`, are read off `Holds`. `Missed` is the walk of `since` in the code; so
that its result can be proved it picks the later records with the recursive function
`Past` and not with `SelectSeq`, which the provers cannot look into.
`MissedContent` then says what a resumed subscriber is sent: the
missed numbers, one after the other. The same lemmas are used by the server and
the session, where each scene has a ring of its own.

**The server** (`ServerProofs`), against clients that may say anything. The
inductive invariant is `ServerInv`: the types, with `Holds` for each scene's ring
(`ServerOK`), and four statements about each connection. `AsSaid`: what is on the
wire or in `authenticate` was said by the client. `Due`: whoever is fed, or was
sent data, had a token accepted, to a scene not rejected. `Settled`: a connection
that is open is within the reach of `detachAllSubscribers`, is fed by the active
scene only, and all its data is of that scene - it is this, and not
`OneScenePerConnection`, that a step preserves. `OnceInv`: the only subscribe of a
connection is on the wire, in `authenticate`, or served by one listener, in which
case the queue is a `Run` of that scene's numbers up to the current one. With it
`ServerStreamComplete` follows; `ServerOpenFollowsActive`, `ServerOneScene`
and `ServerServesWhatIsDue` follow from the other parts. The properties speak of the
positions of the queue that hold data, not of the filtered queue, so that no
filter has to be reasoned about. `ServerScenesNumberUpdates` is a refinement:
each scene implements `Scene`, with inputs, swaps, resets and any number of
subscribers going on around it.

**The client** (`ClientProofs`), against any server. `ClosedForGood` is inductive
once the object is known to have its fields (`Object`): every method either tests
`active`, as `scheduleReconnect`, `close` and the continuation of `openSocket` do,
or only clears. `NoneMadeAfterClose` rests on one lemma per operation of a
connection, that it never takes the client's end back to `connecting`. The others
come from `ClientInv`: each link is one on which the client speaks a subscribe
first (`Good`), the socket in the field has its subscribe in front of the queue
or is still to open (`Held`), and an open client that was started waits for a
timer, a token or a socket (`Waits`). `CommonProofs` has what the operations of
`WebSocketLink` keep of a link, whatever travels on it; every proof about
connections cites it.

**The session** (`SessionProofs`): client and server over the same connections.
`SessionViewIsOneState` and the refinement `SessionImplementsLiveView` (every step is
`Publish`, `Show` or a stutter of `LiveView`) are proved for any number of
connections, tokens, updates and troubles, any grants, capacity and protocol, under
`Trouble \subseteq {"cut", "reset", "token fails"}`. The hypothesis leaves out exactly
what breaks the properties: a swap (`SessionSwap`), a token swap (`SessionToken`),
a second `start()` together with a cut. `SessionInv` says

* `Single`: a socket that is being made or is open is the one the field holds; next
  to it there is no timer and no `openSocket` call, and of these calls there is at
  most one. This is what a token swap destroys, and all the rest depends on it;
* `Shown`: the view is the content of number `n`, and the tracker is at `n` or fresh;
* `Stage`, for each connection: its one subscribe is on the wire or in
  `authenticate`, carrying the tracker's number (`Waiting`), or was answered and
  what waits in the queue takes the tracker on number by number, at most one
  snapshot among it and at the head (`InStep`), up to the scene's number as long
  as the link is whole (`Complete`), while one listener feeds it.

The step lemmas go through the tracker only where a frame is read (`DataRead`), an
answer is given (`AnswerContent`, by `MissedContent`) or an update is sent
(`UpdateJoined`); that the client never meets a gap, and that a delta never sets
the baseline, are consequences (`NothingElseIsHeard`, `DataArrives`).

**The mount** (first part of `PageProofs`), for any versions, paths and number of frames.
`FetchInv`: a version is in flight exactly while one request for it is
outstanding, it is then not cached, and whoever waits for it keeps it in flight.
`MountCamLeaves` is inductive with the shape of `stream` and with `raw` being the
reserved part of it. `MountUndisturbedView` is inductive as `PaintInv`: either
nobody waits and the view is the stream's, or one snapshot waits, it is the
newest, and restoring it gives the stream's values. What a bundle's arrival does
to several waiting snapshots is the recursive function `ResetInTurn`;
`MountTypeCorrect` is proved for any number of them.

**The page** (second part of `PageProofs`), for any nodes, devices, rooms and peers. `CaptureInv`:
an entry of the cache is of an active acquisition of its key, active
acquisitions have an entry, and its reference count is the number of claims that
wait for or hold it. `NodesInv`, inductive together with it: no two nodes have one
claim, every claim that was not cleaned up is that of a node, a claim that holds has
set its node's state, and a `<video>` plays that state, for a visual kind. `RoomsInv`: for a label that is not `disputed`, there is a
registered stream exactly if one open viewer has a live connection to a peer of
that label, and there is then only one, whose viewer is the label's owner.

**The authored node** (last part of `PageProofs`), for any set of documents with any keys
and values. `NodeInv`: a node that was compiled is what its document, which was not
refused, compiles to; once mounted it has been audited, and its leaves hold what was
published. `PageNoSilentDrop` rests on three lemmas about the tables of the two
halves, each a case split on the kinds: what the compiler's audit lets through is
lowered (`AuditedIsLowered`); what a key is lowered to is read by the component of
that kind, or by the boxes around it, or is not in the renderer's allowlist and so
reported, but for `KnownSilent` (`LoweredIsHeard`); and the transition of an allowed
animation is where the renderer looks (`TransitionFound`).
`PageEffectsAreAuthored` is `LiveIsAuthored` for a node that binds one of eight effects:
`blur`, `backdropBlur`, `shadow`, `noise`, `texture`, `glass`, `blendMode`, `mask`. Its
hypothesis gives the shape of what is published for them (`EffectValues`), with any
integer, `-0` or string in each place, where the run has five values. It has two
halves: the compiler's gate followed by the renderer's is the renderer's (`BlurGates`
to `ShadowGate`, gathered in `EffectGates`), and nodes whose effects come to the same
are painted alike (`PaintedAlike`), because nothing else of a compiled node depends
on the key of an effect (`RestAlike`).

**The adapter and the development server** (`DevProofs`), for any number of
connections, updates, resets and troubles. The adapter's tracker does not count what
the server counts: the server numbers connections before they subscribe, and numbers
error frames that the adapter does not count. `DevInv` therefore speaks of *views*
(a number, a state, a scene, how many resets) and of how a frame moves one (`Moves`).
`Single`: an active adapter has at most one of a socket, a call of `open()` and a
timer. `Stream`, for each connection: there is a sound view `x` from which the frames
that wait lead, one by one (`Reach`), to where the server is, if nothing was lost
(`Fed`); on the connection the adapter hears, no number beyond `x` was passed, and what
is shown as live is `x` (`Agrees`). A sound view is one the server has been in
(`Sound`), if no reset came after it, so a live adapter that every reset has reached
shows a published state, and a frame in front of the queue
is the one `x` is followed by, so the tracker meets no gap. That a resumed, reset or
replaced connection starts a walk of its own with a snapshot is what keeps the two
counts together. `AdapterSilentOnceDisposed` is an action property of the steps.

**The conformance run** (`ConformanceProofs`), for any suite that is `Playable`, any
tokens, grants, protocols and number of failures. A run is isolated because its
set-up, its connection and its reset come in order, while closes and token lookups of
the runs before it may still be under way. `ConfInv` says: `Where`, that from the
answer to the set-up until the reset the active scene is the run's and at most its own
connection subscribes; `Lines`, that the connections of later runs are untouched, that
only the run in `dial` has one that is being made, and that on the run's connection
only data of the active scene waits; `ServerOK`, the server's own types. The proof
has two halves. What the server, the control plane and the network do to one
connection is `Serves`: the client's end stays, an unused connection stays unused, and
for every set of scenes that holds the active one, a link that carried only data
of that set still does. It is a preorder, so that a handler is the composition of
its sends and closes, and it is proved once for each operation. `PlaysOn` is the other
half: what a step of the harness has to keep. `ScenarioIsolation` then follows from
`Where` and the type of a frame.

**What stays with TLC.** All liveness (`SubscribeAnswered`, `ViewCatchesUp`,
`DevCatchesUp`, `HarnessEnds`, `LatestGoodReached`, `MeetSettles`): the prover does
not do `ENABLED`. `PromptServerPasses`, whose truth depends on what the scenarios
themselves expect of the server: for a suite in general it is false, and to say which
suites describe the reference server is to interpret them, a recursion over
their steps. `LiveIsAuthored` for layers of paint and for paths: both halves filter
the layers, on different grounds, and that the filters commute is an induction over
`SelectSeq`, which the provers cannot look into. And the session under the other kinds of trouble,
where the two safety properties are not true.

## 5. Not modelled

* Canonical form and archive: hashes and packing over bytes, no state.
* Of the compiler: text runs, keyframe timelines, the scopes of `repeat`, fonts, the
  tree of nodes. Of the renderer: React, the DOM, animation players, the tree around
  a node, and CSS beyond which declarations there are. Both are pure; `RenderedNode`
  takes one node at a time.
* Transition values and keyframe timelines (`animate/transitions.ts`, `keyframes.ts`):
  what framer-motion is told. Only where a channel looks its timing up is modelled.
* The polling adapter: one loop around `fetch`.
* The parsing of scenario files, requests and command lines, and reports.
* The listeners of the peer-stream registry and its order of arrival; codec preferences.
* The HTTP bundle endpoint of the server (stateless).
* The length of delays: timers fire at any moment.
* `PROJECT.json` "components" gives the state of each part.

## 6. Plan

Done: the session; the mount and its store; media (`CaptureCache`, `MeetViewer`,
`PeerRooms`); adapters and development server; the frame coalescer; test control and
harness; compiler and renderer for one node.

What is left to model, in order: transition precedence and keyframe normalisation;
the tree around a node (`repeat` scopes, masks that refer to nodes of other
branches); the polling adapter.

Theorems left: `LiveIsAuthored` for layers and paths; a session with a scene swap, for the cases in which the new scene is
behind the old one; two adapters on one development server.
