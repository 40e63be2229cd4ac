--------------------------- MODULE AdapterClient ---------------------------
(***************************************************************************)
(* The headless LSDP 1.0 client of the Vue and Svelte adapters             *)
(* (runtime-vue/src/_internal/client.ts; runtime-svelte holds the same     *)
(* file).  Unlike the runtime's transport it never resumes: every socket   *)
(* starts from a snapshot, and only one socket is ever held.               *)
(*                                                                         *)
(* open() runs to completion except for one await, the host's token(); a   *)
(* token given as a string is the case that answers at once.               *)
(***************************************************************************)
EXTENDS WebSocketLink, SequenceTracker

CONSTANTS
    MaxBackoff      \* reconnectMaxMs, as a number of doublings

ASSUME AdapterAssumption == None \notin Conns /\ MaxBackoff \in Nat

VARIABLE
    adapter         \* what createClient keeps, and what it told the host

Subscribe == [type |-> "subscribe"]
Input == [type |-> "input"]
Malformed == [type |-> "malformed"]

\* `resets` is kept for the properties only: which snapshot is shown.
NewAdapter ==
    [active |-> TRUE, opening |-> TRUE, timer |-> FALSE, backoff |-> 0,
     ws |-> None, last |-> Fresh, state |-> {}, status |-> "connecting",
     scene |-> None, resets |-> 0]

\* A connection that was never used.
NextConn == CHOOSE c \in Conns : conn[c].client = "none"

\* scheduleReconnect(): at most one timer, and the delay doubles up to its cap.
Rescheduled(k) ==
    IF ~k.active \/ k.timer THEN k
    ELSE [k EXCEPT !.timer = TRUE, !.backoff = IF @ < MaxBackoff THEN @ + 1 ELSE @]

\* The timer fires, and open() runs up to its await.
Reopens ==
    /\ adapter.timer
    /\ adapter' = [adapter EXCEPT !.timer = FALSE, !.opening = TRUE, !.status = "connecting"]
    /\ UNCHANGED conn

\* token() rejected, or the WebSocket constructor threw.
OpenFails ==
    /\ adapter.opening
    /\ adapter' = Rescheduled([adapter EXCEPT !.opening = FALSE])
    /\ UNCHANGED conn

\* Fault: active is not looked at after the await.
TokenResolvesAnyway ==
    /\ adapter.opening /\ \E c \in Conns : conn[c].client = "none"
    /\ adapter' = [adapter EXCEPT !.opening = FALSE, !.ws = NextConn]
    /\ conn' = [conn EXCEPT ![NextConn].client = "connecting"]

\* token() answered: the socket is made, unless the host has left meanwhile.
TokenResolves ==
    /\ adapter.opening /\ \E c \in Conns : conn[c].client = "none"
    /\ IF adapter.active
       THEN /\ adapter' = [adapter EXCEPT !.opening = FALSE, !.ws = NextConn]
            /\ conn' = [conn EXCEPT ![NextConn].client = "connecting"]
       ELSE /\ adapter' = [adapter EXCEPT !.opening = FALSE]
            /\ UNCHANGED conn

-----------------------------------------------------------------------------
(***************************************************************************)
(* Events of the socket                                                    *)
(***************************************************************************)

OnOpen(c) ==
    LET opened == [conn[c] EXCEPT !.client = "open", !.down = Tail(@),
                                  !.protocol = Head(conn[c].down).protocol]
    IN  /\ conn[c].client = "connecting" /\ HeadIs(conn[c].down, "accept")
        /\ conn' = [conn EXCEPT ![c] = IF adapter.ws = None THEN opened
                                       ELSE ClientSend(opened, Subscribe)]
        /\ UNCHANGED adapter

\* handleServerFrame(frame), as the object and the socket after it.
SnapshotTaken(k, f) ==
    [k EXCEPT !.last = Observed(Fresh, f.seq), !.state = f.state, !.scene = f.scene,
              !.resets = f.resets, !.backoff = 0, !.status = "live"]

\* In order: applied.  A repeat is dropped; a gap lets go of the numbering.
DeltaTaken(k, f) ==
    CASE InOrder(k.last, f.seq) ->
            [k EXCEPT !.last = Observed(k.last, f.seq), !.state = @ \cup f.patches]
      [] Duplicate(k.last, f.seq) -> k
      [] Gap(k.last, f.seq) -> [k EXCEPT !.last = Fresh]

FrameTaken(k, f) ==
    CASE f.type = "snapshot" -> SnapshotTaken(k, f)
      [] f.type = "delta" -> DeltaTaken(k, f)
      [] f.type = "scene_changed" -> [k EXCEPT !.last = Fresh]
      [] OTHER -> k

OnMessage(c) ==
    LET f == Head(conn[c].down)
        w == [conn[c] EXCEPT !.down = Tail(@)]
    IN  /\ conn[c].client = "open" /\ conn[c].down # <<>>
        /\ f.type \notin {"accept", "close"}
        /\ adapter' = IF adapter.active THEN FrameTaken(adapter, f) ELSE adapter
        /\ conn' = [conn EXCEPT ![c] =
              IF adapter.active /\ f.type = "delta" /\ Gap(adapter.last, f.seq)
              THEN ClientClose(w) ELSE w]

\* Fault: the close event does not ask for a reconnection.
OnCloseForgotten(c) ==
    /\ ClientClosable(conn[c])
    /\ conn' = [conn EXCEPT ![c] = ClientClosed(@)]
    /\ adapter' = [adapter EXCEPT !.ws = None, !.status = "disconnected"]

OnClose(c) ==
    /\ ClientClosable(conn[c])
    /\ conn' = [conn EXCEPT ![c] = ClientClosed(@)]
    /\ adapter' = IF ~adapter.active THEN [adapter EXCEPT !.ws = None]
                  ELSE Rescheduled([adapter EXCEPT !.ws = None, !.status = "disconnected"])

-----------------------------------------------------------------------------
(***************************************************************************)
(* Calls of the host                                                       *)
(***************************************************************************)

Send(patches) ==
    /\ adapter.active /\ adapter.ws # None
    /\ conn[adapter.ws].client = "open"
    /\ conn' = [conn EXCEPT ![adapter.ws] = ClientSend(@, patches)]
    /\ UNCHANGED adapter

Dispose ==
    /\ adapter.active
    /\ adapter' = [adapter EXCEPT !.active = FALSE, !.timer = FALSE, !.ws = None]
    /\ conn' = IF adapter.ws = None THEN conn
               ELSE [conn EXCEPT ![adapter.ws] = ClientClose(@)]

AdapterEvent(c) == OnOpen(c) \/ OnMessage(c) \/ OnClose(c)
=============================================================================
