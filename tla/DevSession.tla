----------------------------- MODULE DevSession -----------------------------
(***************************************************************************)
(* One Vue or Svelte adapter connected to the development server: every    *)
(* step is a step of AdapterClient, of DevServer or of the network.        *)
(* Trouble - a cut, a refused input, a failed open, a reset or shutdown of *)
(* the server - comes at any moment, MaxTrouble times in all.              *)
(***************************************************************************)
EXTENDS AdapterClient, DevServer, FiniteSets

CONSTANTS MaxTrouble

VARIABLE trouble

devSessionVars == <<conn, adapter, dev, updates, resets, published, trouble>>

DevSessionInit ==
    /\ conn = [c \in Conns |-> NewConn]
    /\ adapter = NewAdapter
    /\ DevInit
    /\ trouble = 0

AdapterSide == UNCHANGED <<devVars, trouble>>
DevSide == UNCHANGED <<adapter, trouble>>

AdapterHears(c) == AdapterEvent(c) /\ AdapterSide
AdapterReopens == Reopens /\ AdapterSide
AdapterConnects == TokenResolves /\ AdapterSide
AdapterSends ==
    /\ updates < MaxUpdates /\ \A c \in Conns : ~Contains(conn[c].up, Input)
    /\ Send(Input) /\ AdapterSide
AdapterLeaves == Dispose /\ AdapterSide

DevHears(c) ==
    (DevAccepts(c, {"lsdp.v1"}) \/ DevReceives(c) \/ DevSeesClose(c)) /\ DevSide
DevHost ==
    /\ \/ PushDelta
       \/ \E s \in Scenes : SwitchScene(s) \/ RegisterBundle(s)
    /\ DevSide

Troubled ==
    /\ trouble < MaxTrouble
    /\ trouble' = trouble + 1
    /\ \/ (\E c \in Conns : Cut(c)) /\ UNCHANGED <<adapter, devVars>>
       \/ Send(Malformed) /\ UNCHANGED devVars
       \/ OpenFails /\ UNCHANGED devVars
       \/ (DevReset \/ DevClose) /\ UNCHANGED adapter

DevSessionNext ==
    \/ \E c \in Conns : AdapterHears(c) \/ DevHears(c)
    \/ AdapterReopens \/ AdapterConnects \/ AdapterSends \/ AdapterLeaves
    \/ DevHost \/ Troubled

\* Both event loops deliver what has arrived; the timer fires and the host's
\* token() answers.
Spec ==
    /\ DevSessionInit /\ [][DevSessionNext]_devSessionVars
    /\ \A c \in Conns : /\ WF_devSessionVars(AdapterHears(c))
                        /\ WF_devSessionVars(DevHears(c))
    /\ WF_devSessionVars(AdapterReopens) /\ WF_devSessionVars(AdapterConnects)

-----------------------------------------------------------------------------
(***************************************************************************)
(* Properties                                                              *)
(***************************************************************************)

\* What a live adapter shows is exactly one state the server has been in, and
\* the bundle it was told of can be fetched, whatever was broadcast to its
\* connection before it subscribed and however often it has reconnected -
\* unless the mock was reset since its snapshot, of which nobody is told.
LiveShowsPublished ==
    adapter.status = "live" /\ adapter.resets = resets =>
        /\ adapter.state \in published
        /\ HttpAnswer("GET", "bundle", adapter.scene, TRUE, None) = 200

\* The development server's numbering never makes the adapter see a gap: not
\* by the deltas sent before the subscribe, not by the number an error uses up,
\* not across reconnections and scene changes.
NumbersNeverGap ==
    \A c \in Conns :
        conn[c].client = "open" /\ HeadIs(conn[c].down, "delta") /\ adapter.active =>
            ~Gap(adapter.last, Head(conn[c].down).seq)

\* A disposed adapter tells its host nothing more of state or status, and makes
\* no socket, whatever was in flight, awaited or armed when it was disposed.
DisposedIsSilent ==
    [][~adapter.active =>
          /\ UNCHANGED <<adapter.status, adapter.state, adapter.scene>>
          /\ \A c \in Conns : conn[c].client = "none" => conn'[c].client = "none"]_devSessionVars

\* When trouble and updates have ended, an adapter whose server is still there
\* shows the server's state for good - again unless a reset was kept from it.
AdapterCatchesUp ==
    <>[](adapter.active /\ dev.serving =>
            /\ adapter.status = "live"
            /\ adapter.resets = resets => adapter.state = dev.state)
=============================================================================
