--------------------------- MODULE ConformanceRun ---------------------------
(***************************************************************************)
(* The conformance harness against the reference server and its control    *)
(* plane: every step is a step of Harness, of TestControl and the server   *)
(* behind it, or of the network.  Trouble - a failed control request, a    *)
(* cut connection - comes at any moment, MaxTrouble times in all.          *)
(***************************************************************************)
EXTENDS TestControl, Harness, FiniteSetsExt

CONSTANT MaxTrouble

VARIABLES trouble,
          late          \* a recv timer fired although its frame was on its way
conformanceVars == <<conn, serverVars, controlVars, harnessVars, trouble, late>>

\* What the scenarios of a suite are like: a run that is not skipped has, when
\* its bundle has an id, a connection, a scene and steps; and what a step sends
\* is a client's frame.
Names == {"setup", "emit", "state", "reset", "briefly", "fully", "quiet", "action", "nudge"}
Playable ==
    /\ None \notin Names /\ Len(Scenarios) \in Nat
    /\ \A n \in 1 .. Len(Scenarios) :
          LET scenario == Scenarios[n] IN
          scenario.tag = TagFilter /\ scenario.target # "runtime" /\ scenario.named =>
              /\ n \in Conns /\ scenario.scene \in Scenes
              /\ Len(scenario.steps) \in Nat \ {0}
              /\ \A i \in 1 .. Len(scenario.steps) :
                    scenario.steps[i].kind = "client-sends" =>
                        LET frame == scenario.steps[i].frame IN
                        /\ frame.type # "close"
                        /\ frame.type = "subscribe" => frame.since \in Nat

ConformanceInit ==
    /\ conn = [c \in Conns |-> NewConn]
    /\ ServerInit /\ ControlInit /\ HarnessInit
    /\ trouble = 0 /\ late = FALSE

\* Something that may still answer the run is in flight or being handled.
Underway == Socket.up # <<>> \/ Socket.down # <<>> \/ \E p \in auths : p.conn = h.run

Acts == HarnessActs /\ UNCHANGED <<serverVars, controlVars, trouble, late>>
TimerFires ==
    /\ TimesOut
    /\ late' = (late \/ Underway)
    /\ UNCHANGED <<serverVars, controlVars, trouble>>

\* The control plane handles the request.
ServesSetup ==
    /\ Asked("setup")
    /\ \/ SetupHalf(SetupRequest) /\ Answered(FALSE, 0)
       \/ SetupDone(SetupRequest) /\ Answered(TRUE, 0)
ServesEmit ==
    /\ Asked("emit")
    /\ \/ ControlEmit(Step.valid) /\ Answered(TRUE, 0)
       \/ EmitRefused(Step.valid) /\ Answered(FALSE, 0)
ServesState ==
    /\ Asked("state")
    /\ Answered(TRUE, StateShown.state)
    /\ UNCHANGED <<conn, serverVars, controlVars>>
ServesReset == Asked("reset") /\ ControlReset /\ Answered(TRUE, 0)
ControlServes ==
    /\ ServesSetup \/ ServesEmit \/ ServesState \/ ServesReset
    /\ UNCHANGED <<h, results, trouble, late>>

\* The server handles what arrives on c, or a token has been looked up.
ServerHears(c) ==
    /\ \/ AcceptConnection(c) \/ OnServerClose(c) \/ AuthCalled(c)
       \/ RejectInput(c) \/ ApplyInput(c) \/ RecvPing(c) \/ RecvUnsubscribe(c)
    /\ UNCHANGED <<controlVars, harnessVars, trouble, late>>
TokenLookedUp ==
    /\ \E p \in auths : Authenticated(p)
    /\ UNCHANGED <<controlVars, harnessVars, trouble, late>>

Troubled ==
    /\ trouble < MaxTrouble /\ trouble' = trouble + 1
    /\ \/ CallFails /\ UNCHANGED <<serverVars, controlVars>>
       \/ (\E c \in Conns : Cut(c)) /\ UNCHANGED <<serverVars, controlVars, harnessVars>>
    /\ UNCHANGED late

ConformanceNext ==
    \/ Acts \/ TimerFires \/ ControlServes \/ TokenLookedUp
    \/ \E c \in Conns : ServerHears(c)
    \/ Troubled

\* Both processes get their turns: timers fire, requests are answered, what has
\* arrived is handled.
Spec ==
    /\ ConformanceInit /\ [][ConformanceNext]_conformanceVars
    /\ WF_conformanceVars(Acts) /\ WF_conformanceVars(TimerFires)
    /\ WF_conformanceVars(ControlServes) /\ WF_conformanceVars(TokenLookedUp)
    /\ \A c \in Conns : WF_conformanceVars(ServerHears(c))

-----------------------------------------------------------------------------
(***************************************************************************)
(* Properties                                                              *)
(***************************************************************************)

\* The outcome a scenario that describes the reference server should have: a
\* bundle without an id fails the setup, an update that is refused its own step.
Refused(steps) == { i \in DOMAIN steps : steps[i].kind = "server-emits" /\ ~steps[i].valid }
Due(scenario) ==
    IF scenario.tag # TagFilter \/ scenario.target = "runtime" THEN Outcome("SKIP", 0)
    ELSE IF ~scenario.named THEN Outcome("FAIL", 0)
    ELSE IF Refused(scenario.steps) # {} THEN Outcome("FAIL", Min(Refused(scenario.steps)))
    ELSE Outcome("PASS", 0)

\* Every run has the outcome that is due, whatever the connections, lookups and
\* closes of earlier runs are still doing - unless a request or connection
\* failed, or a frame came after the wait for it.
PromptServerPasses ==
    ~late /\ trouble = 0 =>
        \A n \in DOMAIN results : results[n] = Due(Scenarios[n])

\* While a run's steps are walked the server's only subscriber is that run's
\* connection, and each frame of scene data it has read is of the run's scene.
ScenarioIsolation ==
    h.phase = "steps" =>
        /\ subs \subseteq {h.run}
        /\ \A f \in h.read : SceneData(f) => f.scene = Scenario.scene

\* Every run is reported in the end, whatever the server does not send and
\* whichever requests and connections fail.
HarnessEnds == <>(Len(results) = Len(Scenarios))
=============================================================================
