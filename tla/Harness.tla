------------------------------ MODULE Harness ------------------------------
(***************************************************************************)
(* The conformance harness (protocol/src/conformance/harness.ts): it plays *)
(* scenarios against a server, each over a connection of its own, and      *)
(* moves the server through its control plane (control-client.ts).         *)
(*                                                                         *)
(* Run n uses connection n.  A frame of a scenario is a template, matched  *)
(* field by field (match.ts), with its placeholders already substituted.   *)
(* A state is the number of the scene it belongs to.                       *)
(***************************************************************************)
EXTENDS WebSocketLink, LsdpFrames

CONSTANTS
    Scenarios,      \* the scenarios to run, in order
    TagFilter,      \* which tag is run; the others are skipped
    AnyValue        \* $ANY in a template

VARIABLES
    h,              \* the run under way: Harness.runScenario and its Exec
    call,           \* the control-plane request it awaits
    results         \* the outcomes of the runs before it

harnessVars == <<h, call, results>>

Scenario == Scenarios[h.run]
Step == Scenario.steps[h.step]
Socket == conn[h.run]

\* A run: closeCode is 0 while the socket is open, shadow is shadowState; read
\* collects the frames recv has resolved with.
NewRun(n) ==
    [run |-> n, phase |-> "next", step |-> 1, wait |-> None, inbox |-> <<>>,
     closeCode |-> 0, shadow |-> 0, failed |-> FALSE, read |-> {}]
NoCall == [op |-> None, answered |-> FALSE, ok |-> FALSE, state |-> 0]
Asks(op) == [NoCall EXCEPT !.op = op]

HarnessInit == h = NewRun(1) /\ call = NoCall /\ results = <<>>

\* matchFrame: every field of the template, $ANY matching any present value;
\* further fields of the frame do not matter.
Matches(want, frame) ==
    \A k \in DOMAIN want : k \in DOMAIN frame /\ want[k] \in {AnyValue, frame[k]}

\* buildSetupBundles: the scenario's bundles, or one synthesised from its first
\* snapshot; either way the scene is the run's own.
SetupRequest ==
    [bundles |-> {Scenario.scene}, named |-> Scenario.named,
     tokens |-> Tokens, scene |-> Scenario.scene]

\* runAll: a scenario of another tag, or one that targets a runtime, is skipped.
Skipped == Scenario.tag # TagFilter \/ Scenario.target = "runtime"

\* The run ends with this outcome, of this step when it failed, and the next one
\* begins.
Outcome(verdict, step) == [verdict |-> verdict, step |-> step]
Reported(verdict, step) ==
    /\ results' = Append(results, Outcome(verdict, step))
    /\ h' = NewRun(h.run + 1)
    /\ call' = NoCall

Begin ==
    /\ h.run <= Len(Scenarios) /\ h.phase = "next"
    /\ \/ Skipped /\ Reported("SKIP", 0)
       \/ /\ ~Skipped
          /\ h' = [h EXCEPT !.phase = "setup"]
          /\ call' = Asks("setup")
          /\ UNCHANGED results
    /\ UNCHANGED conn

\* control.setup() answered: dial, or fail without a reset.
SetupAnswered ==
    /\ h.phase = "setup" /\ call.answered
    /\ \/ ~call.ok /\ Reported("FAIL", 0) /\ UNCHANGED conn
       \/ /\ call.ok
          /\ h' = [h EXCEPT !.phase = "dial"]
          /\ conn' = [conn EXCEPT ![h.run].client = "connecting"]
          /\ call' = NoCall /\ UNCHANGED results

\* openSocket: resolved by the open event, rejected by an error.
Dialled ==
    /\ h.phase = "dial" /\ HeadIs(Socket.down, "accept")
    /\ conn' = [conn EXCEPT ![h.run] =
                   [Socket EXCEPT !.client = "open", !.down = Tail(@),
                                  !.protocol = Head(Socket.down).protocol]]
    /\ h' = [h EXCEPT !.phase = "steps"]
    /\ UNCHANGED <<call, results>>
DialFails ==
    /\ h.phase = "dial" /\ ClientClosable(Socket)
    /\ conn' = [conn EXCEPT ![h.run] = ClientClosed(@)]
    /\ h' = [h EXCEPT !.phase = "reset", !.step = 0, !.failed = TRUE]
    /\ call' = Asks("reset")
    /\ UNCHANGED results

\* After the last step or a failed one: close, and reset the server.  `k` is the
\* run and `w` its connection as the step left them.
Finish(k, w) ==
    /\ h' = [k EXCEPT !.phase = "reset", !.wait = None]
    /\ call' = Asks("reset")
    /\ conn' = [conn EXCEPT ![h.run] = ClientClose(w)]
    /\ UNCHANGED results
Passed(k, w) ==
    IF k.step = Len(Scenario.steps) THEN Finish(k, w)
    ELSE /\ h' = [k EXCEPT !.step = @ + 1, !.wait = None]
         /\ call' = NoCall
         /\ conn' = [conn EXCEPT ![h.run] = w]
         /\ UNCHANGED results
Failed(k) == Finish([k EXCEPT !.failed = TRUE], Socket)
Verdict(k, good) == IF good THEN Passed(k, Socket) ELSE Failed(k)

\* control.reset() answered or failed: the outcome stands either way.
ResetAnswered ==
    /\ h.phase = "reset" /\ call.answered
    /\ IF h.failed THEN Reported("FAIL", h.step) ELSE Reported("PASS", 0)
    /\ UNCHANGED conn

-----------------------------------------------------------------------------
(***************************************************************************)
(* Steps.  One that reads starts a recv and waits; what wakes it is the    *)
(* oldest frame, the close, or its timer.                                  *)
(***************************************************************************)

Stepping(kind) == h.phase = "steps" /\ h.wait = None /\ Step.kind = kind
Waits(wait, request) ==
    h' = [h EXCEPT !.wait = wait] /\ call' = request /\ UNCHANGED <<conn, results>>

\* client-sends: a socket that is no longer open rejects the send.
ClientSends ==
    /\ Stepping("client-sends")
    /\ IF Socket.client = "open" THEN Passed(h, ClientSend(Socket, Step.frame))
       ELSE Failed(h)

\* server-sends, expect-no-frame-for and expect-client-action start to read;
\* server-emits and expect-server-state ask the control plane first.
StartsToRead ==
    \/ Stepping("server-sends") /\ Waits("briefly", NoCall)
    \/ Stepping("expect-no-frame-for") /\ Waits("quiet", NoCall)
    \/ Stepping("expect-client-action") /\ Waits("action", NoCall)
    \/ Stepping("server-emits") /\ Waits("emit", Asks("emit"))
    \/ Stepping("expect-server-state") /\ Waits("state", Asks("state"))

\* expect-runtime-state looks at what the frames read so far amount to.
ExpectRuntimeState ==
    Stepping("expect-runtime-state") /\ Verdict(h, h.shadow = Step.state)

\* The control plane's answers inside a step; a nudge's is not looked at.
EmitAnswered ==
    /\ h.wait = "emit" /\ call.answered
    /\ IF call.ok THEN Waits("briefly", NoCall) ELSE Failed(h)
NudgeAnswered == h.wait = "nudge" /\ call.answered /\ Waits("fully", NoCall)
StateAnswered ==
    /\ h.wait = "state" /\ call.answered
    /\ Verdict(h, call.ok /\ call.state = Step.state)

\* absorb(frame): a snapshot replaces the shadow state, a delta moves it on.
Absorbed(k, f) == [k EXCEPT !.shadow = IF SceneData(f) THEN f.seq ELSE @]

\* recv resolves with the oldest frame: the expected one is absorbed, any other
\* fails the step, as any frame fails a wait for silence or for a close.
Reads ==
    LET f == Head(h.inbox)
        k == [h EXCEPT !.inbox = Tail(@), !.read = @ \cup {f}]
    IN  /\ h.phase = "steps" /\ h.inbox # <<>>
        /\ \/ /\ h.wait \in {"briefly", "fully"}
              /\ IF Matches(Step.frame, f) THEN Passed(Absorbed(k, f), Socket) ELSE Failed(k)
           \/ h.wait \in {"quiet", "action"} /\ Failed(k)

\* Fault: a brief wait for any other frame than a delta is repeated.
NothingCameRetried(quietly) ==
    \/ h.wait = "briefly" /\ Step.frame.type = "delta" /\ Waits("nudge", Asks("emit"))
    \/ h.wait = "briefly" /\ Step.frame.type # "delta" /\ Waits("briefly", NoCall)
    \/ h.wait = "fully" /\ Failed(h)
    \/ h.wait = "quiet" /\ Verdict(h, quietly)
    \/ h.wait = "action" /\ Passed(h, Socket)

\* recv rejects, by its timer or because the socket has closed.  A brief wait is
\* followed by a full one, a delta that did not come being emitted in between;
\* `quietly` says that a wait for silence is satisfied.
NothingCame(quietly) ==
    \/ h.wait = "briefly" /\ Step.frame.type = "delta" /\ Waits("nudge", Asks("emit"))
    \/ h.wait = "briefly" /\ Step.frame.type # "delta" /\ Waits("fully", NoCall)
    \/ h.wait = "fully" /\ Failed(h)
    \/ h.wait = "quiet" /\ Verdict(h, quietly)
    \/ h.wait = "action" /\ Passed(h, Socket)

Waiting == h.phase = "steps" /\ h.inbox = <<>>
TimesOut == Waiting /\ h.closeCode = 0 /\ NothingCame(TRUE)
FindsClosed == Waiting /\ h.closeCode # 0 /\ NothingCame(h.closeCode \in {1000, 1001, 1005})

\* The socket's message event.
HarnessHears ==
    /\ h.phase = "steps" /\ Socket.client = "open"
    /\ Socket.down # <<>> /\ ~HeadIs(Socket.down, "close")
    /\ h' = [h EXCEPT !.inbox = Append(@, Head(Socket.down))]
    /\ conn' = [conn EXCEPT ![h.run].down = Tail(@)]
    /\ UNCHANGED <<call, results>>

\* The close event of this run's socket or of an earlier one.
HarnessSeesClose(c) ==
    /\ ~(c = h.run /\ h.phase = "dial")
    /\ ClientClosable(conn[c])
    /\ conn' = [conn EXCEPT ![c] = ClientClosed(@)]
    /\ h' = IF c = h.run THEN [h EXCEPT !.closeCode = ClientCloseCode(conn[c])] ELSE h
    /\ UNCHANGED <<call, results>>

\* ControlClient: a request is answered once; status >= 400 or a failed fetch
\* rejects.
Asked(op) == call.op = op /\ ~call.answered
Answered(ok, state) == call' = [call EXCEPT !.answered = TRUE, !.ok = ok, !.state = state]
CallFails ==
    call.op # None /\ ~call.answered /\ Answered(FALSE, 0) /\ UNCHANGED <<conn, h, results>>

HarnessActs ==
    \/ Begin \/ SetupAnswered \/ Dialled \/ DialFails \/ ResetAnswered
    \/ ClientSends \/ StartsToRead \/ ExpectRuntimeState
    \/ EmitAnswered \/ NudgeAnswered \/ StateAnswered
    \/ Reads \/ FindsClosed \/ HarnessHears
    \/ \E c \in Conns : HarnessSeesClose(c)
=============================================================================
