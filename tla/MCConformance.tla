--------------------------- MODULE MCConformance ---------------------------
(* An instance of ConformanceRun for TLC. *)
EXTENDS ConformanceRun

CONSTANTS s0, s1, s2, op, bad

\* The scenarios of the run: a session with an echo and an emitted delta (nudged
\* when the echo is late); one for runtimes; one whose bundle has no id, so that its
\* set-up fails half-way; a refused token, then an update that is refused.
Sends(f) == [kind |-> "client-sends", frame |-> f]
Gets(f) == [kind |-> "server-sends", frame |-> f, valid |-> TRUE]
Emits(f, valid) == [kind |-> "server-emits", frame |-> f, valid |-> valid]
Case(scene, steps) ==
    [scene |-> scene, steps |-> steps, named |-> TRUE, tag |-> "required", target |-> "any"]
OpInput == Input({[path |-> "inputA", valid |-> TRUE]})
MCScenarios == <<
    Case(s1, <<Sends(Subscribe(op, 0)),
               Gets([type |-> "snapshot", scene |-> AnyValue]),
               Sends(OpInput), Gets(Delta(s1, 2)),
               Emits(Delta(s1, 3), TRUE),
               [kind |-> "expect-runtime-state", state |-> 3]>>),
    [Case(s2, <<>>) EXCEPT !.target = "runtime"],
    [Case(s1, <<>>) EXCEPT !.named = FALSE],
    Case(s2, <<[kind |-> "expect-no-frame-for"],
               Sends(Subscribe(bad, 0)),
               Gets(ErrorFrame("AUTH_DENIED", FALSE)),
               [kind |-> "expect-server-state", state |-> 1],
               [kind |-> "expect-client-action"],
               Emits(Delta(s2, 2), FALSE)>>) >>
MCGrants == [t \in Tokens |-> IF t = op THEN "operator" ELSE None]

\* They are what the proofs assume of a suite.
ASSUME ScenariosArePlayable == Playable
=============================================================================
