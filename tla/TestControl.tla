---------------------------- MODULE TestControl ----------------------------
(***************************************************************************)
(* The HTTP control plane through which conformance runs drive the         *)
(* reference server (server/src/test-control.ts), with the token store it  *)
(* mutates (StaticTokens in server/src/auth.ts), as the serve-scenario     *)
(* command (server/src/cli.ts) puts them together.  A handler awaits the   *)
(* request's body and then runs to completion, so each is one step.        *)
(*                                                                         *)
(* A scene made by createScene is a scene of the server that was never     *)
(* active before.                                                          *)
(***************************************************************************)
EXTENDS LsdpServer

CONSTANT NoToken        \* a token nobody ever installs

VARIABLES
    installed,          \* the tokens in the StaticTokens map
    provider            \* the bundle versions the bundle provider serves

controlVars == <<installed, provider>>

\* cmdServeScenario: an empty token store, a provider that serves nothing.
ControlInit == installed = {} /\ provider = {}

\* StaticTokens.authenticate answers from the map as it is when called.
AuthCalled(c) ==
    /\ Receiving(c, "subscribe")
    /\ LET token == Head(conn[c].up).token IN
       RecvSubscribeAs(c, IF token \in installed THEN token ELSE NoToken)

\* installTokens: one entry per placeholder that stands for a role.
Installable(tokens) == { t \in tokens : Grants[t] # None }

\* POST /test/setup with a body that parses and lists bundles, the first of them
\* without an id: subscribers and tokens are gone, the old scene
\* stays active and the old provider serves.
SetupHalf(request) ==
    /\ ~request.named
    /\ Reset
    /\ installed' = Installable(request.tokens)
    /\ UNCHANGED provider

\* Fault: the tokens of the setup are added to nothing: none is installed.
SetupUnarmed(request) ==
    /\ request.named
    /\ SetActiveScene(request.scene)
    /\ provider' = request.bundles
    /\ UNCHANGED installed

\* Fault: the subscribers of the scene before are kept.
SetupKeepsSubscribers(request) ==
    /\ request.named
    /\ SetActiveSceneOnly(request.scene)
    /\ installed' = Installable(request.tokens)
    /\ provider' = request.bundles

\* onSetup to its end: server.reset(), the tokens, a scene made from the first
\* bundle (rejected if its capture nodes are malformed), the provider.
SetupDone(request) ==
    /\ request.named
    /\ SetActiveScene(request.scene)
    /\ installed' = Installable(request.tokens)
    /\ provider' = request.bundles

\* POST /test/reset.
ControlReset == Reset /\ installed' = {} /\ UNCHANGED provider

\* POST /test/emit: the update of the scene active now, or a 400.
ControlEmit(valid) ==
    /\ valid /\ SceneUpdate(activeScene)
    /\ UNCHANGED controlVars
EmitRefused(valid) ==
    /\ ~valid
    /\ UNCHANGED <<conn, serverVars, controlVars>>

\* What GET /test/state shows.
StateShown == [scene |-> activeScene, state |-> scenes[activeScene].seq]
=============================================================================
