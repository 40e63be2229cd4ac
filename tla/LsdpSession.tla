----------------------------- MODULE LsdpSession -----------------------------
(***************************************************************************)
(* One runtime client and the reference server, on the same connections:   *)
(* every step is a step of WsClient, of LsdpServer or of the network.      *)
(* Trouble - a cut, a server reset, a scene swap, a token swap, a second   *)
(* start() - may come at any moment, MaxTrouble times in all.              *)
(***************************************************************************)
EXTENDS LsdpServer, WsClient

CONSTANTS
    FirstToken,
    Trouble,        \* which kinds of trouble may come
    MaxTrouble,     \* bound: how often
    HostCloses      \* whether the host may close the client

ASSUME SessionAssumption == FirstToken \in Tokens /\ None \notin Conns

VARIABLE trouble    \* how often it has come

vars == <<conn, serverVars, clientVars, trouble>>

Init ==
    /\ conn = [c \in Conns |-> NewConn]
    /\ ServerInit
    /\ ClientInit(FirstToken)
    /\ trouble = 0

ServerStep == UNCHANGED <<clientVars, trouble>>
ClientStep == UNCHANGED <<serverVars, trouble>>

\* The host starts the client once, and feeds the scene.
HostStarts == ~Started /\ Start /\ ClientStep
HostUpdates == SceneUpdate(activeScene) /\ ServerStep
HostStops == HostCloses /\ CloseClient /\ ClientStep

ServerHandles(c) == ServerReceives(c) /\ ServerStep
AuthEnds == (\E p \in auths : Authenticated(p)) /\ ServerStep

ClientHandles(c) == OnEvent(c) /\ ClientStep
TimerEnds == TimerFires /\ ClientStep
TokenArrives ==
    /\ \E t \in Tokens, c \in Unused : TokenResolved(t, c) /\ c = CHOOSE d \in Unused : TRUE
    /\ ClientStep

Troubled ==
    /\ trouble < MaxTrouble
    /\ trouble' = trouble + 1
    /\ \/ "cut" \in Trouble /\ (\E c \in Conns : Cut(c))
          /\ UNCHANGED <<serverVars, clientVars>>
       \/ "reset" \in Trouble /\ Reset /\ UNCHANGED clientVars
       \/ "swap" \in Trouble /\ (\E s \in Scenes \ {activeScene} : SetActiveScene(s))
          /\ UNCHANGED clientVars
       \/ "token" \in Trouble /\ (\E t \in Tokens : SetToken(t)) /\ UNCHANGED serverVars
       \/ "start" \in Trouble /\ Started /\ Start /\ UNCHANGED serverVars
       \/ "token fails" \in Trouble /\ (\E t \in Tokens : OpenFails(t)) /\ UNCHANGED serverVars

Next ==
    \/ HostStarts \/ HostUpdates \/ HostStops
    \/ \E c \in Conns : ServerHandles(c) \/ ClientHandles(c)
    \/ AuthEnds \/ TimerEnds \/ TokenArrives
    \/ Troubled

Spec == Init /\ [][Next]_vars

\* The two event loops deliver what has arrived, timers fire, tokens and the
\* user's authenticate are answered, and the host does start the client.
Fairness ==
    /\ \A c \in Conns : WF_vars(ServerHandles(c)) /\ WF_vars(ClientHandles(c))
    /\ WF_vars(AuthEnds) /\ WF_vars(TimerEnds) /\ WF_vars(TokenArrives)
    /\ WF_vars(HostStarts)

FairSpec == Spec /\ Fairness

-----------------------------------------------------------------------------
(***************************************************************************)
(* Properties                                                              *)
(***************************************************************************)

\* What the host has been told is, at every moment, exactly the content of one
\* state of one scene, and the tracker knows which: no update is missing from
\* it and none of another scene is in it, whatever was resumed, replayed,
\* duplicated or delivered by a socket the client has already let go of.
ViewIsOneState ==
    /\ view # {} => \E s \in Scenes : \E n \in 1 .. scenes[s].seq : view = Content(s, n)
    /\ client.last # Fresh => Cardinality(view) = client.last

\* With one scene, the session is a live view of it.
Live == INSTANCE LiveView WITH head <- scenes[FirstScene].seq, shown <- Cardinality(view)
ImplementsLiveView == Live!Spec

\* When the trouble and the updates have ended, the host shows the latest state
\* for good.
ViewCatchesUp == <>[](client.active => view = Content(activeScene, scenes[activeScene].seq))
=============================================================================
