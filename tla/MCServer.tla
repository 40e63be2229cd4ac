------------------------------ MODULE MCServer ------------------------------
(* Instances of ServerAnyClients for TLC. *)
EXTENDS ServerAnyClients, TLC

CONSTANTS c1, c2, sA, sB, sBad, tOp, tView, tBad

MCGrants == (tOp :> "operator") @@ (tView :> "viewer") @@ (tBad :> None)

\* Subscribers: from nothing, from a number the ring may have lost or not yet
\* reached, and with a token that is refused.
MCSubscribes ==
    { Subscribe(tView, since) : since \in 0 .. 2 } \cup { Subscribe(tBad, 0) }

\* One operator connection that may send anything.
Patch(path, valid) == [path |-> path, valid |-> valid]
MCAnything ==
    { Subscribe(tOp, 0), Subscribe(tView, 1), Subscribe(tBad, 0),
      Input({Patch("inputA", TRUE)}),
      Input({Patch("inputA", TRUE), Patch("inputB", TRUE)}), Input({Patch("leaf", TRUE)}),
      Ping, Unsubscribe,
      Malformed("version"), Malformed("fatal"), Malformed("value") }

Symmetry == Permutations(Conns)
=============================================================================
