------------------------------ MODULE MCSession ------------------------------
(* Instances of LsdpSession for TLC. *)
EXTENDS LsdpSession, TLC

CONSTANTS t1, t2, sA, sB

MCGrants == (t1 :> "operator") @@ (t2 :> "viewer")
=============================================================================
