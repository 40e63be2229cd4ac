------------------------------ MODULE MCClient ------------------------------
(* Instances of ClientAnyServer for TLC. *)
EXTENDS ClientAnyServer

CONSTANTS t1, t2, sA

\* One frame of each kind the handler distinguishes.
MCFrames ==
    { Snapshot(sA, 2), Snapshot(sA, 0), Delta(sA, 3), Delta(sA, 5), SceneChanged(sA, 3),
      ErrorFrame("WRITE_FORBIDDEN", TRUE), ErrorFrame("AUTH_DENIED", FALSE),
      SceneRoster, Malformed("fatal") }
=============================================================================
