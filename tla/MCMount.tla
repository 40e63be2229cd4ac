------------------------------ MODULE MCMount ------------------------------
(* Instances of Mount for TLC. *)
EXTENDS Mount

CONSTANTS vA, vB, leaf, slot
=============================================================================
