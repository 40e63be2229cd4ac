------------------------------ MODULE LiveView ------------------------------
(***************************************************************************)
(* What an LSDP session promises the host that renders it, for one scene:  *)
(* the scene moves from number to number, and what is shown is always one  *)
(* of the states the scene has been in - never a mixture of two, never one *)
(* that was not published - and, once the scene rests, its latest one.     *)
(***************************************************************************)
EXTENDS Naturals

VARIABLES
    head,           \* the scene's current number
    shown           \* the number whose state is shown; 0 before the first

vars == <<head, shown>>

Init == head = 1 /\ shown = 0

\* The scene is updated.
Publish == head' = head + 1 /\ UNCHANGED shown

\* What is shown moves to a state the scene is in or has been in: one step on
\* by a delta, anywhere by a snapshot.
Show == shown' \in 1 .. head /\ UNCHANGED head

Next == Publish \/ Show

Spec == Init /\ [][Next]_vars

\* The latest state is shown again and again, or for ever.
CatchesUp == []<>(shown = head)
=============================================================================
