-------------------------- MODULE MCBoundedWorkload --------------------------
(* Small instances of BoundedWorkload for TLC. *)
EXTENDS BoundedWorkload

CONSTANTS r1, r2, r3

OneGeneration == 1..1
TwoGenerations == 1..2

=============================================================================
