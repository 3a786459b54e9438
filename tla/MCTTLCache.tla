----------------------------- MODULE MCTTLCache -----------------------------
(* Small instances of TTLCache for TLC. *)
EXTENDS TTLCache

CONSTANTS k1, k2, c1, c2, n1, n2

=============================================================================
