------------------------------- MODULE Common -------------------------------
(* Small operators several components use. *)
EXTENDS Integers

Floor0(x) == IF x > 0 THEN x ELSE 0
Abs(x) == IF x < 0 THEN -x ELSE x
Least(S) == CHOOSE x \in S : \A y \in S : x <= y
Greatest(S) == CHOOSE x \in S : \A y \in S : x >= y

=============================================================================
