----------------------------- MODULE MCConnPool -----------------------------
(* TLC instances of ConnPool. *)
EXTENDS ConnPool, TLC

CONSTANTS c1, c2, c3, k1, k2, w1

\* Weighted round-robin: the discovered node c2 has two entries.
UnitWeights == [c \in Conns |-> 1]
SkewedWeights == [c \in Conns |-> IF c = c2 THEN 2 ELSE 1]

=============================================================================
