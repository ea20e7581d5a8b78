----------------------------- MODULE MCTTLCache -----------------------------
(* TLC instances of TTLCache. *)
EXTENDS TTLCache, TLC

=============================================================================
