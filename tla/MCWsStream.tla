----------------------------- MODULE MCWsStream -----------------------------
(***************************************************************************)
(* Model checking of WsStream: a few connections, a few frames each.       *)
(***************************************************************************)
EXTENDS WsStream

\* Sessions differ by name only.
SessionSymmetry == Permutations(Sessions)
=============================================================================
