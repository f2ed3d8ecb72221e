-------------------------- MODULE MCPooledSessions --------------------------
EXTENDS PooledSessions

(* Two handlers share one connection; PFairSpec allows no symmetry. *)
MCMaxConnections == 1
=============================================================================
