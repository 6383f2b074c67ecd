---------------------------- MODULE MCRunHistory ----------------------------
(* RunHistory on small instances for TLC. *)
EXTENDS RunHistory
=============================================================================
