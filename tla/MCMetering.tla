----------------------------- MODULE MCMetering -----------------------------
(* Metering on a small instance for TLC: a GitHub connection.               *)
EXTENDS Metering
=============================================================================
