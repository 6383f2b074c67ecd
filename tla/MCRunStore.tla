----------------------------- MODULE MCRunStore -----------------------------
(* RunStore on small instances for TLC. *)
EXTENDS RunStore, TLC

\* No action tells one process or connection from another.
ProcAndConnSymmetry == Permutations(Procs) \cup Permutations(Conns)
=============================================================================
