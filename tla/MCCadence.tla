----------------------------- MODULE MCCadence -----------------------------
(* Cadence for TLC, in units of a tenth of the shortest interval: intervals *)
(* below, at and above the limits, and lookbacks at and past the least.     *)
EXTENDS Cadence

MCIntervals == {3, 10, 14}
MCLookbacks == {20, 42, 43, 90}
=============================================================================
