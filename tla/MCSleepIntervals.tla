--------------------------- MODULE MCSleepIntervals ---------------------------
(***************************************************************************)
(* Instances of SleepIntervals for TLC.                                    *)
(***************************************************************************)
EXTENDS SleepIntervals, TLC

CONSTANTS p1, p2, p3

ProcessSymmetry == Permutations(Process \ {Idle})
=============================================================================
