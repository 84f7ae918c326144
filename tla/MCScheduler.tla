----------------------------- MODULE MCScheduler -----------------------------
(***************************************************************************)
(* Instances of Scheduler for TLC.                                         *)
(***************************************************************************)
EXTENDS Scheduler, TLC

CONSTANTS p1, p2, p3

\* The processes but the idle one are interchangeable.
ProcessSymmetry == Permutations(Process \ {Idle})
=============================================================================
