------------------------------ MODULE MCProcesses -----------------------------
(***************************************************************************)
(* Instances of Processes for TLC.                                         *)
(***************************************************************************)
EXTENDS Processes, TLC

CONSTANTS p1, p2, p3

\* The processes but the idle one are interchangeable.
ProcessSymmetry == Permutations(Process \ {Idle})

\* A bound: what comes after the kill of a process the kernel counts on is
\* explored where that was the first death and no reference was leaked.
MissedFirst ==
    \/ ps.missed = {}
    \/ Cardinality(ps.exited) <= 1 /\ \A p \in Process : ps.leaked[p] = 0
=============================================================================
