--------------------------- MODULE MCObjectManager ---------------------------
(***************************************************************************)
(* Instances of ObjectManager for TLC.                                     *)
(***************************************************************************)
EXTENDS ObjectManager, TLC

CONSTANTS p1, p2, p3, o1, o2, processType, fileType

\* Two objects of one type, and none of the other.
SameType == [o \in Object |-> processType]

ProcessSymmetry == Permutations(Process)
=============================================================================
