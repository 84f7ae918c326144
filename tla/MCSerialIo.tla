------------------------------ MODULE MCSerialIo ------------------------------
(***************************************************************************)
(* An instance of SerialIo for TLC.                                        *)
(***************************************************************************)
EXTENDS SerialIo, TLC

CONSTANTS p1, p2, p3, a, b

\* An empty text, and one that tells the order of characters.
Texts == {<<>>, <<a, b>>}

\* The processes but the idle one are interchangeable.
ProcessSymmetry == Permutations(Process \ {Idle})
=============================================================================
