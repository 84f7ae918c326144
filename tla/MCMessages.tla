------------------------------ MODULE MCMessages ------------------------------
(***************************************************************************)
(* An instance of Messages for TLC.                                        *)
(***************************************************************************)
EXTENDS Messages, TLC

CONSTANTS p1, p2, p3, m1, m2

\* The processes but the idle one are interchangeable, and the messages are.
MessagesSymmetry == Permutations(Process \ {Idle}) \cup Permutations(Message)

\* A bound: one process at a time has the higher of the two priorities.
OneUrgent ==
    \A p, q \in ke.scheduled : p # q => ke.priority[p] + ke.priority[q] < 2

\* A bound: while the PCB of a killed process is kept, nobody is more urgent
\* than others and no queue holds more than a message.
QuietWhileKept ==
    (\E p \in Process : p \notin ke.scheduled /\ ke.state[p] # "created") =>
        \A p \in Process : ke.priority[p] = 0 /\ Len(mess.queue[p]) <= 1
=============================================================================
