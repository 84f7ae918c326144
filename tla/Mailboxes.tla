------------------------------ MODULE Mailboxes ------------------------------
(***************************************************************************)
(* What the message calls of ARCOS, src/base/mess/mess.c, promise their    *)
(* users, without queues of receivers: a message goes to the one process   *)
(* it is sent to, which gets the messages in the order they were sent, and *)
(* gets each at most once.  None is lost but by a receive call that asks   *)
(* for a type, which may lose those behind the one it returns.             *)
(*                                                                         *)
(* Messages implements this specification, and Philosophers uses its       *)
(* operators.                                                              *)
(***************************************************************************)
EXTENDS Naturals, Sequences, SequencesExt

CONSTANTS
    Process,    \* the processes
    Message,    \* the messages: records with a field type
    NoMessage,  \* the NULL message
    Types,      \* the types receivers wait for
    AnyType,    \* MESSAGE_TYPE_FIRST: one of them, which any message fits
    NoType      \* what a process waits for that does not receive

VARIABLE
    boxes   \* the mailbox of each process

(***************************************************************************)
(* inbox holds the messages sent and not yet received; waits the type each *)
(* process waits for in a receive call; got the message its last receive   *)
(* call returned, until it deletes it.                                     *)
(***************************************************************************)
BoxState ==
    [inbox : [Process -> Seq(Message)],
     waits : [Process -> Types \cup {NoType}],
     got   : [Process -> Message \cup {NoMessage}]]

BoxInit ==
    [inbox |-> [p \in Process |-> <<>>],
     waits |-> [p \in Process |-> NoType],
     got   |-> [p \in Process |-> NoMessage]]

\* Faulty variant: the last message sent is received first.
PutInFront(b, p, m) ==
    IF b.waits[p] \in {AnyType, m.type}
    THEN [b EXCEPT !.got[p] = m, !.waits[p] = NoType]
    ELSE [b EXCEPT !.inbox[p] = <<m>> \o @]

\* m reaches p: the call it waits in returns m, or m stays in its inbox.
Put(b, p, m) ==
    IF b.waits[p] \in {AnyType, m.type}
    THEN [b EXCEPT !.got[p] = m, !.waits[p] = NoType]
    ELSE [b EXCEPT !.inbox[p] = Append(@, m)]

\* p receives whatever comes first, or begins to wait for it.
TakeFirst(b, p) ==
    IF b.inbox[p] = <<>>
    THEN [b EXCEPT !.waits[p] = AnyType]
    ELSE [b EXCEPT !.got[p] = Head(b.inbox[p]), !.inbox[p] = Tail(@)]

\* The processes in S wait no longer: their time is up.
StopWaiting(b, S) ==
    [b EXCEPT !.waits = [p \in Process |-> IF p \in S THEN NoType ELSE @[p]]]

Delete(b, p) == [b EXCEPT !.got[p] = NoMessage]

\* What p leaves when it dies.
Clear(b, p) ==
    [b EXCEPT !.inbox[p] = <<>>, !.waits[p] = NoType, !.got[p] = NoMessage]
-----------------------------------------------------------------------------
\* p has called nothing that has not returned, and holds no message.
Idles(p) == boxes.waits[p] = NoType /\ boxes.got[p] = NoMessage

Fresh(m) ==
    \A p \in Process : boxes.got[p] # m /\ ~Contains(boxes.inbox[p], m)

Send(p, m) == boxes' = Put(boxes, p, m) /\ Fresh(m)

ReceiveFirst(p) == Idles(p) /\ boxes' = TakeFirst(boxes, p)

\* The first message of the type is received.  Those before it stay; those
\* behind it stay or are lost.
ReceiveType(p, t) ==
    LET inbox == boxes.inbox[p]
        found == {i \in DOMAIN inbox : inbox[i].type = t}
    IN  /\ Idles(p)
        /\ \/ /\ found = {}
              /\ boxes' = [boxes EXCEPT !.waits[p] = t]
           \/ \E i \in found :
                 /\ \A j \in found : i <= j
                 /\ \E kept \in {<<>>, SubSeq(inbox, i + 1, Len(inbox))} :
                       boxes' = [boxes EXCEPT
                                    !.got[p] = inbox[i],
                                    !.inbox[p] = SubSeq(inbox, 1, i - 1) \o kept]

TimeOut(S) == boxes' = StopWaiting(boxes, S)

DeleteMessage(p) == boxes.got[p] # NoMessage /\ boxes' = Delete(boxes, p)

Die(p) == boxes' = Clear(boxes, p)

Init == boxes = BoxInit

Act(p) ==
    \/ \E m \in Message : Send(p, m)
    \/ ReceiveFirst(p)
    \/ \E t \in Types : ReceiveType(p, t)
    \/ DeleteMessage(p)
    \/ Die(p)

\* Most steps of an implementation change no mailbox: TLC finds these first.
Next ==
    \/ UNCHANGED boxes
    \/ \E p \in Process : Act(p)
    \/ \E S \in SUBSET {p \in Process : boxes.waits[p] # NoType} : TimeOut(S)

Spec == Init /\ [][Next]_boxes
=============================================================================
