------------------------------- MODULE Messages -------------------------------
(***************************************************************************)
(* ARCOS messages, src/base/mess/mess.c, on top of the scheduler: the      *)
(* message queue of each process, and the queue of processes that wait for *)
(* a message until a time-out.                                             *)
(*                                                                         *)
(* The queue of waiting processes is modelled with its pointers, because   *)
(* they are what can go wrong: it is searched and changed by loops that go *)
(* on after the entry they stand on was unlinked, once by ResumeMethod and *)
(* once more by the sender.  Memory is never exhausted and never used      *)
(* again; a node or message nothing points to stands for a new one here.   *)
(*                                                                         *)
(* PIDs are the processes themselves: a PID some node still carries is not *)
(* given to a new process.  A process that is dead is found by its PID as  *)
(* long as a handle, or the reference PsChangePriority forgets, keeps its  *)
(* PCB: it is no longer scheduled, and its State is still what it died in. *)
(* The State of one whose PCB is gone, or not made yet, is "created" here. *)
(* Besides receiving a process blocks in Sleep only, not for an object or  *)
(* a character.                                                            *)
(*                                                                         *)
(* The result of a receive call is stored for its caller: were             *)
(* KeCurrentProcess read after the call instead, every time-out would      *)
(* return the number of the system call as if it were a message.           *)
(***************************************************************************)
EXTENDS Scheduler, FiniteSets

CONSTANTS
    NodeCount,    \* bound on the waiting nodes in use at a time
    NoNode,       \* the NULL node
    Message,      \* messages in existence at a time
    NoMessage,    \* the NULL message
    Types,        \* types of messages, MESSAGE_TYPE_FIRST among them
    TimeOuts      \* the time-outs receivers give

\* "For internal use only" (types.h): receivers do not ask for it, though
\* applications send it.
MESSAGE_TYPE_FIRST == 0

Node == 1 .. NodeCount

ASSUME MessagesAssumption ==
    /\ NodeCount \in Nat
    /\ NoNode \notin Node \cup Types
    /\ NoMessage \notin Message \cup [id : Message, type : Types]
    /\ MESSAGE_TYPE_FIRST \in Types
    /\ TimeOuts \subseteq Ulong
    /\ TICK % ULONG_RANGE # 0    \* a tick moves the counter

VARIABLES
    mess    \* the queue of waiting processes and the message queues

vars == <<ke, mess>>

(***************************************************************************)
(* first and last are the fields of processQueue; next, owner and waitsFor *)
(* are the fields next, process (and pid) and type of its nodes.  queue is *)
(* the MessageQueue of each PCB, kind the type of a message.  result is    *)
(* the message the last receive of a process returned, until the process   *)
(* deletes it.                                                             *)
(***************************************************************************)
MessState ==
    [first    : Node \cup {NoNode},
     last     : Node \cup {NoNode},
     next     : [Node -> Node \cup {NoNode}],
     owner    : [Node -> Process],
     waitsFor : [Node -> Types],
     queue    : [Process -> Seq(Message)],
     kind     : [Message -> Types],
     result   : [Process -> Message \cup {NoMessage}]]

MessInit ==
    [first    |-> NoNode,
     last     |-> NoNode,
     next     |-> [n \in Node |-> NoNode],
     owner    |-> [n \in Node |-> Idle],
     waitsFor |-> [n \in Node |-> MESSAGE_TYPE_FIRST],
     queue    |-> [p \in Process |-> <<>>],
     kind     |-> [m \in Message |-> MESSAGE_TYPE_FIRST],
     result   |-> [p \in Process |-> NoMessage]]

\* p is suspended in a receive call.
Receiving(p) == p \in ke.scheduled /\ Contains(ke.timer, p) /\ ke.method[p]

\* The nodes found from n by following next.
From(s, n) ==
    LET after[i \in Nat] ==
            IF i = 0
            THEN {n} \ {NoNode}
            ELSE LET found == after[i - 1]
                 IN  found \cup ({s.next[x] : x \in found} \ {NoNode})
    IN  after[NodeCount]

Listed(s) == From(s, s.first)
Linked(s) == Listed(s) \cup From(s, s.last)

\* A message in no queue that no process has got: another one, when sent.
Unused(s, m) ==
    \A p \in Process : ~Contains(s.queue[p], m) /\ s.result[p] # m

\* What was in nodes nothing points to, and the types of unused messages, is
\* forgotten, to keep the state space small.
Tidy(s) ==
    LET gone == Node \ Linked(s)
    IN  [s EXCEPT !.next     = [n \in Node |-> IF n \in gone THEN NoNode ELSE @[n]],
                  !.owner    = [n \in Node |-> IF n \in gone THEN Idle ELSE @[n]],
                  !.waitsFor = [n \in Node |-> IF n \in gone THEN MESSAGE_TYPE_FIRST
                                                             ELSE @[n]],
                  !.kind     = [m \in Message |-> IF Unused(s, m)
                                                  THEN MESSAGE_TYPE_FIRST ELSE @[m]]]
-----------------------------------------------------------------------------
\* A new node.
FreeNode(s) == CHOOSE n \in Node \ Linked(s) : \A x \in Node \ Linked(s) : n <= x

\* Faulty variant: the new node does not become the last.
AddBehindLast(s, p, t) ==
    LET n == FreeNode(s)
        w == [s EXCEPT !.owner[n] = p, !.waitsFor[n] = t, !.next[n] = NoNode]
    IN  IF w.first = NoNode /\ w.last = NoNode
        THEN [w EXCEPT !.first = n, !.last = n]
        ELSE [w EXCEPT !.next[w.last] = n]

AddProcessToQueue(s, p, t) ==
    LET n == FreeNode(s)
        w == [s EXCEPT !.owner[n] = p, !.waitsFor[n] = t, !.next[n] = NoNode]
    IN  IF w.first = NoNode /\ w.last = NoNode
        THEN [w EXCEPT !.first = n, !.last = n]
        ELSE [w EXCEPT !.next[w.last] = n, !.last = n]

\* Faulty variant: last is not reset with first.
RemoveKeepingLast(s, iterator, prev) ==
    IF s.first = iterator
    THEN [s EXCEPT !.first = s.next[iterator]]
    ELSE IF s.last = iterator
    THEN [s EXCEPT !.last = prev]
    ELSE [s EXCEPT !.next[prev] = s.next[iterator]]

\* The code keeps the link to the last node when it removes that.
RemoveProcessFromQueue(s, iterator, prev) ==
    IF s.first = iterator /\ s.last = iterator
    THEN [s EXCEPT !.first = NoNode, !.last = NoNode]
    ELSE IF s.first = iterator
    THEN [s EXCEPT !.first = s.next[iterator]]
    ELSE IF s.last = iterator
    THEN [s EXCEPT !.last = prev]
    ELSE [s EXCEPT !.next[prev] = s.next[iterator]]

\* A loop over the queue from state k of the scheduler and s of the queue.
\* Body maps both and the two pointers to what they are after it; next is
\* read then.
Walk(k, s, Body(_)) ==
    LET start == [ke |-> k, mess |-> s, iterator |-> s.first, prev |-> s.first]
        after[i \in Nat] ==
            IF i = 0
            THEN start
            ELSE LET b == after[i - 1]
                     a == Body(b)
                 IN  IF b.iterator = NoNode
                     THEN b
                     ELSE [a EXCEPT !.prev = b.iterator,
                                    !.iterator = a.mess.next[b.iterator]]
    IN  after[NodeCount]

\* KeResumeProcess calls this for a process that leaves a receive call.
ResumeMethod(k, s, p) ==
    LET Body(b) ==
            IF s.owner[b.iterator] = p
            THEN [b EXCEPT !.mess = RemoveProcessFromQueue(@, b.iterator, b.prev)]
            ELSE b
    IN  Walk(k, s, Body).mess

\* The queue after KeResumeProcess has called the ResumeMethod of p, if any.
Resumed(k, s, p) == IF k.method[p] THEN ResumeMethod(k, s, p) ELSE s

\* Faulty variant: the type a process waits for is not looked at.
DeliverAnyType(b, p, m) ==
    LET n == b.iterator
    IN  IF b.mess.owner[n] # p \/ b.ke.state[p] # "blocked"
        THEN b
        ELSE [b EXCEPT !.ke = KeResumeProcess(@, p),
                       !.mess = [Resumed(b.ke, @, p) EXCEPT !.result[p] = m]]

\* Faulty variant: the receiver is resumed without a look at its State.
DeliverToAny(b, p, m) ==
    LET n == b.iterator
        r == [Resumed(b.ke, b.mess, p)
                 EXCEPT !.result[p] = IF b.ke.method[p] THEN m ELSE @]
    IN  IF \/ b.mess.owner[n] # p
           \/ b.mess.waitsFor[n] \notin {MESSAGE_TYPE_FIRST, b.mess.kind[m]}
        THEN b
        ELSE [b EXCEPT !.ke   = KeResumeProcess(@, p),
                       !.mess = RemoveProcessFromQueue(r, n, b.prev)]

\* The body of MessSendMessage's loop: a node of the receiver p that is not
\* blocked is unlinked; one that waits for this message ends p's call with m
\* as the result, which a plain Sleep does not look at, and is unlinked a
\* second time.
Deliver(b, p, m) ==
    LET n == b.iterator
        r == [Resumed(b.ke, b.mess, p)
                 EXCEPT !.result[p] = IF b.ke.method[p] THEN m ELSE @]
    IN  IF b.mess.owner[n] # p
        THEN b
        ELSE IF b.ke.state[p] # "blocked"
        THEN [b EXCEPT !.mess = RemoveProcessFromQueue(@, n, b.prev)]
        ELSE IF b.mess.waitsFor[n] \notin {MESSAGE_TYPE_FIRST, b.mess.kind[m]}
        THEN b
        ELSE [b EXCEPT !.ke   = KeResumeProcess(@, p),
                       !.mess = RemoveProcessFromQueue(r, n, b.prev)]

\* The message goes on the receiver's queue whether or not it was delivered.
MessSendMessage(p, m, t) ==
    LET Body(b) == Deliver(b, p, m)
        sent    == [mess EXCEPT !.kind[m] = t]
        w       == Walk(ke, sent, Body)
    IN  [ke |-> w.ke, mess |-> [w.mess EXCEPT !.queue[p] = Append(@, m)]]

\* Faulty variant: a message is unlinked at the head of the queue only.
UnlinkHead(q, m) == IF q # <<>> /\ Head(q) = m THEN Tail(q) ELSE q

Unlink(q, m) == IF Contains(q, m) THEN RemoveAt(q, Position(q, m)) ELSE q

\* The messages of a dead process are freed.  Its PCB still points to them, and a
\* message to it goes behind what was there, from where nobody receives it.
MessDeleteMessageQueue(s, p) ==
    [s EXCEPT !.queue[p] = <<>>, !.result[p] = NoMessage]
-----------------------------------------------------------------------------
\* The current process makes a system call: a receive is made when the
\* message the last one returned was deleted.
Calls ==
    /\ ~ke.bugcheck
    /\ ke.current # Idle

Receives == Calls /\ mess.result[ke.current] = NoMessage

\* The queue and the messages after a call.
Becomes(s) == mess' = Tidy(s)

\* Waiting for a message of type t.
Wait(ms, t) ==
    /\ Node \ Linked(mess) # {}
    /\ Becomes(AddProcessToQueue(mess, ke.current, t))
    /\ ke' = KeSuspendProcess(ke, ms, TRUE)

\* The current process gets m, and rest is what its queue is left with.
Take(m, rest) ==
    /\ Becomes([mess EXCEPT !.queue[ke.current]  = rest,
                            !.result[ke.current] = m])
    /\ UNCHANGED ke

Create(p, prio) ==
    /\ ke.state[p] = "created"
    /\ \A n \in Linked(mess) : mess.owner[n] # p
    /\ StartProcess(p, prio)
    /\ UNCHANGED mess

\* PsKillProcess frees the message queue of p, but no node of p, and its PCB
\* with the State KeStopSchedulingProcess leaves stays as long as others refer
\* to it.  The Priority of a dead process is not read again.  Kills of the dead
\* are in Processes.
Kill(p) ==
    LET stopped == KeStopSchedulingProcess(ke, p)
    IN  /\ Calls
        /\ p \in ke.scheduled \ {Idle}
        /\ \E left \in {stopped.state[p], "created"} :
              ke' = [stopped EXCEPT !.state[p] = left, !.priority[p] = 0]
        /\ Becomes(MessDeleteMessageQueue(mess, p))

\* The last handle or reference to the dead process p goes, and its PCB with it.
LastReference(p) ==
    /\ ~ke.bugcheck
    /\ p \notin ke.scheduled /\ ke.state[p] # "created"
    /\ ke' = [ke EXCEPT !.state[p] = "created", !.priority[p] = 0]
    /\ Becomes(MessDeleteMessageQueue(mess, p))

Sleep(ms) ==
    /\ Calls
    /\ ke' = KeSuspendProcess(ke, ms, FALSE)
    /\ UNCHANGED mess

\* PsReferenceProcess finds p, alive or dead, by its PID.
Found(p) == p # Idle /\ (p \in ke.scheduled \/ ke.state[p] # "created")

\* Each message sent is a new one, or one that is gone.  A machine that halts in
\* the call changes nothing more.
SendMessage(p, m, t) ==
    LET sent == MessSendMessage(p, m, t)
    IN  /\ Calls
        /\ Found(p)
        /\ Unused(mess, m)
        /\ ke' = sent.ke
        /\ \/ sent.ke.bugcheck /\ UNCHANGED mess
           \/ ~sent.ke.bugcheck /\ Becomes(sent.mess)

MessReceiveFirst(ms) ==
    LET queue == mess.queue[ke.current]
    IN  /\ Receives
        /\ \/ queue # <<>> /\ Take(Head(queue), Tail(queue))
           \/ queue = <<>> /\ Wait(ms, MESSAGE_TYPE_FIRST)

\* The next pointer of the message taken is cleared before it is used to
\* unlink it: the messages behind it are lost.
MessReceiveType(ms, t) ==
    LET queue == mess.queue[ke.current]
        found == {i \in DOMAIN queue : mess.kind[queue[i]] = t}
    IN  /\ Receives
        /\ \/ \E i \in found :
                 /\ \A j \in found : i <= j
                 /\ Take(queue[i], SubSeq(queue, 1, i - 1))
           \/ found = {} /\ Wait(ms, t)

\* The message the last receive returned may still be on the queue.
MessDeleteMessage ==
    LET m == mess.result[ke.current]
    IN  /\ Calls
        /\ m # NoMessage
        /\ Becomes([mess EXCEPT !.queue[ke.current]  = Unlink(@, m),
                                !.result[ke.current] = NoMessage])
        /\ UNCHANGED ke

\* The queue of waiting processes after those on the timer list before that are
\* not on it later have left it, in the order of the list.
Left(before, later) ==
    LET after[i \in 0 .. Len(before)] ==
            IF i = 0
            THEN mess
            ELSE IF Contains(later, before[i])
            THEN after[i - 1]
            ELSE Resumed(ke, after[i - 1], before[i])
    IN  after[Len(before)]

\* The receivers whose time is up leave the queue.
Tick ==
    /\ HandleTimer
    /\ Becomes(Left(ke.timer, ke'.timer))

MessagesInit ==
    /\ Init
    /\ mess = MessInit

MessagesNext ==
    \/ \E p \in Process, prio \in Priorities : Create(p, prio)
    \/ \E p \in Process : Kill(p) \/ LastReference(p)
    \/ \E ms \in Sleeps : Sleep(ms)
    \/ \E p \in Process, m \in Message, t \in Types : SendMessage(p, m, t)
    \/ \E ms \in TimeOuts : MessReceiveFirst(ms)
    \/ \E ms \in TimeOuts, t \in Types \ {MESSAGE_TYPE_FIRST} : MessReceiveType(ms, t)
    \/ MessDeleteMessage
    \/ Tick
    \/ Spin /\ UNCHANGED mess

MessagesSpec == MessagesInit /\ [][MessagesNext]_vars
-----------------------------------------------------------------------------
\* The nodes from first as far as last.
UpToLast == Listed(mess) \ (From(mess, mess.last) \ {mess.last})

\* The state has its type, and the queue of waiting processes has a last node
\* if it has a first one, as AddProcessToQueue supposes.
MessTypeOK ==
    /\ TypeOK
    /\ mess \in MessState
    /\ mess.first = NoNode <=> mess.last = NoNode

\* The nodes from first as far as last belong to the processes that wait in a
\* receive call, one node each, and to processes killed while they waited, and
\* a loop over the queue ends; the removals that are done twice and from under
\* a running loop lose no node and make no circle.
WaitingListIntact ==
    LET listed == Listed(mess)
        valid  == UpToLast
    IN  /\ mess.last \in listed \cup {NoNode}
        /\ \A n \in listed : n \notin From(mess, mess.next[n])
        /\ \A n \in valid : Receiving(mess.owner[n]) \/ mess.owner[n] \notin ke.scheduled
        /\ \A n1, n2 \in valid : mess.owner[n1] = mess.owner[n2] => n1 = n2
        /\ \A p \in Process : Receiving(p) => \E n \in valid : mess.owner[n] = p

\* One thing only halts the machine among the message calls, a message to a
\* process that was killed: the PCB is still found, its State still blocked and
\* a node of it still linked, waiting for a message of that type, so that
\* MessSendMessage resumes a process that is on no list (scheduler.c:417).
\* Whatever nodes are left behind, no message to a living process halts it.
OnlyDeadReceiversHalt ==
    [][~ke.bugcheck /\ ke'.bugcheck =>
         \E n \in Listed(mess), m \in Message, t \in Types :
            LET p == mess.owner[n]
            IN  /\ p \notin ke.scheduled /\ ke.state[p] = "blocked"
                /\ mess.waitsFor[n] \in {MESSAGE_TYPE_FIRST, t}
                /\ SendMessage(p, m, t)]_vars

\* A receive call ends for a reason: by a message of the type it waits for, or
\* once its time-out is over.
ReceiveEndsForAReason ==
    [][\A p \in Process :
          Receiving(p) /\ p \in ke'.scheduled /\ ~Contains(ke'.timer, p) =>
              \/ ke.wake[p] < ke'.ticks /\ ke'.ticks # ke.ticks
              \/ \E n \in Listed(mess) :
                    /\ mess.owner[n] = p
                    /\ mess'.result[p] # NoMessage
                    /\ mess.waitsFor[n] \in
                          {MESSAGE_TYPE_FIRST, mess'.kind[mess'.result[p]]}]_vars

\* Process 0 neither sends nor receives.
Receiver == Process \ {Idle}

\* The node of a process that receives; WaitingListIntact says it has one.
NodeOf(p) == CHOOSE n \in Node : mess.owner[n] = p

Letter(m) == [id |-> m, type |-> mess.kind[m]]

\* A message handed to a waiting receiver is no longer in its inbox, although
\* it stays on the queue until the receiver deletes it.
Inbox(p) ==
    LET rest == Unlink(mess.queue[p], mess.result[p])
    IN  [i \in DOMAIN rest |-> Letter(rest[i])]

Promise ==
    INSTANCE Mailboxes WITH
        Process <- Receiver,
        Message <- [id : Message, type : Types],
        AnyType <- MESSAGE_TYPE_FIRST,
        NoType  <- NoNode,
        boxes   <- [inbox |-> [p \in Receiver |-> Inbox(p)],
                    waits |-> [p \in Receiver |->
                                  IF Receiving(p) THEN mess.waitsFor[NodeOf(p)]
                                                  ELSE NoNode],
                    got   |-> [p \in Receiver |->
                                  IF mess.result[p] = NoMessage
                                  THEN NoMessage
                                  ELSE Letter(mess.result[p])]]

\* mess.c implements Mailboxes: whatever the list of receivers is in the middle
\* of, no message is overlooked while its receiver waits, lost, received twice,
\* out of order, by another process or by a call that waits for a different
\* type; but for what MessReceiveType loses.
ImplementsMailboxes == Promise!Spec

\* A plain Sleep lasts "the specified time interval" (scheduler.c:487): no
\* message ends it, also not one to a process that gave up receiving.
SleepsLastTheirTime ==
    [][\A p \in ke.scheduled \cap ke'.scheduled :
          Contains(ke.timer, p) /\ ~ke.method[p] /\ ~Contains(ke'.timer, p) =>
              ke'.ticks # ke.ticks]_vars
=============================================================================
