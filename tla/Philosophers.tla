----------------------------- MODULE Philosophers -----------------------------
(***************************************************************************)
(* The dining philosophers of ARCOS, src/base/apps/waiter.c and            *)
(* philosopher.c, over the promise of the message calls, Mailboxes.  The   *)
(* waiter hands out the forks; a philosopher asks for its left fork, then  *)
(* for its right one, and asks again when no answer comes in time.         *)
(*                                                                         *)
(* A system call and what a program computes between it and the next are   *)
(* one action; the programs take turns in any order, although the waiter   *)
(* has the highest priority of them (15 to 5), since the user can change   *)
(* priorities.  Sleeps and time-outs end at any time.  The arguments that  *)
(* tell a philosopher its forks are in Arguments.                          *)
(*                                                                         *)
(* The waiter leaves after 300 messages; here, after any number of them.   *)
(***************************************************************************)
EXTENDS Integers, FiniteSets, Sequences, SequencesExt

CONSTANTS
    N,            \* philosophers and forks (5)
    Waiter,       \* the process of the waiter
    NoMessage,    \* the NULL message
    NoType,       \* what a process waits for that does not receive
    MaxRequests   \* bound on requests of one philosopher the waiter has not received

Philosopher == 0 .. N - 1
Fork        == 0 .. N - 1

ASSUME PhilosophersAssumption ==
    /\ N \in Nat \ {0, 1}
    /\ Waiter \notin Philosopher
    /\ MaxRequests \in Nat \ {0}

\* Both programs send type 0 and take the first message that comes.
MESSAGE_TYPE_FIRST == 0

\* What is sent to the waiter: the letter of the message, and the fork's digit.
ToWaiter(i, what, f) ==
    [type |-> MESSAGE_TYPE_FIRST, from |-> i, what |-> what, fork |-> f]

\* The answer "fork" does not say which.
Granted == [type |-> MESSAGE_TYPE_FIRST, from |-> Waiter, what |-> "fork"]

Request == {ToWaiter(i, what, f) :
               i \in Philosopher, what \in {"L", "R", "D"}, f \in Fork}

ASSUME MessagesAssumption ==
    /\ NoMessage \notin Request \cup {Granted}
    /\ NoType # MESSAGE_TYPE_FIRST

VARIABLES
    boxes,    \* the mailboxes of the waiter and the philosophers
    waiter,   \* the variables of AppWaiter, and what it does
    step,     \* what each philosopher does
    has       \* the forks each philosopher has

vars == <<boxes, waiter, step, has>>

Mail == INSTANCE Mailboxes WITH
            Process <- Philosopher \cup {Waiter},
            Message <- Request \cup {Granted},
            Types   <- {MESSAGE_TYPE_FIRST},
            AnyType <- MESSAGE_TYPE_FIRST

\* The digits in the arguments of philosopher i.
Left(i)  == i
Right(i) == (i + 1) % N

\* The fork a philosopher asks for, and how.
Wanted(i) == IF has[i] = {} THEN Left(i) ELSE Right(i)
Asked(i)  == ToWaiter(i, IF has[i] = {} THEN "L" ELSE "R", Wanted(i))

WaiterSteps == {"hiring", "serving", "gone"}
Steps == {"absent", "asking", "listening", "waiting", "eating", "dropping"}

\* The state has its type, and the waiter counts the forks it has given away.
PhTypeOK ==
    /\ boxes \in Mail!BoxState
    /\ waiter \in [step : WaiterSteps, hired : 0 .. N,
                   freeForks : [Fork -> BOOLEAN], forksInUse : Int]
    /\ step \in [Philosopher -> Steps]
    /\ has \in [Philosopher -> SUBSET Fork]
    /\ waiter.forksInUse = Cardinality({f \in Fork : ~waiter.freeForks[f]})

PhInit ==
    /\ boxes = Mail!BoxInit
    /\ waiter = [step |-> "hiring", hired |-> 0,
                 freeForks |-> [f \in Fork |-> TRUE], forksInUse |-> 0]
    /\ step = [i \in Philosopher |-> "absent"]
    /\ has = [i \in Philosopher |-> {}]
-----------------------------------------------------------------------------
\* SendMessage to the waiter, which fails when that is gone; nobody looks.
SendToWaiter(m) ==
    boxes' = IF waiter.step = "gone" THEN boxes ELSE Mail!Put(boxes, Waiter, m)

\* The waiter creates the philosophers one after the other, and goes on without
\* one that could not be created.
Hire(i) ==
    /\ waiter.step = "hiring"
    /\ i = waiter.hired
    /\ step' \in {step, [step EXCEPT ![i] = "asking"]}
    /\ waiter' = [waiter EXCEPT !.hired = i + 1,
                                !.step = IF i + 1 = N THEN "serving" ELSE @]
    /\ UNCHANGED <<boxes, has>>

\* ReceiveFirst, called again when its time is up.
WaiterReceives ==
    /\ waiter.step = "serving"
    /\ Mail!ReceiveFirst(Waiter)
    /\ UNCHANGED <<waiter, step, has>>

WaiterTimesOut ==
    /\ boxes.waits[Waiter] # NoType
    /\ Mail!TimeOut({Waiter})
    /\ UNCHANGED <<waiter, step, has>>

\* Faulty variants: the last fork can be taken as a left one; a right fork is
\* given away twice.
GrantsTooMany(m) ==
    /\ m.what \in {"L", "R"}
    /\ waiter.freeForks[m.fork]
GrantsTwice(m) ==
    \/ m.what = "R"
    \/ m.what = "L" /\ waiter.forksInUse < N - 1 /\ waiter.freeForks[m.fork]

\* Whether a request is answered; if not, it is forgotten.
Grants(m) ==
    \/ m.what = "R" /\ waiter.freeForks[m.fork]
    \/ m.what = "L" /\ waiter.forksInUse < N - 1 /\ waiter.freeForks[m.fork]

\* Faulty variant: the count is not kept when a fork comes back.
TableAfterMiscounted(m) ==
    IF m.what = "D"
    THEN [waiter EXCEPT !.freeForks[m.fork] = TRUE]
    ELSE IF Grants(m)
    THEN [waiter EXCEPT !.forksInUse = @ + 1, !.freeForks[m.fork] = FALSE]
    ELSE waiter

TableAfter(m) ==
    IF m.what = "D"
    THEN [waiter EXCEPT !.forksInUse = @ - 1, !.freeForks[m.fork] = TRUE]
    ELSE IF Grants(m)
    THEN [waiter EXCEPT !.forksInUse = @ + 1, !.freeForks[m.fork] = FALSE]
    ELSE waiter

\* The waiter deals with the message it received and deletes it.
Serve ==
    LET m      == boxes.got[Waiter]
        answer == IF Grants(m) THEN Mail!Put(boxes, m.from, Granted) ELSE boxes
    IN  /\ m # NoMessage
        /\ boxes' = Mail!Delete(answer, Waiter)
        /\ waiter' = TableAfter(m)
        /\ UNCHANGED <<step, has>>

\* After the last message it deals with the waiter kills itself.
Leave ==
    /\ waiter.step = "serving"
    /\ boxes.got[Waiter] = NoMessage
    /\ boxes.waits[Waiter] = NoType
    /\ waiter' = [waiter EXCEPT !.step = "gone"]
    /\ boxes' = Mail!Clear(boxes, Waiter)
    /\ UNCHANGED <<step, has>>
-----------------------------------------------------------------------------
\* A philosopher asks for its left fork as soon as Sleep(2000) is over, and for
\* the other one when it has that.
Ask(i) ==
    /\ step[i] = "asking"
    /\ LET inbox == boxes.inbox[Waiter]
       IN  Cardinality({k \in DOMAIN inbox :
                           inbox[k].from = i /\ inbox[k].what # "D"}) < MaxRequests
    /\ SendToWaiter(Asked(i))
    /\ step' = [step EXCEPT ![i] = "listening"]
    /\ UNCHANGED <<waiter, has>>

Listen(i) ==
    /\ step[i] = "listening"
    /\ Mail!ReceiveFirst(i)
    /\ step' = [step EXCEPT ![i] = "waiting"]
    /\ UNCHANGED <<waiter, has>>

\* Whatever message comes is taken for the fork asked for.
Get(i) ==
    /\ step[i] = "waiting"
    /\ Mail!DeleteMessage(i)
    /\ has' = [has EXCEPT ![i] = @ \cup {Wanted(i)}]
    /\ step' = [step EXCEPT ![i] = IF has[i] = {} THEN "asking" ELSE "eating"]
    /\ UNCHANGED waiter

\* Faulty variant: the program goes on without a message.
GiveUpAndGoOn(i) ==
    /\ step[i] = "waiting"
    /\ boxes.waits[i] # NoType
    /\ Mail!TimeOut({i})
    /\ has' = [has EXCEPT ![i] = @ \cup {Wanted(i)}]
    /\ step' = [step EXCEPT ![i] = IF has[i] = {} THEN "asking" ELSE "eating"]
    /\ UNCHANGED waiter

\* No message came within 4000 ms.
GiveUp(i) ==
    /\ step[i] = "waiting"
    /\ boxes.waits[i] # NoType
    /\ Mail!TimeOut({i})
    /\ step' = [step EXCEPT ![i] = "asking"]
    /\ UNCHANGED <<waiter, has>>

\* Sleep(3000) is over, and the left fork goes back.
DropLeft(i) ==
    /\ step[i] = "eating"
    /\ SendToWaiter(ToWaiter(i, "D", Left(i)))
    /\ has' = [has EXCEPT ![i] = {Right(i)}]
    /\ step' = [step EXCEPT ![i] = "dropping"]
    /\ UNCHANGED waiter

DropRight(i) ==
    /\ step[i] = "dropping"
    /\ SendToWaiter(ToWaiter(i, "D", Right(i)))
    /\ has' = [has EXCEPT ![i] = {}]
    /\ step' = [step EXCEPT ![i] = "asking"]
    /\ UNCHANGED waiter

WaiterActs ==
    \/ \E i \in Philosopher : Hire(i)
    \/ WaiterReceives
    \/ WaiterTimesOut
    \/ Serve

PhilosopherActs(i) ==
    \/ Ask(i)
    \/ Listen(i)
    \/ Get(i)
    \/ GiveUp(i)
    \/ DropLeft(i)
    \/ DropRight(i)

\* The waiter is gone and created nobody.
Over ==
    /\ waiter.step = "gone"
    /\ \A i \in Philosopher : step[i] = "absent"
    /\ UNCHANGED vars

PhNext == WaiterActs \/ Over \/ Leave \/ \E i \in Philosopher : PhilosopherActs(i)

\* Every program goes on: the waiter waits for messages whenever there is none,
\* so those of lower priority run, the philosophers run in turn as each of them
\* sleeps soon, and sleeps and time-outs end.
Fairness ==
    /\ WF_vars(WaiterActs)
    /\ \A i \in Philosopher : WF_vars(PhilosopherActs(i))

PhSpec == PhInit /\ [][PhNext]_vars /\ Fairness
-----------------------------------------------------------------------------
\* The messages the waiter has yet to deal with.
Pending ==
    IF boxes.got[Waiter] = NoMessage
    THEN boxes.inbox[Waiter]
    ELSE <<boxes.got[Waiter]>> \o boxes.inbox[Waiter]

\* i has been sent a fork it has not got yet.
Promised(i) == boxes.got[i] # NoMessage \/ boxes.inbox[i] # <<>>

\* Where fork f can be: with a philosopher, promised to one that waits for it,
\* or on its way back.
Claims(f) ==
    {<<"has", i>>      : i \in {j \in Philosopher : f \in has[j]}} \cup
    {<<"promised", i>> : i \in {j \in Philosopher : Promised(j) /\ Wanted(j) = f}} \cup
    {<<"returned", k>> : k \in {l \in DOMAIN Pending :
                                   Pending[l].what = "D" /\ Pending[l].fork = f}}

\* However requests are repeated and answers come late, each fork is in one
\* place at most, which the waiter takes for free exactly when it is in none.
ForksAccounted ==
    \A f \in Fork :
        /\ \A c, d \in Claims(f) : c = d
        /\ waiter.step # "gone" => (waiter.freeForks[f] <=> Claims(f) = {})

\* Two philosophers that eat do not share a fork.
NeighboursNeverEatTogether ==
    \A i, j \in Philosopher :
        step[i] = "eating" /\ step[j] = "eating" /\ i # j =>
            {Left(i), Right(i)} \cap {Left(j), Right(j)} = {}

\* As long as there is a waiter and a philosopher, somebody eats again and
\* again: they never all wait for each other, although the waiter forgets the
\* requests it cannot grant.
SomebodyEats ==
    (\E i \in Philosopher : step[i] # "absent")
        ~> (waiter.step = "gone" \/ \E i \in Philosopher : step[i] = "eating")

\* When the waiter is gone those who have both forks finish eating, and from
\* then on nobody eats any more: the others ask for ever.
MealsEndWithTheWaiter ==
    waiter.step = "gone" ~> [](\A i \in Philosopher : step[i] # "eating")
=============================================================================
