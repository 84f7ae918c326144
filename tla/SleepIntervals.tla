---------------------------- MODULE SleepIntervals ----------------------------
(***************************************************************************)
(* Scheduler with a real clock beside KepTickCount.  The clock does not    *)
(* wrap, so it tells how much of the interval a process asked              *)
(* KeSuspendProcess for is still to come, whatever the tick counter says.  *)
(***************************************************************************)
EXTENDS Scheduler

VARIABLE
    left   \* milliseconds of each process's interval still to come, or 0

timedVars == <<ke, left>>

TimedInit == Init /\ left = [p \in Process |-> 0]

TimedSuspend(ms, resume) ==
    /\ SuspendProcess(ms, resume)
    /\ left' = [left EXCEPT ![ke.current] = ms]

TimedTick ==
    /\ HandleTimer
    /\ left' = [p \in Process |-> IF left[p] > TICK THEN left[p] - TICK ELSE 0]

\* Every call but a sleep and a tick.  A process that leaves the timer list
\* before its interval is over has nothing left to wait for.
TimedCall ==
    /\ \/ \E p \in Process, prio \in Priorities : StartProcess(p, prio)
       \/ \E p \in Process : StopProcess(p)
       \/ BlockProcess
       \/ \E p \in Process : ResumeProcess(p)
       \/ \E p \in Process, prio \in NewPriorities : ChangeProcessPriority(p, prio)
       \/ Spin
    /\ left' = [p \in Process |-> IF Contains(ke'.timer, p) THEN left[p] ELSE 0]

TimedNext ==
    \/ \E ms \in Sleeps, resume \in BOOLEAN : TimedSuspend(ms, resume)
    \/ TimedTick
    \/ TimedCall

TimedSpec == TimedInit /\ [][TimedNext]_timedVars

\* The tick counter is still far enough from its limit for every sleep.
CounterFarFromLimit == \A ms \in Sleeps : ke.ticks + ms + TICK < ULONG_RANGE

Sleeping(k, p) == p \in k.scheduled /\ k.state[p] = "blocked" /\ Contains(k.timer, p)

\* KeSuspendProcess suspends the current process "for the specified time
\* interval": the timer never ends a sleep before the interval is over.
SleepIsNeverShort ==
    [][\A p \in Process :
         Sleeping(ke, p) /\ TimedTick /\ ~Sleeping(ke', p) => left'[p] = 0]_timedVars

\* Nor does it end it more than one tick late: a sleep whose interval is over
\* when a tick comes ends in that tick, however many sleepers are due with it.
SleepIsNeverLong ==
    [][\A p \in Process :
         Sleeping(ke, p) /\ left[p] = 0 /\ TimedTick /\ ~ke'.bugcheck =>
            ~Sleeping(ke', p)]_timedVars
=============================================================================
