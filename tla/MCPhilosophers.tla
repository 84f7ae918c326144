---------------------------- MODULE MCPhilosophers ----------------------------
(***************************************************************************)
(* An instance of Commands, and of the Philosophers they start, for TLC.   *)
(***************************************************************************)
EXTENDS Commands

\* The character of a letter, and those of a word.
Place(letter, alphabet) == CHOOSE i \in 1 .. 26 : SubSeq(alphabet, i, i) = letter

Character(letter) ==
    IF \E i \in 1 .. 26 : SubSeq("abcdefghijklmnopqrstuvwxyz", i, i) = letter
    THEN 96 + Place(letter, "abcdefghijklmnopqrstuvwxyz")
    ELSE 64 + Place(letter, "ABCDEFGHIJKLMNOPQRSTUVWXYZ")

Word(name) == [i \in 1 .. Len(name) |-> Character(SubSeq(name, i, i))]

App(name, execute) == [Name |-> Word(name), Execute |-> execute]

Programs ==
    <<App("tm", "AppTaskManager"), App("TaskManager", "AppTaskManager"),
      App("Kill", "AppKill"), App("ChangePrio", "AppChangePrio"),
      App("taskmanager", "AppTaskManager"), App("kill", "AppKill"),
      App("changeprio", "AppChangePrio"), App("philosopher", "AppPhilosopher"),
      App("waiter", "AppWaiter"), App("shell", "AppShell"), App("ring", "AppRing"),
      App("ringnode", "AppRingNode"), App("startwaiter", "AppStartWaiter"),
      App("drone", "AppDrone"), App("keepalive", "AppKeepAlive"),
      App("startkeepalive", "AppStartKeepAlive")>>

\* Nothing, a digit, or another character.
Remains == {<<>>, <<Zero>>, <<97>>}

\* PIDs of one, two and three digits.
SomePIDs == 1 .. 20 \cup 95 .. 105 \cup 990 .. 999

\* Every program, parts of names and extended names, and numbers for the two
\* that take them.
SomeLines ==
    {[word |-> Word(name), numbers |-> <<>>] :
        name \in {"t", "task", "kil", "killer", "ringnod", "rings", "Tm", "Exit", "Exi"}} \cup
    {[word |-> Programs[i].Name, numbers |-> <<>>] : i \in DOMAIN Programs} \cup
    {[word |-> Word("ring"), numbers |-> <<3>>], [word |-> Word("Exit"), numbers |-> <<1>>]} \cup
    {[word |-> Word("kill"), numbers |-> <<pid>>] : pid \in SomePIDs} \cup
    {[word |-> Word("changeprio"), numbers |-> <<pid, prio>>] :
        pid \in SomePIDs, prio \in {0, 9, 10, 31}}
=============================================================================
