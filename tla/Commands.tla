------------------------------- MODULE Commands -------------------------------
(***************************************************************************)
(* The shell of ARCOS, src/base/apps/shell.c, and the programs it runs     *)
(* that read numbers from their arguments: kill, changeprio, and waiter,   *)
(* which begins the dinner of Philosophers.  The shell waits for a program *)
(* to end before it reads the next command, so the model has one command   *)
(* at a time, and ends with the dinner.                                    *)
(*                                                                         *)
(* A line is typed without errors and fits the shell's buffer.  What kill  *)
(* and changeprio do with the numbers is in Processes.                     *)
(***************************************************************************)
EXTENDS Philosophers, Arguments

CONSTANT
    Lines   \* what is typed: a word, and numbers after spaces

\* The word is neither empty nor has it spaces.
ASSUME CommandsAssumption ==
    \A line \in Lines :
        /\ line.word \in Seq(Nat) \ {<<>>}
        /\ \A i \in DOMAIN line.word : line.word[i] # Space
        /\ line.numbers \in Seq(0 .. LONG_RANGE - 1)

VARIABLE
    shell   \* the command being typed or run

commandVars == <<boxes, waiter, step, has, shell>>

\* The text of the numbers of a line, and of all of it.
NumbersTyped(line) ==
    LET first[n \in 0 .. Len(line.numbers)] ==
            IF n = 0
            THEN <<>>
            ELSE first[n - 1] \o (IF n = 1 THEN <<>> ELSE <<Space>>)
                              \o snprintulong[line.numbers[n]]
    IN  first[Len(line.numbers)]

Typed(line) ==
    IF line.numbers = <<>> THEN line.word ELSE line.word \o <<Space>> \o NumbersTyped(line)

\* "Exit"
ExitCommand == <<69, 120, 105, 116>>

Reading(line) == [step |-> "reading", line |-> line]

CommandsInit ==
    /\ PhInit
    /\ shell \in {Reading(line) : line \in Lines}
-----------------------------------------------------------------------------
\* The shell creates the process, keeping a copy of the arguments, or says that
\* it does not know the command.
RunCommand ==
    LET typed    == Typed(shell.line)
        words    == split(typed)
        found    == GetProgramAdress(words.command)
        isExit   == RtlCompareStrings(words.command, ExitCommand) = 0 /\ Len(typed) = 4
    IN  /\ shell.step = "reading"
        /\ IF isExit
           THEN shell' = [step |-> "gone"]
           ELSE IF found = {}
           THEN shell' = [step |-> "unknown", line |-> shell.line]
           ELSE \E kept \in KeptArguments(words.argument) :
                    shell' = [step    |-> "created",
                              line    |-> shell.line,
                              program |-> CHOOSE i \in found : \A j \in found : i <= j,
                              args    |-> kept]
        /\ UNCHANGED vars

\* The numbers a program reads from its arguments.
NumbersRead(program, args) ==
    CASE PsAvailApps[program].Execute = "AppKill"       -> AppKill(PsCopyArgs(args, 25))
      [] PsAvailApps[program].Execute = "AppChangePrio" -> AppChangePrio(PsCopyArgs(args, 25))
      [] OTHER                                          -> <<>>

\* The program runs; the waiter begins by hiring philosophers.
StartProgram ==
    /\ shell.step = "created"
    /\ shell' = [step    |-> IF PsAvailApps[shell.program].Execute = "AppWaiter"
                             THEN "dinner" ELSE "running",
                 line    |-> shell.line,
                 program |-> shell.program,
                 numbers |-> NumbersRead(shell.program, shell.args)]
    /\ UNCHANGED vars

\* The program has ended, and the next line is typed.
NextCommand ==
    /\ shell.step \in {"running", "unknown"}
    /\ shell' \in {Reading(line) : line \in Lines}
    /\ UNCHANGED vars

\* The shell has killed itself.
NoShell == shell.step = "gone" /\ UNCHANGED commandVars

WaiterTurn == shell.step = "dinner" /\ WaiterActs /\ UNCHANGED shell

PhilosopherTurn(i) == shell.step = "dinner" /\ PhilosopherActs(i) /\ UNCHANGED shell

EndOfDinner == shell.step = "dinner" /\ (Leave \/ Over) /\ UNCHANGED shell

CommandsNext ==
    \/ RunCommand
    \/ StartProgram
    \/ NextCommand
    \/ NoShell
    \/ WaiterTurn
    \/ EndOfDinner
    \/ \E i \in Philosopher : PhilosopherTurn(i)

\* The fairness of Philosophers; the user may type nothing.
CommandsSpec ==
    /\ CommandsInit
    /\ [][CommandsNext]_commandVars
    /\ WF_commandVars(WaiterTurn)
    /\ \A i \in Philosopher : WF_commandVars(PhilosopherTurn(i))
-----------------------------------------------------------------------------
\* What the philosophers created by a waiter with a PID may understand.
PhilosopherTold(i, pid) ==
    {PhilosopherReads(args) : args \in ArgumentsRead(WaiterArgs(Left(i), Right(i), pid), 30)}

Told == [i \in Philosopher |-> [pid \in PIDs |-> PhilosopherTold(i, pid)]]

\* Arguments survive three routines that format, cut and copy, two that parse,
\* and the missing room for their NUL: philosophers learn their forks and the
\* waiter, kill the PID typed, and changeprio the PID and the priority, but for
\* a priority or a lone PID whose arguments fill their block.
ArgumentsArrive ==
    /\ \A i \in Philosopher :
          step[i] # "absent" =>
              \A pid \in PIDs : Told[i][pid] = {<<Left(i), Right(i), pid>>}
    /\ shell.step = "running" =>
          LET numbers  == shell.line.numbers
              execute  == PsAvailApps[shell.program].Execute
              keepsNUL == Len(NumbersTyped(shell.line)) % 4 # 0
          IN  /\ execute = "AppKill" /\ Len(numbers) = 1 /\ keepsNUL =>
                    shell.numbers = numbers
              /\ execute = "AppChangePrio" /\ Len(numbers) = 2 =>
                    /\ shell.numbers[1] = numbers[1]
                    /\ keepsNUL => shell.numbers = numbers

\* A command runs the program of that name, and a word that is no program's
\* name runs none, although a comparison takes a name for equal to each of its
\* beginnings.
ProgramsFoundByName ==
    /\ shell.step \in {"created", "running", "dinner"} =>
           PsAvailApps[shell.program].Name = shell.line.word
    /\ shell.step = "unknown" =>
           \A i \in DOMAIN PsAvailApps : PsAvailApps[i].Name # shell.line.word
=============================================================================
