------------------------------ MODULE Arguments ------------------------------
(***************************************************************************)
(* The way of a command and its arguments in ARCOS: from the line typed to *)
(* the shell, or from the program that creates a process, through the      *)
(* block ps.c keeps them in, to the program that reads them.               *)
(*                                                                         *)
(* There is room for the characters of the arguments, and none for their   *)
(* NUL: that is written behind the block, where it stays if the block is   *)
(* followed by bytes nobody uses, and otherwise is overwritten by whatever *)
(* is allocated next.                                                      *)
(***************************************************************************)
EXTENDS RtlString

CONSTANTS
    PsAvailApps,   \* the programs that can be created, with their names
    Garbage,       \* the strings found where something else was allocated
    PIDs           \* the PIDs programs are told

ASSUME ArgumentsAssumption ==
    /\ PsAvailApps \in Seq([Name : Seq(Nat), Execute : STRING])
    /\ Garbage \subseteq Seq(Nat)

\* Faulty variant: rounds down.
ALIGN_DOWN(x) == (x \div 4) * 4
ALIGN_MEMORY(x) == ((x + 3) \div 4) * 4

\* The block MmAlloc returns begins at the free pointer, which it moves on.
MmAlloc(free, size) == ALIGN_MEMORY(free + size)

\* What is found at the address of arguments that PsCreateProcess has copied.
KeptArguments(args) ==
    IF args = <<>> \/ MmAlloc(0, RtlStringLength(args)) > RtlStringLength(args)
    THEN {args}
    ELSE {args \o g : g \in Garbage}

PsCopyArgs(args, Buffersize) == FirstOf(args, Buffersize - 1)

\* What a program with a buffer of the given size may read of arguments.
ArgumentsRead(args, Buffersize) ==
    {PsCopyArgs(kept, Buffersize) : kept \in KeptArguments(args)}

\* Faulty variant: the lengths are not compared.
GetProgramBeginningWith(ProgramName) ==
    {i \in DOMAIN PsAvailApps : RtlCompareStrings(PsAvailApps[i].Name, ProgramName) = 0}

\* The programs that GetProgramAdress finds; it takes the first.
GetProgramAdress(ProgramName) ==
    {i \in DOMAIN PsAvailApps :
        /\ RtlStringLength(PsAvailApps[i].Name) = RtlStringLength(ProgramName)
        /\ RtlCompareStrings(PsAvailApps[i].Name, ProgramName) = 0}

\* The shell takes what is before the first space for the name of a program,
\* and the rest for its arguments.
split(string) ==
    LET spaces == {i \in DOMAIN string : string[i] = Space}
    IN  IF spaces = {}
        THEN [command |-> string, argument |-> <<>>]
        ELSE LET i == CHOOSE i \in spaces : \A j \in spaces : i <= j
             IN  [command  |-> FirstOf(string, i - 1),
                  argument |-> SubSeq(string, i + 1, Len(string))]
-----------------------------------------------------------------------------
\* The digits s begins with; s from its first digit on.
Digits(s) ==
    LET n == {i \in 0 .. Len(s) : \A j \in 1 .. i : Rtlappisdigit(s[j])}
    IN  FirstOf(s, CHOOSE i \in n : \A j \in n : j <= i)

FromDigit(s) ==
    LET n == {i \in 0 .. Len(s) : \A j \in 1 .. i : ~Rtlappisdigit(s[j])}
    IN  SubSeq(s, 1 + CHOOSE i \in n : \A j \in n : j <= i, Len(s))

\* The PID and the priority the program changeprio understands, if both are
\* there.
AppChangePrio(args) ==
    LET first  == FromDigit(args)
        second == FromDigit(SubSeq(first, Len(Digits(first)) + 1, Len(first)))
    IN  IF second = <<>>
        THEN <<>>
        ELSE <<RtlAtoUL(Digits(first)), RtlAtoUL(Digits(second))>>

\* The PID the program kill understands.
AppKill(args) == IF args = <<>> THEN <<>> ELSE <<RtlAtoUL(args)>>

\* "%d %d %d"
ThreeNumbers == <<Percent, 100, Space, Percent, 100, Space, Percent, 100>>

\* The arguments the waiter with a PID makes for a philosopher between two
\* forks, and the forks and the PID that reads from them.
WaiterArgs(left, right, pid) == RtlFormatString(25, ThreeNumbers, <<left, right, pid>>)

PhilosopherReads(args) ==
    <<args[1] - Zero, args[3] - Zero, RtlAtoUL(SubSeq(args, 5, Len(args)))>>
=============================================================================
