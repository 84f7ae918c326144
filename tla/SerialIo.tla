------------------------------- MODULE SerialIo -------------------------------
(***************************************************************************)
(* The serial file of ARCOS, src/base/io/io.c, on top of the scheduler:    *)
(* the input buffer and the processes that wait for a character, the texts *)
(* to be displayed, and the two interrupts of the UART.                    *)
(*                                                                         *)
(* Not in this model: the references to the file and to the readers, which *)
(* are taken and given up in pairs; handles; the LCD, which has no state.  *)
(* Nobody types NUL, and no text is longer than a buffer.  A reader may be *)
(* killed; its place in the queue, with a reference to it, stays.  The     *)
(* buffer of a reader is not modelled: it gets what is in there when it    *)
(* runs again, which is what the interrupt that resumes it stored there.   *)
(***************************************************************************)
EXTENDS Scheduler

CONSTANTS
    Char,        \* the characters but NUL
    NUL,         \* the character that ends a string
    Text,        \* the texts processes write
    FIFO_SIZE,   \* places of the input buffer (16)
    NoPointer,   \* the NULL outputPointer
    MaxTexts     \* bound on the texts that wait to be displayed

ASSUME SerialIoAssumption ==
    /\ NUL \notin Char
    /\ Text \subseteq Seq(Char)
    /\ FIFO_SIZE \in Nat \ {0, 1}
    /\ NoPointer \notin Nat

VARIABLES
    fifo,     \* the input buffer
    waiting,  \* the processes in waitingQueue
    output,   \* the texts in bufferQueue, and outputPointer
    moved     \* the last character read or displayed; not state of the code

vars == <<ke, fifo, waiting, output, moved>>

\* output.pointer is the number of characters of the first text displayed.
IoTypeOK ==
    /\ TypeOK
    /\ fifo \in [buffer : [0 .. FIFO_SIZE - 1 -> Char \cup {NUL}],
                 length : 0 .. FIFO_SIZE - 1]
    /\ waiting \in Seq(Process)
    /\ output.texts \in Seq(Text)
    /\ IF output.texts = <<>>
       THEN output.pointer = NoPointer
       ELSE output.pointer \in 0 .. Len(Head(output.texts))

IoInitialize ==
    /\ fifo = [buffer |-> [i \in 0 .. FIFO_SIZE - 1 |-> NUL], length |-> 0]
    /\ waiting = <<>>
    /\ output = [texts |-> <<>>, pointer |-> NoPointer]
    /\ moved = [to |-> "nobody", char |-> NUL]
-----------------------------------------------------------------------------
\* Faulty variants: the last place is used too; the place behind the free one
\* is taken.
AddCharToLastPlace(f, c) ==
    IF f.length < FIFO_SIZE
    THEN [f EXCEPT !.buffer[f.length] = c, !.length = @ + 1]
    ELSE f
AddCharOnePlaceOff(f, c) ==
    IF f.length + 1 < FIFO_SIZE
    THEN [f EXCEPT !.buffer[f.length + 1] = c, !.length = @ + 1]
    ELSE f

AddCharToBuffer(f, c) ==
    IF f.length + 1 < FIFO_SIZE
    THEN [f EXCEPT !.buffer[f.length] = c, !.length = @ + 1]
    ELSE f

\* Faulty variant: the last character is not moved.
RemoveButLast(f) ==
    [buffer |-> [i \in 0 .. FIFO_SIZE - 1 |->
                    IF i + 1 < f.length THEN f.buffer[i + 1] ELSE f.buffer[i]],
     length |-> IF f.length > 0 THEN f.length - 1 ELSE 0]

\* What GetFirstCharFromBuffer leaves of the buffer; it returns buffer[0].
WithoutFirstChar(f) ==
    [buffer |-> [i \in 0 .. FIFO_SIZE - 1 |->
                    IF i < f.length THEN f.buffer[i + 1] ELSE f.buffer[i]],
     length |-> IF f.length > 0 THEN f.length - 1 ELSE 0]

\* The reader that runs next gets the first character of f.
GetFirstChar(f) ==
    /\ moved' = [to |-> "process", char |-> f.buffer[0]]
    /\ fifo' = WithoutFirstChar(f)

\* Faulty variant: the reader comes first in the queue.
EnqueuedInFront(p) == <<p>> \o waiting

Enqueued(p) == Append(waiting, p)
-----------------------------------------------------------------------------
\* A character typed ahead goes into the reader's buffer, but the reader waits
\* all the same: the character that resumes it is stored over this one, which
\* nobody gets.
IoReadSerial ==
    /\ ~ke.bugcheck
    /\ ke.current # Idle
    /\ fifo' = IF waiting = <<>> /\ fifo.buffer[0] # NUL
               THEN WithoutFirstChar(fifo) ELSE fifo
    /\ waiting' = Enqueued(ke.current)
    /\ ke' = KeBlockProcess(ke)
    /\ UNCHANGED <<output, moved>>

\* Faulty variant: the reader keeps its place in the queue.
InterruptKeepingReader(c) ==
    LET f == AddCharToBuffer(fifo, c)
    IN  /\ ~ke.bugcheck
        /\ UNCHANGED <<output, waiting>>
        /\ \/ /\ waiting # <<>>
              /\ GetFirstChar(f)
              /\ ke' = KeResumeProcess(ke, Head(waiting))
           \/ /\ waiting = <<>>
              /\ fifo' = f
              /\ UNCHANGED <<ke, moved>>

\* A character arrives at the UART.
IoInterruptHandler(c) ==
    LET f == AddCharToBuffer(fifo, c)
    IN  /\ ~ke.bugcheck
        /\ UNCHANGED output
        /\ \/ /\ waiting # <<>>
              /\ GetFirstChar(f)
              /\ waiting' = Tail(waiting)
              /\ ke' = KeResumeProcess(ke, Head(waiting))
           \/ /\ waiting = <<>>
              /\ fifo' = f
              /\ UNCHANGED <<ke, waiting, moved>>

\* Faulty variant: the text being displayed is started again.
QueuedFromStart(text) ==
    [texts |-> Append(output.texts, text), pointer |-> 0]

Queued(text) ==
    [texts   |-> Append(output.texts, text),
     pointer |-> IF output.texts = <<>> THEN 0 ELSE output.pointer]

IoWriteSerial(text) ==
    /\ ~ke.bugcheck
    /\ ke.current # Idle
    /\ Len(output.texts) < MaxTexts
    /\ output' = Queued(text)
    /\ UNCHANGED <<ke, fifo, waiting, moved>>

\* The UART can send: the next character is displayed, or, at the end of a
\* text, the next text begins.
IoTransmitterInterruptHandler ==
    /\ ~ke.bugcheck
    /\ output.pointer # NoPointer
    /\ LET text == Head(output.texts)
           rest == Tail(output.texts)
       IN  \/ /\ output.pointer < Len(text)
              /\ moved' = [to |-> "display", char |-> text[output.pointer + 1]]
              /\ output' = [output EXCEPT !.pointer = @ + 1]
           \/ /\ output.pointer = Len(text)
              /\ output' = [texts   |-> rest,
                            pointer |-> IF rest = <<>> THEN NoPointer ELSE 0]
              /\ UNCHANGED moved
    /\ UNCHANGED <<ke, fifo, waiting>>

\* What the scheduler does for others than this file.  They resume those who
\* wait for them, and nobody kills process 0; the PCB of a reader is not used again
\* while the queue has it.
Others ==
    /\ \/ \E p \in Process, prio \in Priorities :
              ~Contains(waiting, p) /\ StartProcess(p, prio)
       \/ \E p \in Process \ {Idle} : StopProcess(p)
       \/ BlockProcess
       \/ \E p \in Process : ~Contains(waiting, p) /\ ResumeProcess(p)
       \/ \E p \in Process, prio \in NewPriorities : ChangeProcessPriority(p, prio)
       \/ \E ms \in Sleeps, resume \in BOOLEAN : SuspendProcess(ms, resume)
       \/ HandleTimer
       \/ Spin
    /\ UNCHANGED <<fifo, waiting, output, moved>>

IoInit == Init /\ IoInitialize

IoNext ==
    \/ IoReadSerial
    \/ \E c \in Char : IoInterruptHandler(c)
    \/ \E text \in Text : IoWriteSerial(text)
    \/ IoTransmitterInterruptHandler
    \/ Others

IoSpec == IoInit /\ [][IoNext]_vars
-----------------------------------------------------------------------------
\* The characters kept are in the first places and NUL is in all the others:
\* IoReadSerial takes the first place to tell whether there is a character,
\* and what moves up from behind the last character must not be one.
NulBehindInput ==
    \A i \in 0 .. FIFO_SIZE - 1 : fifo.buffer[i] = NUL <=> i >= fifo.length

\* The readers that were not killed.
Living(p) == p \in ke.scheduled

Precedes(s, p, q) == \E i, j \in DOMAIN s : i < j /\ s[i] = p /\ s[j] = q

\* The living readers in waitingQueue are on the blocked list, each once and in
\* the order of their calls (the list is last in, first out), whoever else blocks
\* or sleeps beside them, and whoever of them was killed and stayed in the queue.
ReadersAreBlocked ==
    ~ke.bugcheck =>
        /\ IsInjective(waiting)
        /\ \A p \in Process : Contains(waiting, p) /\ Living(p) => Contains(ke.blocked, p)
        /\ \A p, q \in Process :
              Precedes(ke.blocked, p, q) /\ Contains(waiting, p) /\ Contains(waiting, q) =>
                  Precedes(waiting, q, p)

\* A character halts the machine only when it is for a reader that was killed,
\* and then it does: the interrupt resumes the first in waitingQueue, dead or
\* alive.  Nothing else that happens to this file halts it.
OnlyDeadReadersHalt ==
    [][LET head == Head(waiting)
       IN  /\ ~ke.bugcheck /\ ke'.bugcheck => waiting # <<>> /\ ~Living(head)
           /\ waiting # <<>> /\ ~Living(head) /\ waiting' = Tail(waiting) => ke'.bugcheck]_vars

\* A reader goes on in its turn and with a character: no call of IoReadSerial
\* ends but by one from the buffer, of which there is at least one when somebody
\* waits and a key is pressed.
ReadersGetCharacters ==
    [][\A i \in DOMAIN waiting :
          ~Contains(waiting', waiting[i]) =>
              /\ i = 1
              /\ moved'.to = "process"
              /\ moved'.char # NUL]_vars

\* The characters in a buffer, and what is still to be displayed of the texts.
Typed(f) == [i \in 1 .. f.length |-> f.buffer[i - 1]]

Owed(o) ==
    IF o.texts = <<>>
    THEN <<>>
    ELSE LET all == FlattenSeq(o.texts) IN SubSeq(all, o.pointer + 1, Len(all))

\* The buffers and the two interrupts do what Terminal says.
Promise ==
    INSTANCE Terminal WITH
        Capacity <- FIFO_SIZE - 1,
        typed    <- Typed(fifo),
        readers  <- Len(waiting),
        owed     <- Owed(output)

\* io.c implements Terminal: no character that was kept is repeated or out of
\* order on its way to the processes or the display, and none is lost but the
\* first one typed ahead for a call that nobody else waits before, however the
\* two interrupts and the calls of several processes come.
ImplementsTerminal == Promise!Spec
=============================================================================
