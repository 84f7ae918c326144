------------------------------- MODULE Terminal -------------------------------
(***************************************************************************)
(* What the serial file of ARCOS does for its users: each key pressed      *)
(* while processes wait gives one of them the first character that is      *)
(* kept.  Characters reach the processes in the order they were typed.  No *)
(* more than Capacity are kept while nobody waits, and of those the first  *)
(* is lost when a process begins to wait.  Texts reach the display whole,  *)
(* one after the other, in the order they were written.                    *)
(***************************************************************************)
EXTENDS Naturals, Sequences

CONSTANTS
    Char,       \* the characters but NUL
    NUL,        \* the character that ends a string
    Text,       \* the texts processes write
    Capacity    \* characters typed ahead that are kept

VARIABLES
    typed,    \* characters typed and not yet read
    readers,  \* how many processes wait for a character
    owed,     \* characters written and not yet displayed
    moved     \* the last character that was read or displayed

vars == <<typed, readers, owed, moved>>

Kept(c) == IF Len(typed) < Capacity THEN Append(typed, c) ELSE typed

Init ==
    /\ typed = <<>>
    /\ readers = 0
    /\ owed = <<>>
    /\ moved = [to |-> "nobody", char |-> NUL]

\* A process begins to wait.  What was typed ahead does not end its wait.
Ask ==
    /\ readers' = readers + 1
    /\ typed' = IF readers = 0 /\ typed # <<>> THEN Tail(typed) ELSE typed
    /\ UNCHANGED <<owed, moved>>

TypeAhead(c) ==
    /\ readers = 0
    /\ typed' = Kept(c)
    /\ UNCHANGED <<readers, owed, moved>>

\* A key ends the wait of one process.
TypeAndRead(c) ==
    /\ readers # 0
    /\ Kept(c) # <<>>
    /\ readers' = readers - 1
    /\ typed' = Tail(Kept(c))
    /\ moved' = [to |-> "process", char |-> Head(Kept(c))]
    /\ UNCHANGED owed

Write(text) == owed' = owed \o text /\ UNCHANGED <<typed, readers, moved>>

Display ==
    /\ owed # <<>>
    /\ owed' = Tail(owed)
    /\ moved' = [to |-> "display", char |-> Head(owed)]
    /\ UNCHANGED <<typed, readers>>

Next ==
    \/ Ask
    \/ \E c \in Char : TypeAhead(c) \/ TypeAndRead(c)
    \/ \E text \in Text : Write(text)
    \/ Display

Spec == Init /\ [][Next]_vars
=============================================================================
