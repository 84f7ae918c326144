------------------------------ MODULE RtlString ------------------------------
(***************************************************************************)
(* The string routines of ARCOS, src/base/rtl/string.c, and what is done   *)
(* with them to the names of programs and to the arguments of processes in *)
(* src/base/ps/ps.c.                                                       *)
(*                                                                         *)
(* A string is the sequence of its characters before the NUL, a character  *)
(* its code.                                                               *)
(***************************************************************************)
EXTENDS Integers, Sequences, SequencesExt

CONSTANT
    LONG_RANGE   \* number of values of a LONG or ULONG (2^32)

\* An ASCII code is a LONG, and a ULONG has ten digits at most.
ASSUME RtlStringAssumption ==
    /\ LONG_RANGE \in Nat /\ LONG_RANGE >= 256 /\ LONG_RANGE \div 10 < 1000000000
    /\ \E w \in 8 .. 32 : LONG_RANGE = 2 ^ w

NUL     == 0
Space   == 32
Percent == 37
Minus   == 45
Zero    == 48
Nine    == 57

Long == -(LONG_RANGE \div 2) .. LONG_RANGE \div 2 - 1

\* The char at position i of s, if the positions before it hold others.
CharAt(s, i) == IF i \in DOMAIN s THEN s[i] ELSE NUL

RtlStringLength(s) == Len(s)

\* The end of dest ends the comparison: its extensions equal it.
RtlCompareStrings(src, dest) ==
    LET differ == {i \in DOMAIN dest : CharAt(src, i) # dest[i]}
    IN  IF differ = {}
        THEN 0
        ELSE LET i == CHOOSE i \in differ : \A j \in differ : i <= j
             IN  IF CharAt(src, i) < dest[i] THEN -1 ELSE 1

Rtlappisdigit(c) == Zero <= c /\ c <= Nine

\* -n as a LONG; the smallest one is its own negative.
Negative(n) == IF -n \in Long THEN -n ELSE n

\* n / 10 and n % 10 of C, which round towards 0.
Tenth(n) == IF n < 0 THEN -((-n) \div 10) ELSE n \div 10
LastDigit(n) == n - 10 * Tenth(n)

snprintlong[n \in Long] ==
    LET sign == IF n < 0 THEN <<Minus>> ELSE <<>>
        m    == IF n < 0 THEN Negative(n) ELSE n
    IN  sign \o (IF Tenth(m) # 0 THEN snprintlong[Tenth(m)] ELSE <<>>)
             \o <<LastDigit(m) + Zero>>

snprintulong[n \in 0 .. LONG_RANGE - 1] ==
    (IF n \div 10 # 0 THEN snprintulong[n \div 10] ELSE <<>>) \o <<(n % 10) + Zero>>

\* What 'd', 'c', 'u' and 's' make of argument a (x is not used with this).
Converted(c, a) ==
    CASE c = 100 -> snprintlong[a]
      [] c = 99  -> <<a>>
      [] c = 117 -> snprintulong[a]
      [] c = 115 -> a

\* All of the text.  A '%' is never the last character of a format.
FormattedText(format, arguments) ==
    LET from[at \in Nat \X Nat] ==
            LET i == at[1]   \* the character the rest begins with
                k == at[2]   \* the next argument
            IN  IF i > Len(format)
                THEN <<>>
                ELSE IF format[i] # Percent
                THEN <<format[i]>> \o from[<<i + 1, k>>]
                ELSE IF format[i + 1] \in {99, 100, 115, 117}
                THEN Converted(format[i + 1], arguments[k]) \o from[<<i + 2, k + 1>>]
                ELSE <<Percent, format[i + 1]>> \o from[<<i + 2, k>>]
    IN  from[<<1, 1>>]

\* The first of two numbers, and the first characters of s.
Least(x, y) == IF x < y THEN x ELSE y
FirstOf(s, n) == SubSeq(s, 1, Least(n, Len(s)))

\* What is in a buffer of size characters; one is for the NUL.
RtlFormatString(size, format, arguments) ==
    FirstOf(FormattedText(format, arguments), size - 1)

\* The spaces s begins with are skipped.
RtlAtoUL(s) ==
    LET value[i \in 0 .. Len(s)] ==
            IF \A j \in 1 .. i : s[j] = Space
            THEN 0
            ELSE (value[i - 1] * 10 + (s[i] - Zero)) % LONG_RANGE
    IN  value[Len(s)]
=============================================================================
