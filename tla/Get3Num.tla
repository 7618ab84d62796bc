------------------------------ MODULE Get3Num ------------------------------
(***************************************************************************)
(* get3Num() of server.c: it scans a client's line once, character by      *)
(* character, for three numbers separated by single spaces, and says       *)
(* whether the line is a booking command.                                  *)
(***************************************************************************)
EXTENDS CInt, SequencesExt

CONSTANTS
  Alphabet,   \* the characters of a line, as strings of length one
  Lines       \* bound: the lines clients write as booking commands

DigitChars == <<"0", "1", "2", "3", "4", "5", "6", "7", "8", "9">>
IsDigit(c) == \E n \in 1 .. 10 : DigitChars[n] = c
Val(c)     == (CHOOSE n \in 1 .. 10 : DigitChars[n] = c) - 1

Blank == " "

\* The number of spaces before position p is the number of p's field.
FieldOf(line, p) == Cardinality({q \in 1 .. p - 1 : line[q] = Blank})

ASSUME LinesAssumption ==
  /\ IntHalf \in Nat \ {0}
  /\ Lines \subseteq Seq(Alphabet)

VARIABLES
  s,        \* the line
  i,        \* the position of the scan, from 1
  j,        \* the field it is in
  chk,      \* whether that field has begun with a minus sign
  opr,      \* the numbers
  result    \* "start", "scan", then TRUE or FALSE as "true" or "false", or
            \* "undefined": it has written beyond opr[]

\* Of an empty line, s[-1] is the high byte of conn_fd, and never a minus.
Begin ==
  /\ result = "start"
  /\ result' = IF s # <<>> /\ Last(s) = "-" THEN "false" ELSE "scan"
  /\ UNCHANGED <<s, i, j, chk, opr>>

Char(c) == result = "scan" /\ i <= Len(s) /\ s[i] = c

\* Seeded fault: what stands before the minus sign is not looked at.
MinusAnywhere ==
  /\ Char("-")
  /\ IF s[i + 1] = Blank
       THEN result' = "false" /\ UNCHANGED <<i, chk>>
       ELSE chk' = TRUE /\ i' = i + 1 /\ UNCHANGED result
  /\ UNCHANGED <<s, j, opr>>

\* Begin has made sure that a character follows.
Minus ==
  /\ Char("-")
  /\ IF (i > 1 /\ s[i - 1] # Blank) \/ s[i + 1] = Blank
       THEN result' = "false" /\ UNCHANGED <<i, chk>>
       ELSE chk' = TRUE /\ i' = i + 1 /\ UNCHANGED result
  /\ UNCHANGED <<s, j, opr>>

\* Seeded fault: the sign of one number stays on for the next.
SpaceKeepsSign ==
  /\ Char(Blank)
  /\ opr' = IF chk THEN [opr EXCEPT ![j] = Wrap(-@)] ELSE opr
  /\ j' = j + 1 /\ i' = i + 1
  /\ UNCHANGED <<s, chk, result>>

\* A sign behind the third space does not get here: its digit is met first.
Space ==
  /\ Char(Blank)
  /\ opr' = IF chk THEN [opr EXCEPT ![j] = Wrap(-@)] ELSE opr
  /\ j' = j + 1 /\ chk' = FALSE /\ i' = i + 1
  /\ UNCHANGED <<s, result>>

\* Seeded fault: int is taken for unbounded.
DigitUnbounded(c) ==
  /\ Char(c) /\ IsDigit(c) /\ j <= 2
  /\ opr' = [opr EXCEPT ![j] = @ * 10 + Val(c)]
  /\ i' = i + 1
  /\ UNCHANGED <<s, j, chk, result>>

Digit(c) ==
  /\ Char(c) /\ IsDigit(c) /\ j <= 2
  /\ opr' = [opr EXCEPT ![j] = Wrap(Wrap(@ * 10) + Val(c))]
  /\ i' = i + 1
  /\ UNCHANGED <<s, j, chk, result>>

\* A digit behind the third space is stored beyond opr[]: what the program
\* does from here on is not defined.
Stray(c) ==
  /\ Char(c) /\ IsDigit(c) /\ j > 2
  /\ result' = "undefined"
  /\ UNCHANGED <<s, i, j, chk, opr>>

OtherChar(c) ==
  /\ Char(c) /\ c \notin {"-", Blank} /\ ~IsDigit(c)
  /\ result' = "false"
  /\ UNCHANGED <<s, i, j, chk, opr>>

\* The number behind the last space is negated as if it were the third.
End ==
  /\ result = "scan" /\ i > Len(s)
  /\ opr' = IF chk THEN [opr EXCEPT ![2] = Wrap(-@)] ELSE opr
  /\ result' = "true"
  /\ UNCHANGED <<s, i, j, chk>>

Next ==
  \/ Begin \/ Minus \/ Space \/ End
  \/ \E c \in Alphabet : Digit(c) \/ Stray(c) \/ OtherChar(c)

-----------------------------------------------------------------------------
(* The reference: a line is a list of fields, each of them digits with an  *)
(* optional minus sign before them.                                        *)

Spaces(line) == FieldOf(line, Len(line) + 1)

WellFormed(line) ==
  \A p \in DOMAIN line :
    \/ IsDigit(line[p]) \/ line[p] = Blank
    \/ /\ line[p] = "-"
       /\ p = 1 \/ line[p - 1] = Blank
       /\ p < Len(line) /\ IsDigit(line[p + 1])

\* The value of field n up to each character.
Num(line, n) ==
  LET num[p \in 0 .. Len(line)] ==
        IF p = 0 THEN 0
        ELSE IF FieldOf(line, p) = n /\ IsDigit(line[p])
               THEN num[p - 1] * 10 + Val(line[p]) ELSE num[p - 1]
  IN  num

Magnitude(line, n) == Num(line, n)[Len(line)]

Signed(line, n) ==
  IF \E p \in DOMAIN line : line[p] = "-" /\ FieldOf(line, p) = n
    THEN -Magnitude(line, n) ELSE Magnitude(line, n)

\* Every digit has a place in opr[].
InBounds(line) == \A p \in DOMAIN line : IsDigit(line[p]) => FieldOf(line, p) <= 2
=============================================================================
