----------------------------- MODULE LineEditor -----------------------------
(***************************************************************************)
(* What the console promises whoever reads lines from it: input is a       *)
(* sequence of finished lines, which nobody can take back, and the line    *)
(* being edited, of which keys take back the last character or all.  There *)
(* is room for so many characters in all; the last one finishes the line.  *)
(***************************************************************************)
EXTENDS Naturals, Sequences

CONSTANTS
    Chars,          \* the characters that are kept
    Enders,         \* those that finish a line
    Room

VARIABLES finished, line

Init == finished = <<>> /\ line = <<>>

Insert(c) ==
    LET longer == Append(line, c)
        full   == Len(finished) + Len(longer) = Room
    IN /\ Len(finished) + Len(line) < Room
       /\ IF c \in Enders \/ full
          THEN finished' = finished \o longer /\ line' = <<>>
          ELSE line' = longer /\ UNCHANGED finished

Erase ==
    /\ line # <<>>
    /\ line' = SubSeq(line, 1, Len(line) - 1)
    /\ UNCHANGED finished

Kill == line' = <<>> /\ UNCHANGED finished

Next == Erase \/ Kill \/ \E c \in Chars : Insert(c)

Spec == Init /\ [][Next]_<<finished, line>>
=============================================================================
