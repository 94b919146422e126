------------------------------- MODULE Console -------------------------------
(***************************************************************************)
(* The input side of the console: the interrupt handler uartintr of        *)
(* kernel/uart.c, which drains the UART, and consoleintr of                *)
(* kernel/console.c, which edits the ring cons.buf and echoes.  Keys       *)
(* arrive at any time, also while the handler runs; the handler itself is  *)
(* not interrupted.  consputc's test of errorOccurred is left out: error() *)
(* is only reached with interrupts off, so no key is handled after it.     *)
(***************************************************************************)
EXTENDS Naturals, Sequences

CONSTANTS
    INPUT_BUF,      \* size of the ring (128 in declarations.h)
    FifoSize,       \* bound: characters the UART holds (16 of a 16550a)
    Letters         \* ordinary characters

ASSUME InputBufAssumption == INPUT_BUF \in Nat \ {0}
ASSUME FifoSizeAssumption == FifoSize \in Nat
ASSUME LettersAssumption ==
    Letters \cap {"nul", "kill", "backspace", "delete", "return", "newline", "eof"} = {}

VARIABLES
    fifo,           \* what the UART has received
    handling,       \* uartintr is running
    buf, w, e,      \* cons.buf, cons.w and cons.e
    screen          \* what the terminal shows of the input

vars == <<fifo, handling, buf, w, e, screen>>

Keys  == Letters \cup {"nul", "kill", "backspace", "delete", "return", "newline", "eof"}
Chars == Letters \cup {"newline", "eof"}

r == 0              \* cons.r: there is no reader, nothing assigns it

Init ==
    /\ fifo = <<>> /\ handling = FALSE
    /\ buf = [i \in 0 .. INPUT_BUF - 1 |-> "nul"] /\ w = 0 /\ e = 0
    /\ screen = <<>>

(* The keyboard; a full UART drops the key.                                *)
KeyPressed(c) ==
    /\ Len(fifo) < FifoSize
    /\ fifo' = Append(fifo, c)
    /\ UNCHANGED <<handling, buf, w, e, screen>>

Interrupt ==
    /\ ~handling /\ fifo # <<>>
    /\ handling' = TRUE
    /\ UNCHANGED <<fifo, buf, w, e, screen>>

(* uartgetc() = -1 *)
Leave ==
    /\ handling /\ fifo = <<>>
    /\ handling' = FALSE
    /\ UNCHANGED <<fifo, buf, w, e, screen>>

Take(c) ==
    /\ handling /\ fifo # <<>> /\ c = Head(fifo)
    /\ fifo' = Tail(fifo)
    /\ UNCHANGED handling

(* consputc(BACKSPACE), n times: each time the last character goes. *)
Unecho(n) == screen' = SubSeq(screen, 1, Len(screen) - n)

(* Mutant of KillTo: the loop tests cons.e != cons.r.                      *)
KillToReadIndex ==
    CHOOSE m \in r .. e : (m = r \/ buf[(m - 1) % INPUT_BUF] = "newline")
                          /\ \A k \in m + 1 .. e : buf[(k - 1) % INPUT_BUF] # "newline"

(* Where the loop of Control-U ends: at cons.w or behind a newline.        *)
KillTo ==
    CHOOSE m \in w .. e : (m = w \/ buf[(m - 1) % INPUT_BUF] = "newline")
                          /\ \A k \in m + 1 .. e : buf[(k - 1) % INPUT_BUF] # "newline"

Kill ==
    /\ Take("kill")
    /\ e' = KillTo
    /\ Unecho(e - KillTo)
    /\ UNCHANGED <<buf, w>>

Backspace ==
    /\ \E c \in {"backspace", "delete"} : Take(c)
    /\ IF e # w THEN e' = e - 1 /\ Unecho(1) ELSE UNCHANGED <<e, screen>>
    /\ UNCHANGED <<buf, w>>

(* Mutants of HasRoom (one place too many) and of FinishesLine (a full     *)
(* ring does not finish the line).                                         *)
HasRoomAtEnd == e - r <= INPUT_BUF
FinishesLineUnlessFull(c) == c \in {"newline", "eof"}

HasRoom == e - r < INPUT_BUF
FinishesLine(c) == c \in {"newline", "eof"} \/ e + 1 = r + INPUT_BUF

Store(key) ==
    LET c == IF key = "return" THEN "newline" ELSE key
    IN /\ Take(key)
       /\ key \notin {"kill", "backspace", "delete", "nul"} /\ HasRoom
       /\ buf' = [buf EXCEPT ![e % INPUT_BUF] = c] /\ e' = e + 1
       /\ screen' = Append(screen, c)
       /\ w' = IF FinishesLine(c) THEN e + 1 ELSE w

Ignore(key) ==
    /\ Take(key)
    /\ key \notin {"kill", "backspace", "delete"} /\ (key = "nul" \/ ~HasRoom)
    /\ UNCHANGED <<buf, w, e, screen>>

Next ==
    \/ \E c \in Keys : KeyPressed(c) \/ Store(c) \/ Ignore(c)
    \/ Interrupt \/ Leave \/ Kill \/ Backspace

Spec == Init /\ [][Next]_vars

-----------------------------------------------------------------------------
(***************************************************************************)
(* The indices: r <= w <= e, at most a ring apart, and a full ring has     *)
(* nothing left to edit.                                                   *)
(***************************************************************************)
TypeOK ==
    /\ fifo \in Seq(Keys) /\ Len(fifo) <= FifoSize
    /\ handling \in BOOLEAN
    /\ buf \in [0 .. INPUT_BUF - 1 -> Chars \cup {"nul"}]
    /\ e \in r .. r + INPUT_BUF /\ w \in r .. e
    /\ screen \in Seq(Chars)
    /\ e = r + INPUT_BUF => w = e

(* The characters of the ring from index i up to before index j. *)
Text(i, j) == [k \in 1 .. j - i |-> buf[(i + k - 1) % INPUT_BUF]]

(***************************************************************************)
(* The terminal shows what is in the ring: each key that is stored is      *)
(* echoed, and each one taken back is wiped out.                           *)
(***************************************************************************)
EchoShowsInput == screen = Text(r, e)

(***************************************************************************)
(* The ring is a line editor: cons.w .. cons.e is the line being edited,   *)
(* what lies before is finished and is never changed again.                *)
(***************************************************************************)
Editor == INSTANCE LineEditor WITH
    Enders <- {"newline", "eof"}, Room <- INPUT_BUF,
    finished <- Text(r, w), line <- Text(w, e)

ImplementsLineEditor == Editor!Spec
=============================================================================
