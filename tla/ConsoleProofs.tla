---------------------------- MODULE ConsoleProofs ----------------------------
(***************************************************************************)
(* Proofs about the console's input, for a ring and a UART of any size and *)
(* any letters: its types, that the terminal shows what is in the ring,    *)
(* and that the ring is a line editor.                                     *)
(*                                                                         *)
(* Nothing moves cons.r, so the indices never leave the first round of the *)
(* ring, and an index is its own remainder.                                *)
(***************************************************************************)
EXTENDS Console, SequenceTheorems, TLAPS

(* There is no newline in the line being edited, so Control-U takes it all. *)
LineOpen == \A k \in w .. e - 1 : buf[k] # "newline"

ConsoleInv == TypeOK /\ EchoShowsInput /\ LineOpen

USE InputBufAssumption

-----------------------------------------------------------------------------
(***************************************************************************)
(* Runs of characters in a ring.                                           *)
(***************************************************************************)
TextOf(b, i, j) == [k \in 1 .. j - i |-> b[i + k - 1]]

LEMMA TextIsTextOf ==
    ASSUME NEW i \in 0 .. INPUT_BUF, NEW j \in 0 .. INPUT_BUF
    PROVE  Text(i, j) = TextOf(buf, i, j)
<1>1. \A k \in 1 .. j - i : i + k - 1 \in 0 .. INPUT_BUF - 1
    OBVIOUS
<1>2. \A n \in 0 .. INPUT_BUF - 1 : n % INPUT_BUF = n
    OBVIOUS
<1>3. \A k \in 1 .. j - i : (i + k - 1) % INPUT_BUF = i + k - 1
    BY <1>1, <1>2
<1> QED BY <1>3 DEF Text, TextOf

LEMMA TextSeq ==
    ASSUME NEW b, NEW i \in Nat, NEW j \in Nat, i <= j,
           \A k \in i .. j - 1 : b[k] \in Chars
    PROVE  /\ TextOf(b, i, j) \in Seq(Chars)
           /\ Len(TextOf(b, i, j)) = j - i
           /\ \A k \in 1 .. j - i : TextOf(b, i, j)[k] = b[i + k - 1]
<1>1. TextOf(b, i, j) \in [1 .. j - i -> Chars] /\ j - i \in Nat
    BY DEF TextOf
<1>2. TextOf(b, i, j) \in Seq(Chars)
    BY <1>1, SeqDef
<1>3. Len(TextOf(b, i, j)) = j - i
    BY <1>1, <1>2, LenProperties
<1> QED BY <1>2, <1>3 DEF TextOf

LEMMA TextEmpty ==
    ASSUME NEW b, NEW i \in Nat
    PROVE  TextOf(b, i, i) = <<>>
<1>1. TextOf(b, i, i) \in Seq(Chars) /\ Len(TextOf(b, i, i)) = 0
    BY TextSeq
<1> QED BY <1>1, EmptySeq

LEMMA TextSame ==
    ASSUME NEW a, NEW b, NEW i \in Nat, NEW j \in Nat,
           \A k \in i .. j - 1 : a[k] = b[k]
    PROVE  TextOf(a, i, j) = TextOf(b, i, j)
    BY DEF TextOf

LEMMA TextAppend ==
    ASSUME NEW a, NEW b, NEW i \in Nat, NEW j \in Nat, i <= j, NEW c \in Chars,
           \A k \in i .. j - 1 : a[k] \in Chars /\ b[k] = a[k],
           b[j] = c
    PROVE  TextOf(b, i, j + 1) = Append(TextOf(a, i, j), c)
<1> DEFINE s == TextOf(b, i, j + 1)
           t == TextOf(a, i, j)
<1>1. /\ s \in Seq(Chars) /\ Len(s) = j + 1 - i
      /\ \A k \in 1 .. j + 1 - i : s[k] = b[i + k - 1]
    <2>1. \A k \in i .. (j + 1) - 1 : b[k] \in Chars
        OBVIOUS
    <2> QED BY <2>1, TextSeq
<1>2. t \in Seq(Chars) /\ Len(t) = j - i /\ \A k \in 1 .. j - i : t[k] = a[i + k - 1]
    BY TextSeq
<1>3. /\ Append(t, c) \in Seq(Chars) /\ Len(Append(t, c)) = j - i + 1
      /\ \A k \in 1 .. j - i : Append(t, c)[k] = t[k]
      /\ Append(t, c)[j - i + 1] = c
    BY <1>2, AppendProperties
<1> HIDE DEF s, t
<1>4. \A k \in 1 .. j + 1 - i : s[k] = Append(t, c)[k]
    <2> TAKE k \in 1 .. j + 1 - i
    <2>1. CASE k \in 1 .. j - i
        <3>1. i + k - 1 \in i .. j - 1
            BY <2>1
        <3> QED BY <1>1, <1>2, <1>3, <2>1, <3>1
    <2>2. CASE k = j - i + 1
        <3>1. i + k - 1 = j
            BY <2>2
        <3> QED BY <1>1, <1>3, <2>2, <3>1
    <2>3. k \in 1 .. j - i \/ k = j - i + 1
        OBVIOUS
    <2> QED BY <2>1, <2>2, <2>3
<1>5. s = Append(t, c)
    <2>1. Len(s) = Len(Append(t, c)) /\ \A k \in 1 .. Len(s) : s[k] = Append(t, c)[k]
        BY <1>1, <1>3, <1>4
    <2> QED BY <1>1, <1>3, <2>1, SeqEqual
<1> QED BY <1>5 DEF s, t

LEMMA TextPrefix ==
    ASSUME NEW b, NEW i \in Nat, NEW j \in Nat, NEW m \in i .. j,
           \A k \in i .. j - 1 : b[k] \in Chars
    PROVE  SubSeq(TextOf(b, i, j), 1, m - i) = TextOf(b, i, m)
<1> DEFINE s == TextOf(b, i, j)
           t == TextOf(b, i, m)
           u == SubSeq(s, 1, m - i)
<1>1. s \in Seq(Chars) /\ Len(s) = j - i /\ \A k \in 1 .. j - i : s[k] = b[i + k - 1]
    BY TextSeq
<1>2. t \in Seq(Chars) /\ Len(t) = m - i /\ \A k \in 1 .. m - i : t[k] = b[i + k - 1]
    <2>1. \A k \in i .. m - 1 : b[k] \in Chars
        OBVIOUS
    <2> QED BY <2>1, TextSeq
<1> HIDE DEF s, t
<1>3. \A k \in 1 .. m - i : s[k] \in Chars
    BY <1>1
<1>4. u \in Seq(Chars) /\ Len(u) = m - i /\ \A k \in 1 .. m - i : u[k] = s[k]
    BY <1>3, SubSeqProperties
<1>5. u = t
    BY <1>1, <1>2, <1>4, SeqEqual
<1> QED BY <1>5 DEF s, t

LEMMA TextConcat ==
    ASSUME NEW b, NEW i \in Nat, NEW j \in Nat, NEW m \in i .. j,
           \A k \in i .. j - 1 : b[k] \in Chars
    PROVE  TextOf(b, i, j) = TextOf(b, i, m) \o TextOf(b, m, j)
<1> DEFINE s == TextOf(b, i, m)
           t == TextOf(b, m, j)
           u == TextOf(b, i, j)
<1>1. s \in Seq(Chars) /\ Len(s) = m - i /\ \A k \in 1 .. m - i : s[k] = b[i + k - 1]
    <2>1. \A k \in i .. m - 1 : b[k] \in Chars
        OBVIOUS
    <2> QED BY <2>1, TextSeq
<1>2. t \in Seq(Chars) /\ Len(t) = j - m /\ \A k \in 1 .. j - m : t[k] = b[m + k - 1]
    <2>1. \A k \in m .. j - 1 : b[k] \in Chars
        OBVIOUS
    <2> QED BY <2>1, TextSeq
<1>3. u \in Seq(Chars) /\ Len(u) = j - i /\ \A k \in 1 .. j - i : u[k] = b[i + k - 1]
    BY TextSeq
<1> HIDE DEF s, t, u
<1>4. /\ s \o t \in Seq(Chars) /\ Len(s \o t) = j - i
      /\ \A k \in 1 .. j - i : (s \o t)[k] = IF k <= m - i THEN s[k] ELSE t[k - (m - i)]
    <2>1. /\ s \o t \in Seq(Chars) /\ Len(s \o t) = Len(s) + Len(t)
          /\ \A k \in 1 .. Len(s) + Len(t) :
                (s \o t)[k] = IF k <= Len(s) THEN s[k] ELSE t[k - Len(s)]
        BY <1>1, <1>2, ConcatProperties
    <2>2. Len(s) = m - i /\ Len(s) + Len(t) = j - i
        BY <1>1, <1>2
    <2> QED BY <2>1, <2>2
<1>5. \A k \in 1 .. j - i : (s \o t)[k] = u[k]
    <2> TAKE k \in 1 .. j - i
    <2>1. CASE k <= m - i
        BY <1>1, <1>3, <1>4, <2>1
    <2>2. CASE ~(k <= m - i)
        <3>1. k - (m - i) \in 1 .. j - m /\ m + (k - (m - i)) - 1 = i + k - 1
            BY <2>2
        <3>2. t[k - (m - i)] = b[i + k - 1]
            BY <1>2, <3>1
        <3> QED BY <1>3, <1>4, <2>2, <3>2
    <2> QED BY <2>1, <2>2
<1>6. u = s \o t
    BY <1>3, <1>4, <1>5, SeqEqual
<1> QED BY <1>6 DEF s, t, u

-----------------------------------------------------------------------------
(***************************************************************************)
(* The invariant.                                                          *)
(***************************************************************************)
LEMMA Indices ==
    TypeOK => e \in 0 .. INPUT_BUF /\ w \in 0 .. e
    BY DEF TypeOK, r

(* What is in the ring before cons.e are characters that are shown. *)
LEMMA RingHasChars ==
    TypeOK /\ EchoShowsInput =>
        /\ screen = TextOf(buf, 0, e) /\ Len(screen) = e
        /\ \A k \in 0 .. e - 1 : buf[k] \in Chars
<1> SUFFICES ASSUME TypeOK, EchoShowsInput
             PROVE  /\ screen = TextOf(buf, 0, e) /\ Len(screen) = e
                    /\ \A k \in 0 .. e - 1 : buf[k] \in Chars
    OBVIOUS
<1>1. screen = TextOf(buf, 0, e) /\ screen \in Seq(Chars)
    BY Indices, TextIsTextOf DEF EchoShowsInput, r, TypeOK
<1>2. DOMAIN screen = 1 .. e
    BY <1>1, Indices DEF TextOf
<1>3. Len(screen) = e
    BY <1>1, <1>2, Indices, LenProperties
<1>4. \A k \in 0 .. e - 1 : buf[k] = screen[k + 1]
    BY <1>1, Indices DEF TextOf
<1>5. \A k \in 0 .. e - 1 : screen[k + 1] \in Chars
    BY <1>1, <1>3, Indices, ElementOfSeq
<1> QED BY <1>1, <1>3, <1>4, <1>5

LEMMA EchoFromRing ==
    e \in 0 .. INPUT_BUF /\ screen = TextOf(buf, 0, e) => EchoShowsInput
    BY TextIsTextOf DEF EchoShowsInput, r

LEMMA EchoFromRingNext ==
    e' \in 0 .. INPUT_BUF /\ screen' = TextOf(buf', 0, e') => EchoShowsInput'
<1>1. TextOf(buf, 0, e)' = TextOf(buf', 0, e')
    BY DEF TextOf
<1>2. (e \in 0 .. INPUT_BUF /\ screen = TextOf(buf, 0, e) => EchoShowsInput)'
    BY EchoFromRing, PTL
<1> QED BY <1>1, <1>2

(* Control-U goes back to cons.w. *)
LEMMA KillsLine == ConsoleInv => KillTo = w
<1> SUFFICES ASSUME ConsoleInv PROVE KillTo = w
    OBVIOUS
<1>1. e \in 0 .. INPUT_BUF /\ w \in 0 .. e
    BY Indices DEF ConsoleInv
<1>2. \A k \in w + 1 .. e : buf[(k - 1) % INPUT_BUF] # "newline"
    <2> TAKE k \in w + 1 .. e
    <2>1. k - 1 \in w .. e - 1 /\ k - 1 \in 0 .. INPUT_BUF - 1
        BY <1>1
    <2>2. (k - 1) % INPUT_BUF = k - 1
        BY <2>1
    <2> QED BY <2>1, <2>2 DEF ConsoleInv, LineOpen
<1>3. ASSUME NEW m \in w .. e, m = w \/ buf[(m - 1) % INPUT_BUF] = "newline" PROVE m = w
    <2>1. m = w \/ m \in w + 1 .. e
        BY <1>1
    <2> QED BY <1>2, <1>3, <2>1
<1> QED BY <1>1, <1>2, <1>3 DEF KillTo

(* A key that edits shortens the line; what is shown goes with it. *)
LEMMA Shortens ==
    ASSUME ConsoleInv, NEW m \in w .. e, e' = m, w' = w, buf' = buf,
           screen' = SubSeq(screen, 1, Len(screen) - (e - m)),
           fifo' \in Seq(Keys), Len(fifo') <= FifoSize, handling' \in BOOLEAN,
           m # e \/ w = e
    PROVE  ConsoleInv'
<1>1. /\ e \in 0 .. INPUT_BUF /\ w \in 0 .. e /\ m \in 0 .. e
      /\ screen = TextOf(buf, 0, e) /\ Len(screen) = e
      /\ \A k \in 0 .. e - 1 : buf[k] \in Chars
    BY Indices, RingHasChars DEF ConsoleInv
<1>2. screen' = TextOf(buf, 0, m)
    <2>1. Len(screen) - (e - m) = m - 0
        <3>1. e \in Int /\ m \in Int /\ Len(screen) = e
            BY <1>1
        <3> QED BY ONLY <3>1
    <2>2. 0 \in Nat /\ e \in Nat
        BY <1>1
    <2>3. SubSeq(TextOf(buf, 0, e), 1, m - 0) = TextOf(buf, 0, m)
        BY <1>1, <2>2, TextPrefix
    <2> QED BY <1>1, <2>1, <2>3
<1>3. screen' \in Seq(Chars)
    <2>1. 0 \in Nat /\ m \in Nat /\ 0 <= m /\ \A k \in 0 .. m - 1 : buf[k] \in Chars
        BY <1>1
    <2>2. TextOf(buf, 0, m) \in Seq(Chars)
        BY <2>1, TextSeq
    <2> QED BY <1>2, <2>2
<1>4. TypeOK'
    <2>1. e' = r + INPUT_BUF => w' = e'
        BY <1>1 DEF r, ConsoleInv, TypeOK
    <2> QED BY <1>1, <1>3, <2>1 DEF TypeOK, ConsoleInv, r
<1>5. EchoShowsInput'
    BY <1>1, <1>2, EchoFromRingNext
<1>6. LineOpen'
    BY <1>1 DEF ConsoleInv, LineOpen
<1> QED BY <1>4, <1>5, <1>6 DEF ConsoleInv

LEMMA TakeTyped ==
    ASSUME TypeOK, NEW c, Take(c)
    PROVE  fifo' \in Seq(Keys) /\ Len(fifo') <= FifoSize /\ handling' \in BOOLEAN /\ c \in Keys
<1>1. fifo \in Seq(Keys) /\ fifo # <<>> /\ Len(fifo) <= FifoSize /\ Len(fifo) \in Nat
    BY LenProperties DEF TypeOK, Take
<1>2. /\ Head(fifo) \in Keys /\ Tail(fifo) \in Seq(Keys)
      /\ Len(Tail(fifo)) = Len(fifo) - 1
    BY <1>1, HeadTailProperties
<1> QED BY <1>1, <1>2, FifoSizeAssumption DEF Take, TypeOK

LEMMA EditInv == ConsoleInv /\ (Kill \/ Backspace) => ConsoleInv'
<1> SUFFICES ASSUME ConsoleInv, Kill \/ Backspace PROVE ConsoleInv'
    OBVIOUS
<1>1. e \in 0 .. INPUT_BUF /\ w \in 0 .. e /\ TypeOK
    BY Indices DEF ConsoleInv
<1>2. fifo' \in Seq(Keys) /\ Len(fifo') <= FifoSize /\ handling' \in BOOLEAN
    BY <1>1, TakeTyped DEF Kill, Backspace
<1>3. CASE Kill
    BY <1>1, <1>2, <1>3, KillsLine, Shortens DEF Kill, Unecho
<1>4. CASE Backspace
    <2>1. CASE e # w
        <3>1. e - 1 \in w .. e /\ e - 1 # e /\ e - (e - 1) = 1
            BY <1>1, <2>1
        <3>2. e' = e - 1 /\ w' = w /\ buf' = buf /\ screen' = SubSeq(screen, 1, Len(screen) - 1)
            BY <1>4, <2>1 DEF Backspace, Unecho
        <3> QED BY <1>2, <3>1, <3>2, Shortens
    <2>2. CASE e = w
        <3>1. UNCHANGED <<buf, w, e, screen>>
            BY <1>4, <2>2 DEF Backspace
        <3> QED BY <1>2, <3>1 DEF ConsoleInv, TypeOK, EchoShowsInput, Text, LineOpen
    <2> QED BY <2>1, <2>2
<1> QED BY <1>3, <1>4

(* A key that is stored is shown behind the others. *)
LEMMA StoreSteps ==
    ASSUME ConsoleInv, NEW key \in Keys, Store(key)
    PROVE  \E c \in Chars :
              /\ e < INPUT_BUF /\ e \in 0 .. INPUT_BUF /\ w \in 0 .. e
              /\ buf' = [buf EXCEPT ![e] = c] /\ buf'[e] = c /\ e' = e + 1
              /\ \A k \in 0 .. e - 1 : buf[k] \in Chars /\ buf'[k] = buf[k]
              /\ screen' = Append(screen, c)
              /\ w' = IF c \in {"newline", "eof"} \/ e + 1 = INPUT_BUF THEN e + 1 ELSE w
<1>1. e \in 0 .. INPUT_BUF /\ w \in 0 .. e /\ e < INPUT_BUF
    BY Indices DEF ConsoleInv, Store, HasRoom, r
<1>2. e % INPUT_BUF = e /\ e \in 0 .. INPUT_BUF - 1
    BY <1>1
<1>3. PICK c : /\ c = IF key = "return" THEN "newline" ELSE key
               /\ buf' = [buf EXCEPT ![e % INPUT_BUF] = c] /\ e' = e + 1
               /\ screen' = Append(screen, c)
               /\ w' = IF FinishesLine(c) THEN e + 1 ELSE w
    BY DEF Store
<1>4. c \in Chars
    BY <1>3 DEF Store, Keys, Chars
<1>5. buf' = [buf EXCEPT ![e] = c] /\ buf'[e] = c /\ \A k \in 0 .. e - 1 : buf'[k] = buf[k]
    <2>1. buf \in [0 .. INPUT_BUF - 1 -> Chars \cup {"nul"}]
        BY DEF ConsoleInv, TypeOK
    <2>2. buf' = [buf EXCEPT ![e] = c]
        BY <1>2, <1>3
    <2>3. \A k \in 0 .. e - 1 : k \in 0 .. INPUT_BUF - 1 /\ k # e
        BY <1>1
    <2> QED BY <1>2, <2>1, <2>2, <2>3
<1>6. \A k \in 0 .. e - 1 : buf[k] \in Chars
    BY RingHasChars DEF ConsoleInv
<1>7. w' = IF c \in {"newline", "eof"} \/ e + 1 = INPUT_BUF THEN e + 1 ELSE w
    BY <1>1, <1>3 DEF FinishesLine, r
<1> QED BY <1>1, <1>3, <1>4, <1>5, <1>6, <1>7

LEMMA StoreInv ==
    ASSUME ConsoleInv, NEW key \in Keys, Store(key)
    PROVE  ConsoleInv'
<1>1. PICK c \in Chars :
          /\ e < INPUT_BUF /\ e \in 0 .. INPUT_BUF /\ w \in 0 .. e
          /\ buf' = [buf EXCEPT ![e] = c] /\ buf'[e] = c /\ e' = e + 1
          /\ \A k \in 0 .. e - 1 : buf[k] \in Chars /\ buf'[k] = buf[k]
          /\ screen' = Append(screen, c)
          /\ w' = IF c \in {"newline", "eof"} \/ e + 1 = INPUT_BUF THEN e + 1 ELSE w
    BY StoreSteps
<1>2. e' \in 0 .. INPUT_BUF /\ w' \in 0 .. e' /\ (e' = INPUT_BUF => w' = e')
    BY <1>1
<1>3. fifo' \in Seq(Keys) /\ Len(fifo') <= FifoSize /\ handling' \in BOOLEAN
    BY TakeTyped DEF ConsoleInv, Store
<1>4. screen' = TextOf(buf', 0, e')
    <2>1. 0 \in Nat /\ e \in Nat /\ 0 <= e
        BY <1>1
    <2>2. TextOf(buf', 0, e + 1) = Append(TextOf(buf, 0, e), c)
        <3>1. \A k \in 0 .. e - 1 : buf[k] \in Chars /\ buf'[k] = buf[k]
            BY <1>1
        <3>2. buf'[e] = c
            BY <1>1
        <3> QED BY <2>1, <3>1, <3>2, TextAppend, Z3
    <2> QED BY <1>1, <2>2, RingHasChars DEF ConsoleInv
<1>5. screen' \in Seq(Chars)
    BY <1>1, AppendProperties DEF ConsoleInv, TypeOK
<1>6. buf' \in [0 .. INPUT_BUF - 1 -> Chars \cup {"nul"}]
    BY <1>1 DEF ConsoleInv, TypeOK
<1>7. TypeOK'
    BY <1>2, <1>3, <1>5, <1>6 DEF TypeOK, r
<1>8. EchoShowsInput'
    BY <1>2, <1>4, EchoFromRingNext
<1>9. LineOpen'
    <2>1. CASE w' = e + 1
        BY <1>1, <2>1 DEF LineOpen
    <2>2. CASE w' = w /\ c # "newline"
        <3> SUFFICES ASSUME NEW k \in w .. e PROVE buf'[k] # "newline"
            BY <1>1, <2>2 DEF LineOpen
        <3>1. CASE k = e
            BY <1>1, <2>2, <3>1
        <3>2. CASE k \in w .. e - 1
            BY <1>1, <3>2 DEF ConsoleInv, LineOpen
        <3> QED BY <1>1, <3>1, <3>2
    <2> QED BY <1>1, <2>1, <2>2
<1> QED BY <1>7, <1>8, <1>9 DEF ConsoleInv

ringVars == <<buf, w, e, screen>>

LEMMA RingKept ==
    ASSUME ConsoleInv, UNCHANGED ringVars,
           fifo' \in Seq(Keys), Len(fifo') <= FifoSize, handling' \in BOOLEAN
    PROVE  ConsoleInv'
    BY DEF ConsoleInv, TypeOK, EchoShowsInput, Text, LineOpen, ringVars

LEMMA InitConsole == Init => ConsoleInv
<1> SUFFICES ASSUME Init PROVE ConsoleInv
    OBVIOUS
<1>1. TypeOK
    <2>1. fifo \in Seq(Keys) /\ Len(fifo) <= FifoSize /\ screen \in Seq(Chars)
        BY EmptySeq, FifoSizeAssumption DEF Init
    <2> QED BY <2>1 DEF Init, TypeOK, r
<1>2. TextOf(buf, 0, 0) = <<>>
    BY TextEmpty
<1>3. EchoShowsInput
    BY <1>2, EchoFromRing DEF Init
<1>4. LineOpen
    BY DEF Init, LineOpen
<1> QED BY <1>1, <1>3, <1>4 DEF ConsoleInv

LEMMA NextConsole == ConsoleInv /\ [Next]_vars => ConsoleInv'
<1> SUFFICES ASSUME ConsoleInv, [Next]_vars PROVE ConsoleInv'
    OBVIOUS
<1>0. fifo \in Seq(Keys) /\ Len(fifo) <= FifoSize /\ handling \in BOOLEAN /\ TypeOK
    BY DEF ConsoleInv, TypeOK
<1>1. ASSUME NEW c \in Keys, KeyPressed(c) PROVE ConsoleInv'
    <2>1. fifo' \in Seq(Keys) /\ Len(fifo') = Len(fifo) + 1 /\ Len(fifo) \in Nat
        BY <1>0, <1>1, AppendProperties, LenProperties DEF KeyPressed
    <2>2. Len(fifo') <= FifoSize
        BY <1>1, <2>1, FifoSizeAssumption DEF KeyPressed
    <2> QED BY <1>0, <1>1, <2>1, <2>2, RingKept DEF KeyPressed, ringVars
<1>2. ASSUME NEW c \in Keys, Ignore(c) PROVE ConsoleInv'
    BY <1>0, <1>2, TakeTyped, RingKept DEF Ignore, ringVars
<1>3. CASE Interrupt \/ Leave
    BY <1>0, <1>3, RingKept DEF Interrupt, Leave, ringVars
<1>4. CASE UNCHANGED vars
    BY <1>0, <1>4, RingKept DEF vars, ringVars
<1> QED BY <1>1, <1>2, <1>3, <1>4, StoreInv, EditInv DEF Next

LEMMA ConsoleInvariance == Spec => []ConsoleInv
    BY InitConsole, NextConsole, PTL DEF Spec

(***************************************************************************)
(* The indices of the ring stay in order and at most a ring apart, and the *)
(* handler never loses count of the UART's characters.                     *)
(***************************************************************************)
THEOREM ConsoleTyped == Spec => []TypeOK
    BY ConsoleInvariance, PTL DEF ConsoleInv

(***************************************************************************)
(* The terminal shows exactly the characters that are in the ring,         *)
(* whatever is typed, taken back or refused.                               *)
(***************************************************************************)
THEOREM EchoIsInput == Spec => []EchoShowsInput
    BY ConsoleInvariance, PTL DEF ConsoleInv

-----------------------------------------------------------------------------
(***************************************************************************)
(* The line editor.                                                        *)
(***************************************************************************)
FinishedBar == Text(r, w)
LineBar     == Text(w, e)

LEMMA Bars ==
    ConsoleInv => /\ FinishedBar = TextOf(buf, 0, w) /\ FinishedBar \in Seq(Chars)
                  /\ Len(FinishedBar) = w
                  /\ LineBar = TextOf(buf, w, e) /\ LineBar \in Seq(Chars)
                  /\ Len(LineBar) = e - w
<1> SUFFICES ASSUME ConsoleInv
             PROVE  /\ FinishedBar = TextOf(buf, 0, w) /\ FinishedBar \in Seq(Chars)
                    /\ Len(FinishedBar) = w
                    /\ LineBar = TextOf(buf, w, e) /\ LineBar \in Seq(Chars)
                    /\ Len(LineBar) = e - w
    OBVIOUS
<1>1. e \in 0 .. INPUT_BUF /\ w \in 0 .. e
    BY Indices DEF ConsoleInv
<1>2. FinishedBar = TextOf(buf, 0, w) /\ LineBar = TextOf(buf, w, e)
    BY <1>1, TextIsTextOf DEF FinishedBar, LineBar, r
<1>3. \A k \in 0 .. e - 1 : buf[k] \in Chars
    BY RingHasChars DEF ConsoleInv
<1>4. TextOf(buf, 0, w) \in Seq(Chars) /\ Len(TextOf(buf, 0, w)) = w
    <2>1. 0 \in Nat /\ w \in Nat /\ 0 <= w /\ \A k \in 0 .. w - 1 : buf[k] \in Chars
        BY <1>1, <1>3
    <2>2. TextOf(buf, 0, w) \in Seq(Chars) /\ Len(TextOf(buf, 0, w)) = w - 0
        BY <2>1, TextSeq
    <2> QED BY <2>1, <2>2
<1>5. TextOf(buf, w, e) \in Seq(Chars) /\ Len(TextOf(buf, w, e)) = e - w
    <2>1. w \in Nat /\ e \in Nat /\ w <= e /\ \A k \in w .. e - 1 : buf[k] \in Chars
        BY <1>1, <1>3
    <2> QED BY <2>1, TextSeq, Z3
<1> QED BY <1>2, <1>4, <1>5

LEMMA BarsNext ==
    ConsoleInv' => FinishedBar' = TextOf(buf', 0, w') /\ LineBar' = TextOf(buf', w', e')
<1>1. TextOf(buf, 0, w)' = TextOf(buf', 0, w') /\ TextOf(buf, w, e)' = TextOf(buf', w', e')
    BY DEF TextOf
<1>2. (ConsoleInv => FinishedBar = TextOf(buf, 0, w) /\ LineBar = TextOf(buf, w, e))'
    BY Bars, PTL
<1> QED BY <1>1, <1>2

LEMMA KillImplements ==
    ConsoleInv /\ ConsoleInv' /\ Kill => LineBar' = <<>> /\ FinishedBar' = FinishedBar
<1> SUFFICES ASSUME ConsoleInv, ConsoleInv', Kill
             PROVE  LineBar' = <<>> /\ FinishedBar' = FinishedBar
    OBVIOUS
<1>1. e' = w /\ w' = w /\ buf' = buf /\ w \in Nat
    BY KillsLine, Indices DEF Kill, ConsoleInv
<1> QED BY <1>1, Bars, BarsNext, TextEmpty

LEMMA BackspaceImplements ==
    ConsoleInv /\ ConsoleInv' /\ Backspace =>
        \/ UNCHANGED <<FinishedBar, LineBar>>
        \/ /\ LineBar # <<>> /\ LineBar' = SubSeq(LineBar, 1, Len(LineBar) - 1)
           /\ FinishedBar' = FinishedBar
<1> SUFFICES ASSUME ConsoleInv, ConsoleInv', Backspace, e # w
             PROVE  /\ LineBar # <<>> /\ LineBar' = SubSeq(LineBar, 1, Len(LineBar) - 1)
                    /\ FinishedBar' = FinishedBar
    BY DEF Backspace, FinishedBar, LineBar, Text
<1>1. e' = e - 1 /\ w' = w /\ buf' = buf
    BY DEF Backspace
<1>2. /\ e \in Nat /\ w \in Nat /\ e - 1 \in w .. e /\ e - w # 0
      /\ (e - w) - 1 = (e - 1) - w
    BY Indices DEF ConsoleInv
<1>3. \A k \in w .. e - 1 : buf[k] \in Chars
    BY <1>2, RingHasChars DEF ConsoleInv
<1>4. SubSeq(TextOf(buf, w, e), 1, (e - 1) - w) = TextOf(buf, w, e - 1)
    BY <1>2, <1>3, TextPrefix, Z3
<1>5. LineBar # <<>>
    <2>1. Len(LineBar) # 0
        BY <1>2, Bars
    <2> QED BY <2>1, EmptySeq
<1> QED BY <1>1, <1>2, <1>4, <1>5, Bars, BarsNext

LEMMA StoreImplements ==
    ASSUME ConsoleInv, ConsoleInv', NEW key \in Keys, Store(key)
    PROVE  \E c \in Chars :
              /\ Len(FinishedBar) + Len(LineBar) < INPUT_BUF
              /\ IF \/ c \in {"newline", "eof"}
                    \/ Len(FinishedBar) + Len(Append(LineBar, c)) = INPUT_BUF
                 THEN FinishedBar' = FinishedBar \o Append(LineBar, c) /\ LineBar' = <<>>
                 ELSE LineBar' = Append(LineBar, c) /\ FinishedBar' = FinishedBar
<1>1. PICK c \in Chars :
          /\ e < INPUT_BUF /\ e \in 0 .. INPUT_BUF /\ w \in 0 .. e
          /\ buf' = [buf EXCEPT ![e] = c] /\ buf'[e] = c /\ e' = e + 1
          /\ \A k \in 0 .. e - 1 : buf[k] \in Chars /\ buf'[k] = buf[k]
          /\ screen' = Append(screen, c)
          /\ w' = IF c \in {"newline", "eof"} \/ e + 1 = INPUT_BUF THEN e + 1 ELSE w
    BY StoreSteps
<1>2. /\ Len(FinishedBar) + Len(LineBar) = e
      /\ Len(FinishedBar) + Len(Append(LineBar, c)) = e + 1
    <2>1. Len(FinishedBar) = w /\ Len(LineBar) = e - w /\ LineBar \in Seq(Chars)
        BY Bars
    <2>2. Len(Append(LineBar, c)) = (e - w) + 1
        BY <2>1, AppendProperties
    <2>3. w \in Nat /\ e \in Nat
        BY <1>1
    <2> QED BY <2>1, <2>2, <2>3
<1>3. TextOf(buf', w, e + 1) = Append(LineBar, c)
    <2>1. w \in Nat /\ e \in Nat /\ w <= e /\ buf'[e] = c
          /\ \A k \in w .. e - 1 : buf[k] \in Chars /\ buf'[k] = buf[k]
        BY <1>1
    <2>2. TextOf(buf', w, e + 1) = Append(TextOf(buf, w, e), c)
        BY <2>1, TextAppend, Z3
    <2> QED BY <2>2, Bars
<1>4. TextOf(buf', 0, w) = FinishedBar
    <2>1. 0 \in Nat /\ w \in Nat /\ \A k \in 0 .. w - 1 : buf'[k] = buf[k]
        BY <1>1
    <2>2. TextOf(buf', 0, w) = TextOf(buf, 0, w)
        BY <2>1, TextSame, Z3
    <2> QED BY <2>2, Bars
<1>5. CASE c \in {"newline", "eof"} \/ e + 1 = INPUT_BUF
    <2>1. w' = e + 1 /\ e' = e + 1 /\ e + 1 \in Nat
        BY <1>1, <1>5
    <2>2. LineBar' = <<>>
        BY <2>1, BarsNext, TextEmpty
    <2>3. TextOf(buf', 0, e + 1) = TextOf(buf', 0, w) \o TextOf(buf', w, e + 1)
        <3>1. 0 \in Nat /\ e + 1 \in Nat /\ w \in 0 .. e + 1
            BY <1>1
        <3>2. \A k \in 0 .. (e + 1) - 1 : buf'[k] \in Chars
            BY <1>1
        <3>3. ASSUME NEW n \in Nat, NEW m \in 0 .. n, \A k \in 0 .. n - 1 : buf'[k] \in Chars
              PROVE  TextOf(buf', 0, n) = TextOf(buf', 0, m) \o TextOf(buf', m, n)
            BY <3>3, TextConcat, Z3
        <3> QED BY <3>1, <3>2, <3>3
    <2> QED BY <1>1, <1>2, <1>3, <1>4, <1>5, <2>1, <2>2, <2>3, BarsNext
<1>6. CASE ~(c \in {"newline", "eof"} \/ e + 1 = INPUT_BUF)
    <2>1. w' = w /\ e' = e + 1
        BY <1>1, <1>6
    <2> QED BY <1>1, <1>2, <1>3, <1>4, <1>6, <2>1, BarsNext
<1> QED BY <1>5, <1>6

(***************************************************************************)
(* The ring implements a line editor: finished lines are never changed,    *)
(* erasing stays in the line being edited, and a key is stored as long as  *)
(* there is room; the last place finishes the line.                        *)
(***************************************************************************)
THEOREM RingIsLineEditor == Spec => ImplementsLineEditor
<1>1. Init => Editor!Init
    <2>1. Init => Text(0, 0) = <<>>
        BY TextIsTextOf, TextEmpty
    <2> QED BY <2>1 DEF Init, Editor!Init, r
<1>2. ConsoleInv /\ ConsoleInv' /\ [Next]_vars
        => [Editor!Next]_<<FinishedBar, LineBar>>
    <2> SUFFICES ASSUME ConsoleInv, ConsoleInv', [Next]_vars
                 PROVE  Editor!Next \/ UNCHANGED <<FinishedBar, LineBar>>
        OBVIOUS
    <2>1. CASE Kill
        BY <2>1, KillImplements DEF Editor!Next, Editor!Kill, FinishedBar, LineBar
    <2>2. CASE Backspace
        BY <2>2, BackspaceImplements DEF Editor!Next, Editor!Erase, FinishedBar, LineBar
    <2>3. ASSUME NEW key \in Keys, Store(key) PROVE Editor!Next
        BY <2>3, StoreImplements DEF Editor!Next, Editor!Insert, FinishedBar, LineBar
    <2>4. CASE UNCHANGED ringVars
        BY <2>4 DEF ringVars, FinishedBar, LineBar, Text
    <2>5. CASE Interrupt \/ Leave \/ UNCHANGED vars
        BY <2>4, <2>5 DEF Interrupt, Leave, vars, ringVars
    <2>6. ASSUME NEW c \in Keys, KeyPressed(c) \/ Ignore(c)
          PROVE  UNCHANGED <<FinishedBar, LineBar>>
        <3>1. UNCHANGED ringVars
            BY <2>6 DEF KeyPressed, Ignore, ringVars
        <3> QED BY <3>1 DEF ringVars, FinishedBar, LineBar, Text
    <2> QED BY <2>1, <2>2, <2>3, <2>5, <2>6 DEF Next
<1> QED BY <1>1, <1>2, ConsoleInvariance, PTL
        DEF Spec, ImplementsLineEditor, Editor!Spec, FinishedBar, LineBar
=============================================================================
