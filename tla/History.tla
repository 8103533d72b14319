------------------------------ MODULE History ------------------------------
(***************************************************************************)
(* The command history of misc/readln.c: a ring of characters that holds   *)
(* the last lines, each followed by a zero byte, the search for lines with *)
(* a given beginning, and the file /.history that survives a restart.      *)
(***************************************************************************)
EXTENDS Integers, Sequences, SequencesExt

CONSTANTS
  Char,     \* characters of a line
  HSTSIZE,  \* size of the ring: 3 * CMDFULL in the code
  CMDFULL,  \* a line this long ends by itself: 87 in the code
  MayFail,  \* whether /.history may fail to open or to close
  MaxLines, \* bound: lines saved, and entered since
  MaxHi     \* bound: presses of the up or down key in a row

ASSUME Sizes ==
  /\ CMDFULL \in Nat \ {0} /\ HSTSIZE \in Nat /\ HSTSIZE > CMDFULL
  /\ MayFail \in BOOLEAN /\ MaxLines \in Nat /\ MaxHi \in Nat
  /\ {"nul", "nl"} \cap Char = {}

VARIABLES
  ring,   \* history with hista and histb: its cells, its first and its next free one
  cmd,    \* cmdline up to cmdlb: the line being edited
  hp, hi, \* the line recalled from the ring (-1: none), and which one comes next
  file,   \* /.history: the characters it holds
  lines,  \* history: all lines entered, but those forgotten by a restart
  saved,  \* history: how many of them had been entered at the last save
  kept,   \* history: the lines entered up to the last save, which the file is of
  missed  \* history: whether a save has failed since

vars == <<ring, cmd, hp, hi, file, lines, saved, kept, missed>>

Cell   == 0 .. HSTSIZE - 1
Stored == Char \cup {"nul"}
Line   == SeqOf(Char, CMDFULL - 1)

Ring   == [history : [Cell -> Stored], hista : Cell, histb : Cell]

TypeOK ==
  /\ ring \in Ring
  /\ cmd \in Line /\ hp \in Cell \cup {-1} /\ hi \in Int
  /\ file \in Seq(Char \cup {"nl"}) /\ lines \in Seq(Line)
  /\ saved \in 0 .. Len(lines) /\ kept \in Seq(Line) /\ missed \in BOOLEAN
-----------------------------------------------------------------------------
(* The ring: addhistw, and what savehist reads of it. *)

\* Variant: the end of the line is not looked for.
NextStartNear(h, a) == (a + 1) % HSTSIZE

\* The cell after the end of the line at a, looked for all round the ring.  The
\* code would go on looking if no line ended in it.
NextStart(h, a) ==
  (a + 1 + Min({ d \in 0 .. HSTSIZE : d = HSTSIZE \/ h[(a + d) % HSTSIZE] = "nul" })) % HSTSIZE

\* A character is added; the oldest line leaves when its place is needed.
PutChar(r, c) ==
  LET j == (r.histb + 1) % HSTSIZE
  IN [history |-> [r.history EXCEPT ![r.histb] = c],
      hista |-> IF j = r.hista THEN NextStart(r.history, r.hista) ELSE r.hista,
      histb |-> j]

AddLine(r, line) == FoldLeft(PutChar, r, Append(line, "nul"))

NoLines == [history |-> [i \in Cell |-> "nul"], hista |-> 0, histb |-> 0]

\* The cells in use, and the character d cells after the oldest.
Used(r)      == (r.histb - r.hista) % HSTSIZE
CharAt(r, d) == r.history[(r.hista + d) % HSTSIZE]
Held(r)      == [i \in 1 .. Used(r) |-> CharAt(r, i - 1)]

\* What savehist writes: the lines, each ended by a newline.
Content(r) == [i \in 1 .. Used(r) |-> IF Held(r)[i] = "nul" THEN "nl" ELSE Held(r)[i]]

\* resthist reads a character: a line that has ended, or grown as long as
\* CMDFULL, is added.  The file never ends within a line.
ReadChar(read, c) ==
  LET line == IF c = "nl" THEN read.cmdline ELSE Append(read.cmdline, c)
  IN IF c = "nl" \/ Len(line) >= CMDFULL THEN [ring |-> AddLine(read.ring, line), cmdline |-> << >>]
     ELSE [read EXCEPT !.cmdline = line]

Restored(content) == FoldLeft(ReadChar, [ring |-> NoLines, cmdline |-> << >>], content).ring

\* The line that starts at a cell.
LineAt(r, a) ==
  LET n == Min({ d \in Cell : r.history[(a + d) % HSTSIZE] = "nul" })
  IN [i \in 1 .. n |-> r.history[(a + i - 1) % HSTSIZE]]

\* How far after the oldest character a line starts.
Starts(r) == { d \in 0 .. Used(r) - 1 : d = 0 \/ CharAt(r, d - 1) = "nul" }

\* hstprefix
HasPrefix(r, d, s) == \A i \in DOMAIN s : CharAt(r, d + i - 1) = s[i]

\* Variant: the oldest line is not looked at.
MatchesNewer(r, s) == { d \in Starts(r) : d # 0 /\ HasPrefix(r, d, s) }

Matches(r, s) == { d \in Starts(r) : HasPrefix(r, d, s) }

\* Once round the ring, from the newest of its u characters back to the oldest:
\* the number k of the places passed that are in found, and the n-th of them (-1:
\* there are not so many).
Once(found, u, n) ==
  LET Pass(walk, d) ==
        IF d \notin found THEN walk
        ELSE [k |-> walk.k + 1, at |-> IF walk.k = n THEN d ELSE walk.at]
  IN FoldLeft(Pass, [k |-> 0, at |-> -1], [i \in 1 .. u |-> u - i])

\* findhist: the n-th line that begins with s.  With fewer lines, or a negative
\* n, it goes round a second time, for n modulo their number.
FindHist(r, s, n) ==
  LET found == Matches(r, s)
      first == Once(found, Used(r), n)
      d == IF first.at >= 0 \/ first.k = 0 THEN first.at ELSE Once(found, Used(r), n % first.k).at
  IN IF d < 0 THEN -1 ELSE (r.hista + d) % HSTSIZE
-----------------------------------------------------------------------------
Init ==
  /\ ring = NoLines /\ cmd = << >> /\ hp = -1 /\ hi = 0
  /\ file = << >> /\ lines = << >> /\ saved = 0 /\ kept = << >> /\ missed = FALSE

\* savehist of a ring that holds the newest of the lines l.  When the file cannot
\* be opened, or its close fails, which nobody looks at, it stays what it was.
Saves(r, l) ==
  \/ file' = Content(r) /\ kept' = l /\ missed' = FALSE
  \/ MayFail /\ missed' = TRUE /\ UNCHANGED <<file, kept>>

\* eschp: the recalled line becomes the one edited.
Edited == IF hp >= 0 THEN LineAt(ring, hp) ELSE cmd

FreshLine(s) == cmd' = s /\ hp' = -1 /\ hi' = 0

\* The ring starts empty, and is filled from the file, which holds the newest of the
\* lines l, unless that cannot be opened.
Boots(content, l) ==
  /\ FreshLine(<< >>)
  /\ \/ ring' = Restored(content) /\ lines' = l /\ saved' = Len(l)
     \/ MayFail /\ ring' = NoLines /\ lines' = << >> /\ saved' = 0

\* dgreadln begins a line; it reads the file as long as the ring is empty.
Prompt ==
  IF ring.hista = 0 /\ ring.histb = 0 THEN Boots(file, kept) /\ UNCHANGED <<file, kept, missed>>
  ELSE FreshLine(<< >>) /\ UNCHANGED <<ring, file, lines, saved, kept, missed>>

\* Variant: a line may grow.
TypeOn ==
  /\ \E c \in Char : Len(cmd) <= CMDFULL /\ FreshLine(Append(Edited, c))
  /\ UNCHANGED <<ring, file, lines, saved, kept, missed>>

\* A line as long as CMDFULL ends by itself, and is not remembered.
Type ==
  \E c \in Char, i \in 0 .. Len(Edited) :
    LET s == InsertAt(Edited, i + 1, c)
    IN IF Len(s) >= CMDFULL THEN Prompt
       ELSE FreshLine(s) /\ UNCHANGED <<ring, file, lines, saved, kept, missed>>

\* Backspace, rubout, and the keys that erase the line up to or after the cursor
Erase ==
  /\ Edited # << >>
  /\ \/ \E i \in DOMAIN Edited : FreshLine(RemoveAt(Edited, i))
     \/ \E i \in 0 .. Len(Edited) : FreshLine(SubSeq(Edited, 1, i)) \/ FreshLine(SubSeq(Edited, i + 1, Len(Edited)))
  /\ UNCHANGED <<ring, file, lines, saved, kept, missed>>

Recall(step) ==
  /\ hi + step \in -MaxHi .. MaxHi /\ FindHist(ring, cmd, hi) >= 0
  /\ hp' = FindHist(ring, cmd, hi) /\ hi' = hi + step
  /\ UNCHANGED <<ring, cmd, file, lines, saved, kept, missed>>

Up   == Recall(1)
Down == Recall(-1)

\* Variant: the history is only saved on leaving.
RememberUnsaved(line) ==
  /\ ring' = AddLine(ring, line) /\ lines' = Append(lines, line)
  /\ UNCHANGED <<file, saved, kept, missed>>

\* addhist: the history is saved each time the ring has been gone round.
Remember(line) ==
  LET r == AddLine(ring, line)
      l == Append(lines, line)
  IN /\ ring' = r /\ lines' = l
     /\ IF r.histb < ring.histb THEN Saves(r, l) /\ saved' = IF missed' THEN saved ELSE Len(l)
        ELSE UNCHANGED <<file, saved, kept, missed>>

Enter ==
  \/ Edited = << >> /\ Prompt
  \/ Edited # << >> /\ Len(kept) + Len(lines) - saved < MaxLines /\ FreshLine(<< >>) /\ Remember(Edited)

\* quit and reboot save the history.
Leave == cmd = << >> /\ Saves(ring, lines) /\ Boots(file', kept')

\* The power goes.
PowerOff == Boots(file, kept) /\ UNCHANGED <<file, kept, missed>>

Next == Type \/ Erase \/ Up \/ Down \/ Enter \/ Leave \/ PowerOff

Spec == Init /\ [][Next]_vars
-----------------------------------------------------------------------------
(* Properties *)

Encoded(s) == FoldLeft(LAMBDA all, line : all \o Append(line, "nul"), << >>, s)
Newest(s, n) == SubSeq(s, Len(s) - n + 1, Len(s))

\* The number of a set that n of its numbers are above.
Below(found, n) == CHOOSE d \in found : Cardinality({ e \in found : e > d }) = n

\* The ring holds the newest lines, whole and in order, and only leaves out what
\* does not fit; after a restart these are the lines of the last save, or none when
\* the file cannot be opened.
RingHoldsNewest ==
  \E n \in 0 .. Len(lines) :
    /\ Held(ring) = Encoded(Newest(lines, n))
    /\ n < Len(lines) => Len(Encoded(Newest(lines, n + 1))) >= HSTSIZE

\* The up and down keys visit the lines with the typed beginning, whatever was
\* typed, newest first or oldest first, each once before any comes again.
RecallFindsAll ==
  LET held == Newest(lines, Cardinality(Starts(ring)))
  IN \A s \in Line :
       LET found == { k \in DOMAIN held : IsPrefix(s, held[k]) }
       IN \A n \in -MaxHi .. MaxHi :
            LET at == FindHist(ring, s, n)
            IN IF found = {} THEN at = -1
               ELSE at >= 0 /\ LineAt(ring, at) = held[Below(found, n % Cardinality(found))]

\* Unless saving fails, losing the power loses less than a ring of characters of
\* what has been entered since the last restart.
LossIsBounded == ~missed => Len(Encoded(SubSeq(lines, saved + 1, Len(lines)))) < HSTSIZE
-----------------------------------------------------------------------------
(* The invariant that the proofs rest on. *)

\* A line of the text ends with its first q characters.
Boundary(text, q) == q = 0 \/ text[q] = "nul"

\* u is the end of the text from the start of a line, and a ring cannot hold
\* a line more of it.
KeptOf(u, text) ==
  /\ Len(u) < HSTSIZE /\ Len(u) <= Len(text)
  /\ \A i \in 1 .. Len(u) : u[i] = text[Len(text) - Len(u) + i]
  /\ Boundary(text, Len(text) - Len(u))
  /\ \A q \in 0 .. Len(text) - Len(u) - 1 : Boundary(text, q) => Len(text) - q >= HSTSIZE

\* The text that the content of the file stands for.
AsText(content) == [i \in 1 .. Len(content) |-> IF content[i] = "nl" THEN "nul" ELSE content[i]]

\* The ring keeps the text of the lines, the file that of the lines saved; a line
\* recalled is one of them; and what is not saved has been put into the ring
\* since it last began anew.
IInv ==
  /\ TypeOK
  /\ KeptOf(Held(ring), Encoded(lines))
  /\ KeptOf(AsText(file), Encoded(kept))
  /\ hp >= 0 => LineAt(ring, hp) \in Line
  /\ ~missed => Len(Encoded(SubSeq(lines, saved + 1, Len(lines)))) <= ring.histb
=============================================================================
