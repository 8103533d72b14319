--------------------------------- MODULE Vi ---------------------------------
(***************************************************************************)
(* The editor of vi/vi.c: the text, the cursor, the undo list with its     *)
(* queue, the count of modifications and the file on disk.                 *)
(*                                                                         *)
(* Offsets into the buffer are positions here, from 1; dot may be one past *)
(* the last character.  The options are off, as vi starts with them.  What *)
(* lies around the buffer may be any byte.  The field slips is history: it *)
(* names what has happened that the undo list or the count does not tell.  *)
(***************************************************************************)
EXTENDS Integers, Sequences, SequencesExt

CONSTANTS
  Files,     \* what the edited file may hold; one that is not there counts as empty
  Typed,     \* characters the user types
  MaySpoil,  \* whether the file system may fail to read or to write the file
  QueueMax,  \* VI_UNDO_QUEUE_MAX: 32 in the code
  MaxCount,  \* bound: the count before a command
  MaxLen,    \* bound: length of the text
  MaxUndo,   \* bound: entries of the undo list before the next change
  MaxSlips   \* bound: slips before the next change

Char == {"a", "A", "sp", "nl"}

ASSUME Limits ==
  /\ Files \subseteq Seq(Char)
  /\ Typed \subseteq Char /\ MaySpoil \in BOOLEAN
  /\ QueueMax \in Nat \ {0} /\ MaxCount \in Nat /\ MaxLen \in Nat /\ MaxUndo \in Nat
  /\ MaxSlips \in Nat

VARIABLES
  ed,      \* text, dot, undo list and queue, default register, modified_count
  mode,    \* cmd_mode: "command", "insert" or "replace"
  status,  \* "editing", or how the editor was left: "quit", "forced" (quit!)
  file,    \* the file on disk
  loaded   \* history: the text when it was loaded

vars == <<ed, mode, status, file, loaded>>
-----------------------------------------------------------------------------
Entry == [kind : {"ins", "del"}, chain : BOOLEAN, at : Int, len : Nat, chars : Seq(Char)]
Queue == [kind : {"none", "ins", "del"}, at : Nat, len : 0 .. QueueMax - 1, chars : Seq(Char)]
Slip  == {"typed", "moved", "trimmed", "beyond", "negative", "spoilt"}
State == [text : Seq(Char), dot : Int, undo : Seq(Entry), queue : Queue,
          reg : [chars : Seq(Char), whole : BOOLEAN], modified : Int, slips : SUBSET Slip]

NoQueue == [kind |-> "none", at |-> 0, len |-> 0, chars |-> << >>]

\* The editor when t has been loaded.
Opened(t, slips) ==
  [text |-> t, dot |-> 1, undo |-> << >>, queue |-> NoQueue,
   reg |-> [chars |-> << >>, whole |-> FALSE], modified |-> 0, slips |-> slips]

\* Once there was a command the text is never empty, and dot is in it or right behind it.
TypeOK ==
  /\ ed \in State /\ ed.dot \in 1 .. Len(ed.text) + 1
  /\ ed.text = << >> => ed = Opened(<< >>, ed.slips) /\ mode = "command"
  /\ mode \in {"command", "insert", "replace"}
  /\ status \in {"editing", "quit", "forced"}
  /\ file \in Seq(Char) /\ loaded \in Seq(Char)

\* What there is when the file could not be read: a newline, before the hole made for
\* the file if it did not open; or as much as was read.
HalfRead(f) ==
  {<<"nl">>, [i \in 1 .. Len(f) + 1 |-> IF i = 1 THEN "nl" ELSE "sp"]}
  \cup { SubSeq(f, 1, n) : n \in 0 .. Len(f) - 1 }

\* An empty file is loaded as it is, one that is not there as a newline.
Init ==
  /\ file \in Files
  /\ \/ /\ loaded \in {file} \cup (IF file = << >> THEN {<<"nl">>} ELSE {})
        /\ ed = Opened(loaded, {})
     \/ /\ MaySpoil /\ loaded \in HalfRead(file)
        /\ ed = Opened(loaded, {"spoilt"})
  /\ mode = "command" /\ status = "editing"
-----------------------------------------------------------------------------
(* Lines. *)

LineStart(t, p) == Max({1} \cup { i \in 2 .. p : t[i - 1] = "nl" })
LineEnd(t, p)   == IF p >= Len(t) THEN p ELSE Min({Len(t)} \cup { i \in p .. Len(t) : t[i] = "nl" })

\* The byte at position p, where g lies behind the text.
Seen(e, p, g) == IF p \in 1 .. Len(e.text) THEN e.text[p] ELSE g
Stretch(e, p, q, g) == [i \in 1 .. q - p + 1 |-> Seen(e, p + i - 1, g)]

DollarLine(e, g) ==
  LET q == LineEnd(e.text, e.dot)
  IN IF Seen(e, q, g) = "nl" /\ q > LineStart(e.text, q) THEN q - 1 ELSE q

NextLine(t, p) == LET q == LineEnd(t, p) IN IF q < Len(t) THEN q + 1 ELSE q
PrevLine(t, p) == LET q == LineStart(t, p) IN IF q > 1 THEN LineStart(t, q - 1) ELSE 1

Cut(t, p, q)   == SubSeq(t, 1, p - 1) \o SubSeq(t, q + 1, Len(t))
Paste(t, p, s) == SubSeq(t, 1, p - 1) \o s \o SubSeq(t, p, Len(t))
-----------------------------------------------------------------------------
(* The undo list: undo_push, undo_queue_commit, undo_pop. *)

Slipped(e, happened, name) == IF happened THEN [e EXCEPT !.slips = @ \cup {name}] ELSE e

\* Variant: a deletion that empties the text keeps its newline.
PushUntrimmed(e, kind, chain, at, len, chars) ==
  [e EXCEPT !.undo = Append(@, [kind |-> kind, chain |-> chain, at |-> at, len |-> len, chars |-> chars]),
            !.modified = @ + 1]

\* A deletion as long as the text is taken to empty it, and loses its last character
\* because a newline will come back.
Trims(e, kind, len) == kind = "del" /\ len = Len(e.text)

Push(e, kind, chain, at, len, chars) ==
  LET trim == Trims(e, kind, len)
      entry == [kind |-> kind, chain |-> chain, at |-> at, len |-> IF trim THEN len - 1 ELSE len,
                chars |-> IF trim THEN Front(chars) ELSE chars]
  IN [e EXCEPT !.undo = Append(@, entry), !.modified = @ + 1]

\* The queue becomes an entry.  The text has changed since: as long as it, the
\* deletion need not have emptied it.
Commit(e) ==
  LET q == e.queue
      l == Slipped([e EXCEPT !.queue = NoQueue], Trims(e, q.kind, q.len), "trimmed")
  IN IF q.len = 0 THEN e ELSE Push(l, q.kind, FALSE, q.at, q.len, q.chars)

\* Single characters gather in the queue: deletions backwards, insertions forwards.
Enqueue(e, kind, at, chars) ==
  LET e1 == IF e.queue.kind \notin {kind, "none"} THEN Commit(e) ELSE e
      q == e1.queue
      joins == q.len = 0 \/ at = (IF kind = "del" THEN q.at - 1 ELSE q.at + q.len)
      e2 == [Slipped(e1, ~joins, "moved") EXCEPT !.queue =
               IF kind = "del"
               THEN [kind |-> kind, at |-> at, len |-> q.len + 1, chars |-> chars \o q.chars]
               ELSE [kind |-> kind, at |-> IF q.len = 0 THEN at ELSE q.at, len |-> q.len + 1, chars |-> << >>]]
  IN IF q.len + 1 = QueueMax THEN Commit(e2) ELSE e2

\* What is undone is recorded as an entry of its own, chained to the one before,
\* or in the queue.  An entry made while the queue waits will be in its place.
Record(e, how, kind, at, len, chars) ==
  IF how = "queued" THEN Enqueue(e, kind, at, chars)
  ELSE LET l == Slipped(e, e.queue.len > 0, "moved")
           whole == chars = e.text /\ Last(chars) = "nl"
       IN Push(Slipped(l, Trims(e, kind, len) /\ ~whole, "trimmed"), kind, how = "chain", at, len, chars)

HasPlace(entry, t) ==
  entry.at >= 1 /\ (IF entry.kind = "del" THEN entry.at ELSE entry.at + entry.len) <= Len(t) + 1

Undone(entry, t) == IF entry.kind = "del" THEN Paste(t, entry.at, entry.chars)
                    ELSE Cut(t, entry.at, entry.at + entry.len - 1)

\* One entry taken back from a text; ok is whether all so far had their place.
Revert(entry, r) == IF r.ok /\ HasPlace(entry, r.text) THEN [r EXCEPT !.text = Undone(entry, @)]
                    ELSE [r EXCEPT !.ok = FALSE]

\* The entries taken back from a text, the last one first.
TakenBack(entries, t) ==
  LET n == Len(entries)
      back[i \in 0 .. n] ==
        IF i = 0 THEN [ok |-> TRUE, text |-> t] ELSE Revert(entries[n - i + 1], back[i - 1])
  IN back[n]
-----------------------------------------------------------------------------
(* Changes of the text. *)

\* text_hole_delete: dot goes to the place of the hole.  A range that reaches
\* beyond the text deletes nothing and is recorded all the same.
HoleDelete(e, p, q, how, g) ==
  LET l == Record(e, how, "del", p, q - p + 1, Stretch(e, p, q, g))
      t == Cut(e.text, p, q)
  IN IF p < 1 \/ q > Len(e.text) THEN Slipped([l EXCEPT !.dot = p, !.modified = @ - 1], TRUE, "beyond")
     ELSE [l EXCEPT !.text = t, !.dot = Max({1, Min({p, Len(t)})})]

YankDelete(e, start, stop, whole, how, g) ==
  LET p == Min({start, stop})
      q == Max({start, stop})
      y == [e EXCEPT !.reg = [chars |-> Stretch(e, p, q, g), whole |-> whole]]
  IN IF ~whole /\ Seen(e, p, g) = "nl" THEN [e EXCEPT !.dot = p] ELSE HoleDelete(y, p, q, how, g)

StringInsert(e, s, how) ==
  LET l == Record(e, how, "ins", e.dot, Len(s), << >>) IN [l EXCEPT !.text = Paste(@, e.dot, s)]

\* char_insert of an ordinary character: it is not recorded.
CharInsert(e, c) ==
  LET l == IF c = "nl" THEN Commit(e) ELSE e
  IN Slipped([l EXCEPT !.text = Paste(@, e.dot, <<c>>), !.dot = @ + 1], TRUE, "typed")

\* char_insert after ^V: recorded.
LiteralInsert(e, c, how) == [StringInsert(e, <<c>>, how) EXCEPT !.dot = @ + 1]

\* Deleting the last character left is recorded too late to lose its newline.
Backspace(e) ==
  IF e.dot = 1 THEN e
  ELSE HoleDelete(Slipped(e, Len(e.text) = 1, "trimmed"), e.dot - 1, e.dot - 1, "queued", "nl")

Escape(e) ==
  LET l == Commit(e)
  IN IF e.dot > 1 /\ e.text[e.dot - 1] # "nl" THEN [l EXCEPT !.dot = @ - 1] ELSE l

DotTo(e, p)  == [Commit(e) EXCEPT !.dot = p]
DotLeft(e)   == DotTo(e, IF e.dot > 1 /\ e.text[e.dot - 1] # "nl" THEN e.dot - 1 ELSE e.dot)
DotRight(e)  == DotTo(e, IF e.dot < Len(e.text) /\ e.text[e.dot] # "nl" THEN e.dot + 1 ELSE e.dot)

\* dot_skip_over_ws
SkipBlanks(e) ==
  LET ends == { p \in e.dot .. Len(e.text) : e.text[p] # "sp" }
  IN [e EXCEPT !.dot = IF ends # {} THEN Min(ends) ELSE Max({e.dot, Len(e.text)})]

Times(n, step, e) == LET after[i \in 0 .. n] == IF i = 0 THEN e ELSE step[after[i - 1]] IN after[n]

\* ALLOW_UNDO for the first change of a command, ALLOW_UNDO_CHAIN for the others.
How(before, now) == IF Len(now.undo) = Len(before.undo) THEN "new" ELSE "chain"
-----------------------------------------------------------------------------
(* Commands: do_cmd. *)

Garbage == IF ed.dot > Len(ed.text) THEN Char ELSE {"nl"}

\* Variant: dot is not bound.
SettledAnywhere(e, m, g) == IF e.text = << >> THEN [e EXCEPT !.text = <<"nl">>] ELSE e

\* What every command ends with: an empty text gets a newline, dot is bound and
\* in command mode kept off the newline (g is the byte behind the text).
Settled(e, m, g) ==
  LET l == IF e.text = << >> THEN [Commit(e) EXCEPT !.text = <<"nl">>, !.dot = 1]
           ELSE IF e.dot = Len(e.text) + 1 THEN e
           ELSE [e EXCEPT !.dot = Max({1, Min({@, Len(e.text)})})]
  IN IF m = "command" /\ Seen(l, l.dot, g) = "nl" /\ l.dot > LineStart(l.text, l.dot)
     THEN [l EXCEPT !.dot = @ - 1] ELSE l

Ends(e, m) ==
  /\ \E g \in IF e.dot = Len(e.text) + 1 THEN Char ELSE {"nl"} : ed' = Settled(e, m, g)
  /\ mode' = m /\ UNCHANGED <<status, file, loaded>>

\* Bounds on the size of the text and of the undo list, and on slips.
Bounded(more) ==
  /\ Len(ed.text) + more <= MaxLen /\ Len(ed.undo) <= MaxUndo
  /\ Cardinality(ed.slips) <= MaxSlips

Command == status = "editing" /\ mode = "command"

\* Any motion: h, j, k, l, G and their kind.
Move == Command /\ \E p \in 1 .. Max({1, Len(ed.text)}) : Ends(DotTo(ed, p), mode)

DeleteChar(e, back, how, g) ==
  LET p == IF back THEN e.dot - 1 ELSE e.dot
  IN IF Seen(e, p, g) = "nl" THEN e ELSE YankDelete(e, p, p, FALSE, how, g)

\* x, X and s, with a count
DeleteChars ==
  /\ Command /\ Bounded(0)
  /\ \E back \in BOOLEAN, n \in 1 .. MaxCount, m \in {"command", "insert"}, g \in Garbage \cup {"a"} :
       LET done == Times(n, [e \in State |-> DeleteChar(e, back, How(ed, e), g)], ed)
       IN (m = "insert" => ~back) /\ Ends(IF m = "insert" THEN Commit(done) ELSE done, m)

\* D and C
DeleteToEnd ==
  /\ Command /\ Bounded(0)
  /\ \E m \in {"command", "insert"}, g \in Garbage :
       Ends(YankDelete(ed, ed.dot, DollarLine(ed, g), FALSE, "new", g), m)

YankLine(how, g) ==
  YankDelete(ed, LineStart(ed.text, ed.dot), LineEnd(ed.text, ed.dot), TRUE, how, g)

\* dd and :d
DeleteLine ==
  /\ Command /\ Bounded(0)
  /\ \E g \in Garbage :
       LET e == YankLine("new", g) IN Ends(SkipBlanks(DotTo(e, LineStart(e.text, e.dot))), mode)

\* cc
ChangeLine ==
  /\ Command /\ Bounded(0) /\ "nl" \in Typed
  /\ \E g \in Garbage :
       LET e == CharInsert(YankLine("new", g), "nl")
       IN Ends(IF e.dot = Len(e.text) THEN e ELSE DotTo(e, PrevLine(e.text, e.dot)), "insert")

\* P and p
Put ==
  /\ Command /\ ed.reg.chars # << >> /\ Bounded(Len(ed.reg.chars))
  /\ \E before \in BOOLEAN :
       LET s == ed.reg.chars
           last == LineEnd(ed.text, ed.dot) = Len(ed.text)
           e == CASE ed.reg.whole /\ before  -> DotTo(ed, LineStart(ed.text, ed.dot))
                  [] ed.reg.whole /\ ~before -> IF last THEN [ed EXCEPT !.dot = Len(ed.text) + 1]
                                                ELSE DotTo(ed, NextLine(ed.text, ed.dot))
                  [] ~ed.reg.whole          -> IF before THEN ed ELSE DotRight(ed)
           onward == IF ed.reg.whole \/ \E i \in DOMAIN s : s[i] = "nl" THEN 0 ELSE Len(s) - 1
       IN Ends(SkipBlanks([StringInsert(e, s, "new") EXCEPT !.dot = @ + onward]), mode)

JoinOne(e) ==
  LET at == DotTo(e, LineEnd(e.text, e.dot))
      p == at.dot
      sp == [Record(at, "new", "del", p, 1, <<"nl">>) EXCEPT !.text[p] = "sp", !.dot = p + 1]
      joined == Record(sp, "chain", "ins", p, 1, << >>)
      drop == [l \in State |-> [HoleDelete(l, p + 1, p + 1, "chain", "nl") EXCEPT !.dot = p + 1]]
  IN IF p >= Len(e.text) THEN at ELSE Times(SkipBlanks(joined).dot - (p + 1), drop, joined)

\* J, with a count: a unit of its own for undo each time.  Blanks that end a text
\* without a newline would be deleted for ever, which is not followed.
Join == /\ Command /\ Bounded(0) /\ (ed.text # << >> => Last(ed.text) # "sp")
        /\ \E n \in 1 .. MaxCount : Ends(Times(n, [e \in State |-> JoinOne(e)], ed), mode)

Flipped(c) == IF c = "a" THEN "A" ELSE "a"

FlipOne(e, how) ==
  LET p == e.dot
      out == Record(e, how, "del", p, 1, <<e.text[p]>>)
      in == Record([out EXCEPT !.text[p] = Flipped(@)], "chain", "ins", p, 1, << >>)
  IN DotRight(IF e.text[p] \in {"a", "A"} THEN in ELSE e)

\* ~, with a count
FlipCase ==
  /\ Command /\ Bounded(0) /\ ed.dot <= Len(ed.text)
  /\ \E n \in 1 .. MaxCount : Ends(Times(n, [e \in State |-> FlipOne(e, How(ed, e))], ed), mode)

\* r
Replace ==
  /\ Command /\ Bounded(0) /\ LineEnd(ed.text, ed.dot) > ed.dot
  /\ \E c \in Typed :
       Ends(DotLeft(CharInsert(HoleDelete(ed, ed.dot, ed.dot, "new", "nl"), c)), mode)

\* i, a, A, I and R
StartInserting ==
  /\ Command
  /\ \E from \in {DotTo(ed, ed.dot), DotTo(ed, LineEnd(ed.text, ed.dot)),
                   SkipBlanks(DotTo(ed, LineStart(ed.text, ed.dot)))}, m \in {"insert", "replace"},
        after \in BOOLEAN, g \in Garbage :
       Ends(IF after /\ Seen(from, from.dot, g) # "nl" THEN [from EXCEPT !.dot = @ + 1] ELSE from, m)

\* o and O
OpenLine ==
  /\ Command /\ Bounded(1) /\ "nl" \in Typed
  /\ \/ Ends(CharInsert(DotTo(ed, LineEnd(ed.text, ed.dot)), "nl"), "insert")
     \/ LET e == CharInsert(DotTo(ed, LineStart(ed.text, ed.dot)), "nl")
        IN Ends(DotTo(e, PrevLine(e.text, e.dot)), "insert")

\* u: the last entry and those it is chained to.  An entry without a place in the
\* text would be undone outside the buffer, which is not followed further.
Undo ==
  /\ Command /\ ed.undo # << >>
  /\ LET n == Len(ed.undo)
         k == Max({1} \cup { i \in 1 .. n : ~ed.undo[i].chain })
         r == TakenBack(SubSeq(ed.undo, k, n), ed.text)
         e == [ed EXCEPT !.text = r.text, !.dot = ed.undo[k].at, !.undo = SubSeq(@, 1, k - 1),
                         !.modified = @ - (n - k + 1)]
     IN r.ok /\ Ends(Slipped(e, e.modified < 0, "negative"), mode)
-----------------------------------------------------------------------------
(* Inserting and replacing. *)

Inserting == status = "editing" /\ mode # "command"

\* R deletes the character under dot first, but not the newline: there it goes on inserting.
Overtyped(g) == IF mode = "replace" THEN YankDelete(ed, ed.dot, ed.dot, FALSE, "new", g) ELSE ed
NextMode(g)  == IF mode = "replace" /\ Seen(ed, ed.dot, g) = "nl" THEN "insert" ELSE mode
Ready(g)     == IF NextMode(g) = mode THEN Overtyped(g) ELSE Commit(ed)

Type ==
  /\ Inserting /\ Bounded(1)
  /\ \E c \in Typed, g \in Garbage : Ends(CharInsert(Ready(g), c), NextMode(g))

\* ^V and a character
TypeLiteral ==
  /\ Inserting /\ Bounded(1)
  /\ \E g \in Garbage :
       Ends(LiteralInsert(Ready(g), "a", IF NextMode(g) = "replace" THEN "chain" ELSE "queued"), NextMode(g))

TypeBackspace == Inserting /\ Bounded(0) /\ \E g \in Garbage : Ends(Backspace(Ready(g)), NextMode(g))

TypeEscape == Inserting /\ Bounded(0) /\ Ends(Escape(ed), "command")

\* Cursor keys: left, right and Home commit the queue, up, down and End do not.
CursorCommits ==
  /\ Inserting /\ Bounded(0)
  /\ \E e \in {DotLeft(ed), DotRight(ed), DotTo(ed, LineStart(ed.text, ed.dot))} : Ends(e, mode)

CursorMoves ==
  /\ Inserting
  /\ \E p \in 1 .. Len(ed.text) :
       /\ \/ p = LineEnd(ed.text, ed.dot)
          \/ LineStart(ed.text, p) \in {PrevLine(ed.text, ed.dot), NextLine(ed.text, ed.dot)}
       /\ Ends([ed EXCEPT !.dot = p], mode)

\* The Delete key, in every mode
KeyDelete ==
  /\ status = "editing" /\ Bounded(0) /\ ed.dot < Len(ed.text)
  /\ Ends(YankDelete(ed, ed.dot, ed.dot, FALSE, "new", "nl"), mode)

\* The Insert key
KeyInsert == Inserting /\ Bounded(0) /\ Ends(Commit(ed), IF mode = "insert" THEN "replace" ELSE "insert")
-----------------------------------------------------------------------------
(* Saving and leaving: colon, ZZ. *)

\* The file may not open.  When it opens it is emptied; a write that fails leaves
\* part of the text.
SaveFails ==
  /\ Command /\ MaySpoil
  /\ file' \in {file} \cup { SubSeq(ed.text, 1, n) : n \in 0 .. Len(ed.text) - 1 }
  /\ \E g \in Garbage : ed' = Settled(Slipped(ed, TRUE, "spoilt"), mode, g)
  /\ UNCHANGED <<mode, status, loaded>>

\* :w
Save ==
  /\ Command /\ file' = ed.text
  /\ \E g \in Garbage :
       ed' = Settled([ed EXCEPT !.modified = 0, !.slips = @ \ {"negative", "spoilt"}], mode, g)
  /\ UNCHANGED <<mode, status, loaded>>

\* :x and ZZ
SaveAndQuit ==
  /\ Command /\ file' = IF ed.modified # 0 THEN ed.text ELSE file
  /\ status' = "quit" /\ UNCHANGED <<ed, mode, loaded>>

\* Variant: the count is not looked at.
QuitUnasked == Command /\ status' = "quit" /\ UNCHANGED <<ed, mode, file, loaded>>

\* :q, "No write since last change"
Quit == Command /\ ed.modified = 0 /\ status' = "quit" /\ UNCHANGED <<ed, mode, file, loaded>>

QuitForced == Command /\ status' = "forced" /\ UNCHANGED <<ed, mode, file, loaded>>
-----------------------------------------------------------------------------
Edit ==
  \/ Move \/ DeleteChars \/ DeleteToEnd \/ DeleteLine \/ ChangeLine \/ Put \/ Join \/ FlipCase
  \/ Replace \/ StartInserting \/ OpenLine \/ Undo
  \/ Type \/ TypeLiteral \/ TypeBackspace \/ TypeEscape
  \/ CursorCommits \/ CursorMoves \/ KeyDelete \/ KeyInsert

Next == Edit \/ SaveFails \/ Save \/ SaveAndQuit \/ Quit \/ QuitForced

Spec == Init /\ [][Next]_vars
-----------------------------------------------------------------------------
(* Properties *)

Queued == IF ed.queue.len = 0 THEN << >>
          ELSE <<[kind |-> ed.queue.kind, chain |-> FALSE, at |-> ed.queue.at, len |-> ed.queue.len,
                  chars |-> ed.queue.chars]>>

\* An empty text has a newline from the first command on.
Shown(t) == IF t = << >> THEN <<"nl">> ELSE t

\* Taking back everything in the list leads to the text as it was loaded.
Exact == TakenBack(ed.undo \o Queued, Shown(ed.text)) = [ok |-> TRUE, text |-> Shown(loaded)]

\* As long as no ordinary character was typed and none of the rarer slips of the
\* list occurred, the undo list is exact.
UndoIsExact == ed.slips \subseteq {"negative", "spoilt"} => Exact

\* "If this deletion empties text[], strip the newline": as long as only such
\* deletions could make it wrong, the undo list is exact.
UndoRestores == ed.slips \subseteq {"trimmed", "negative", "spoilt"} => Exact

\* Whoever is let go without a "!" leaves what the screen showed on the disk.
QuitLosesNothing == status = "quit" => Shown(file) = Shown(ed.text)

\* "don't exit if the file been modified": so it is as long as nothing was typed that does not count, no more was undone
\* than was done since the file was saved, and reading and saving it did not fail.
QuitLosesNothingCounted == ed.slips = {} => QuitLosesNothing
=============================================================================
