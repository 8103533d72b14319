----------------------------- MODULE CcSession -----------------------------
(***************************************************************************)
(* A run of cc(): compiling a source file, writing an executable or        *)
(* loading one, the user's program, and the way out by longjmp from        *)
(* anywhere in between: the file descriptor fd, the list of the program's  *)
(* handles and the list of allocated memory (cc/cc.c, cc_malloc.c,         *)
(* cc_wraps.c).                                                            *)
(***************************************************************************)
EXTENDS Shell

\* A source: does it compile, has it a main, and the outside functions it calls.
Source(good, main, relocs) == [text |-> "source", good |-> good, main |-> main, relocs |-> relocs]

\* An executable: header, code and data, then a block for each relocation.
Segment(s, k) == [text |-> "segment", of |-> s, k |-> k]
Image(s) == [k \in 1 .. 3 + s.relocs |-> Segment(s, k)]
IsSegment(b) == "k" \in DOMAIN b
IsWhole(data) == data # <<>> /\ IsSegment(data[1]) /\ IsPrefix(Image(data[1].of), data)

-----------------------------------------------------------------------------
(* The session's variables: fd is null, open, closed (and not cleared) or  *)
(* unopened; mem the memory allocated; list the program's handles; lines   *)
(* that errors show the source line, and base that there is a source.      *)

Handles == {"h1", "h2"}
FdHandle(p) == <<"fd", p>>
UserHandle(h) == <<h, Root>>

Session(op) == [op |-> op, fd |-> "null", path |-> Root, mem |-> {}, list |-> <<>>, freed |-> {},
                lines |-> FALSE, base |-> FALSE, source |-> {}, out |-> <<>>, data |-> <<>>]

CcAt(at) == cmd.op \in {"cc", "run"} /\ cmd.at = at
S == cmd.v
HasOut == Len(Line.args) > 1

\* fatal(): the line is looked for in the source, even when that is freed.
fatal(v) ==
  /\ Goes("leave", v)
  /\ IF v.lines /\ ~v.base THEN Slip("null source") ELSE UNCHANGED slips

\* To the session's way out, or on.
CcStart ==
  /\ At("cc", "start")
  /\ LET p == PathOf(1)
         v == [Session("cc") EXCEPT !.mem = {"tables"}, !.path = p]
     IN \E r \in Outcomes :
          /\ Suffers(r, "open")
          /\ IF r = "bad" \/ ~IsFile(tree, p)
             THEN fatal([v EXCEPT !.mem = @ \cup {"name"}]) /\ UNCHANGED open
             ELSE /\ Goes("read", [v EXCEPT !.mem = @ \cup {"fd"}, !.fd = "open"])
                  /\ open' = open \cup {FdHandle(p)} /\ UNCHANGED slips
  /\ UNCHANGED tree /\ Within

CcRead ==
  /\ CcAt("read")
  /\ \E r \in Outcomes :
       /\ Suffers(r, "read")
       /\ IF r = "bad"
          THEN fatal([S EXCEPT !.mem = @ \cup {"source"}]) /\ UNCHANGED open
          ELSE /\ Goes("compile", [S EXCEPT !.mem = (@ \ {"fd"}) \cup {"source"}, !.fd = "null", !.base = TRUE,
                                            !.source = {b \in ToSet(tree[S.path].data) : IsSource(b)}])
               /\ open' = open \ {FdHandle(S.path)} /\ UNCHANGED slips
  /\ UNCHANGED tree /\ Within

Program == CHOOSE s \in S.source : TRUE

\* The program is compiled and the compiler's memory freed, the relocations with it.
CcCompile ==
  /\ CcAt("compile")
  /\ LET v == [S EXCEPT !.lines = TRUE]
         bare == [v EXCEPT !.mem = {}, !.base = FALSE]
     IN IF v.source = {} \/ ~Program.good THEN fatal(v)
        ELSE IF ~Program.main THEN fatal(bare)
        ELSE Goes(IF HasOut THEN "create" ELSE "user", bare) /\ UNCHANGED slips
  /\ UNCHANGED <<tree, open>> /\ Quietly /\ Within

CcCreate ==
  /\ CcAt("create")
  /\ LET p == PathOf(2)
     IN \E r \in Outcomes :
          /\ Suffers(r, "open")
          /\ IF r = "bad" \/ ~CanCreate(tree, p)
             THEN fatal(S) /\ UNCHANGED <<tree, open>>
             ELSE /\ tree' = Created(tree, p)
                  /\ open' = open \cup {FdHandle(p)}
                  /\ Goes("write", [S EXCEPT !.fd = "open", !.path = p, !.mem = @ \cup {"fd"}])
                  /\ UNCHANGED slips
  /\ Within

\* A segment.  When a write fails the file is closed, and fd is left as it is.
CcWrite ==
  /\ CcAt("write") /\ Len(S.out) < Len(Image(Program))
  /\ LET k == Len(S.out) + 1
         v == [S EXCEPT !.out = Append(@, Segment(Program, k))]
     IN \E r \in Outcomes :
          /\ Suffers(r, "write")
          /\ IF r = "bad"
             THEN /\ fatal([S EXCEPT !.fd = "closed"])
                  /\ open' = open \ {FdHandle(S.path)}
                  /\ tree' \in {tree, Stored(tree, S.path, S.out)}
             ELSE /\ UNCHANGED <<tree, open>>
                  /\ IF k <= 3 THEN Goes("write", v) /\ UNCHANGED slips
                     ELSE \* the relocation was read from freed memory, and is freed again: cc_free does not
                          \* know it, or takes what is there now
                          /\ Slip("freed relocation")
                          /\ \/ Goes("leave", v)
                             \/ cmd' = Does("off", "off")
  /\ Within

CcSeal ==
  /\ CcAt("write") /\ Len(S.out) = Len(Image(Program))
  /\ \E r \in Outcomes, call \in {"close", "setattr"} :
       LET v == [S EXCEPT !.fd = "null", !.mem = {}]
       IN /\ Suffers(r, call)
          /\ open' = open \ {FdHandle(S.path)}
          /\ LET stored == Stored(tree, S.path, S.out)
             IN \E t \in IF r = "bad" /\ call = "close" THEN {tree, stored} ELSE {stored} :
                  tree' = IF r = "bad" /\ call = "setattr" THEN t ELSE Marked(t, S.path)
          /\ IF r = "bad" /\ call = "setattr" THEN fatal(v) ELSE Goes("leave", v) /\ UNCHANGED slips
  /\ Within

-----------------------------------------------------------------------------
(* run_as_cmd and the loader. *)

IsExe(p) == IsFile(tree, p) /\ tree[p].exe
InBin(arg) == IF arg.up THEN arg.names ELSE <<"bin">> \o arg.names

\* The command's file: by its path, else in /bin.
RunAsCmd ==
  /\ At("run", "start")
  /\ \E r \in Outcomes, call \in {"getattr", "getattr bin"} :
       LET here == IsExe(PathOf(1)) /\ ~(r = "bad" /\ call = "getattr")
           bin == ~Line.args[1].abs /\ IsExe(InBin(Line.args[1])) /\ ~(r = "bad" /\ call = "getattr bin")
       IN /\ r = "bad" /\ call = "getattr bin" => ~here
          /\ Suffers(r, call)
          /\ IF here THEN Goes("open", [Session("run") EXCEPT !.path = PathOf(1)])
             ELSE IF bin THEN Goes("open", [Session("run") EXCEPT !.path = InBin(Line.args[1])])
             ELSE Answers("unknown command")
  /\ UNCHANGED <<tree, open, slips>> /\ Within

\* A failure leaves fd set, with a file that was never opened.
LdOpen ==
  /\ CcAt("open")
  /\ \E r \in Outcomes, call \in {"getattr", "open"} :
       LET v == [S EXCEPT !.mem = {"fd"}]
       IN /\ Suffers(r, call)
          /\ IF r = "bad" /\ call = "getattr" THEN fatal(S) /\ UNCHANGED open
             ELSE IF r = "bad" THEN fatal([v EXCEPT !.fd = "unopened"]) /\ UNCHANGED open
             ELSE /\ Goes("load", [v EXCEPT !.fd = "open", !.data = tree[S.path].data])
                  /\ open' = open \cup {FdHandle(S.path)} /\ UNCHANGED slips
  /\ UNCHANGED tree /\ Within

\* Variant: the relocations are left unread.
ToReadCode(header) == 3
\* The segments that a header announces.
ToRead(header) == 3 + header.of.relocs

\* The header, code, data or a relocation.  The file is closed when it is short, fd cleared but for the header.
LdRead ==
  /\ CcAt("load")
  /\ LET k == Len(S.out) + 1
         more == k = 1 \/ k <= ToRead(S.data[1])
         version == IsSegment(S.data[1]) /\ S.data[1].k = 1
     IN /\ S.data # <<>> /\ k > 1 => more
        /\ \E r \in Outcomes :
             /\ Suffers(r, "read")
             /\ IF r = "bad" \/ k > Len(S.data)
                THEN fatal([S EXCEPT !.fd = IF k = 1 THEN "closed" ELSE "null"]) /\ open' = open \ {FdHandle(S.path)}
                ELSE IF k = 1 /\ ~version THEN fatal(S) /\ UNCHANGED open
                ELSE /\ Goes("load", [S EXCEPT !.out = Append(@, S.data[k])])
                     /\ UNCHANGED <<open, slips>>
  /\ UNCHANGED tree /\ Within

LdDone ==
  /\ CcAt("load") /\ S.out # <<>>
  /\ Len(S.out) = ToRead(S.data[1])
  /\ open' = open \ {FdHandle(S.path)}
  /\ Goes("user", [S EXCEPT !.fd = "null", !.mem = {}])
  /\ UNCHANGED <<tree, slips>> /\ Quietly /\ Within

-----------------------------------------------------------------------------
(* The user's program: the handles it opens, closes and frees.  (What it   *)
(* writes, truncates, removes or renames is not modelled.)                 *)

UserOpen ==
  /\ CcAt("user")
  /\ \E h \in Handles \ (ToSet(S.list) \cup S.freed), r \in Outcomes :
       /\ Suffers(r, "user open")
       /\ IF r = "bad" THEN UNCHANGED <<cmd, open>>
          ELSE /\ Goes("user", [S EXCEPT !.list = <<h>> \o @, !.mem = @ \cup {h}])
               /\ open' = open \cup {UserHandle(h)}
  /\ UNCHANGED <<tree, slips>> /\ Within

UserClose ==
  /\ CcAt("user")
  /\ \E k \in DOMAIN S.list :
       LET h == S.list[k] IN
       /\ Goes(IF h \in S.freed THEN "leave" ELSE "user", [S EXCEPT !.list = RemoveAt(@, k), !.mem = @ \ {h}])
       /\ open' = open \ {UserHandle(h)}
       /\ IF h \in S.freed THEN Slip("freed handle") ELSE UNCHANGED slips
  /\ UNCHANGED tree /\ Quietly /\ Within

\* free() of a handle: the list of handles still has it.
UserFree ==
  /\ CcAt("user")
  /\ \E h \in ToSet(S.list) \ S.freed :
       Goes("user", [S EXCEPT !.mem = @ \ {h}, !.freed = @ \cup {h}])
  /\ UNCHANGED <<tree, open, slips>> /\ Quietly /\ Within

\* The program returns, or closes what is not open (run_fatal), or reads a directory as a file (fatal).
UserLeaves ==
  /\ CcAt("user")
  /\ \/ Goes("leave", S) /\ UNCHANGED slips
     \/ S.list # <<>> /\ fatal(S)
  /\ UNCHANGED <<tree, open>> /\ Quietly /\ Within

-----------------------------------------------------------------------------
(* The way out: fd, what the program left open, then all the memory. *)

CcLeave ==
  /\ CcAt("leave")
  /\ LET wrong == (CASE S.fd = "closed" -> {"closed twice"}
                     [] S.fd = "unopened" -> {"closed unopened"}
                     [] OTHER -> {})
                  \cup (IF ToSet(S.list) \cap S.freed # {} THEN {"freed handle"} ELSE {})
         written == S.fd = "open" /\ cmd.op = "cc" /\ S.out # <<>>
     IN /\ slips' = slips \cup {<<w, cmd.op>> : w \in wrong}
        /\ \E r \in Outcomes :
             /\ Suffers(r, "close")
             /\ tree' \in IF written /\ r = "ok" THEN {Stored(tree, S.path, S.out)} ELSE {tree}
        /\ open' = open \ ((IF S.fd = "open" THEN {FdHandle(S.path)} ELSE {}) \cup {UserHandle(h) : h \in ToSet(S.list)})
        /\ cmd' = [cmd EXCEPT !.at = "done", !.said = "left", !.v = [@ EXCEPT !.mem = {}]]
  /\ Within

CcStep == CcStart \/ CcRead \/ CcCompile \/ CcCreate \/ CcWrite \/ CcSeal \/ RunAsCmd \/ LdOpen \/ LdRead \/ LdDone
          \/ CcLeave
UserStep == UserOpen \/ UserClose \/ UserFree \/ UserLeaves
=============================================================================
