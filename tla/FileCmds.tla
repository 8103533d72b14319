------------------------------ MODULE FileCmds ------------------------------
(***************************************************************************)
(* mv, cp, mkdir and rm (pshell/file_cmds.c).  cat, ls and df change       *)
(* nothing and are left out.                                               *)
(***************************************************************************)
EXTENDS Shell

(* cp and mv: the two names. *)

\* "../x" may be resolved to a text without a '/'; strrchr then gives NULL, and the name is what memory holds at address 1.
Memory == "memory"
Unslashed(arg) == arg.names # <<>> /\ ~FullPath(arg).slash /\ Len(FullPath(arg).names) = 1
\* What follows the last '/' of the first name's text: nothing after one that ends in it.
LastName == LET arg == Line.args[1] IN
  CASE arg.names = <<>> -> <<>>
    [] Unslashed(arg) -> <<Memory>>
    [] OTHER -> <<Last(PathOf(1))>>

\* Variant: the name is put directly after the directory's.
TargetUnslashed(to) ==
  IF IsDir(tree, to) THEN Append(Front(to), Last(to) \o LastName[1]) ELSE to
\* Into a directory, under the same name.
Target(to) == IF IsDir(tree, to) THEN to \o LastName ELSE to

\* When the second name cannot be looked up it is taken for a new one, even that of a directory.
check_from_to_parms(at, copy) ==
  /\ cmd.op = (IF copy THEN "cp" ELSE "mv") /\ cmd.at = "start"
  /\ \E r \in Outcomes, call \in {"stat", "stat to"} :
       /\ Suffers(r, call)
       /\ IF (r = "bad" /\ call = "stat") \/ ~Exists(tree, PathOf(1)) THEN Answers("not found")
          ELSE IF copy /\ IsDir(tree, PathOf(1)) THEN Answers("can't copy a directory")
          ELSE Goes(at, [from |-> PathOf(1), to |-> IF r = "bad" THEN PathOf(2) ELSE Target(PathOf(2))])
       /\ IF cmd'.at = at /\ r = "ok" /\ IsDir(tree, PathOf(2)) /\ Unslashed(Line.args[1])
          THEN Slip("no slash") ELSE UNCHANGED slips
  /\ UNCHANGED <<tree, open>> /\ Within

MvStart == check_from_to_parms("rename", FALSE)

Mv ==
  /\ At("mv", "rename")
  /\ \E r \in Outcomes :
       /\ Suffers(r, "rename")
       /\ IF r = "ok" /\ CanRename(tree, cmd.v.from, cmd.v.to)
          THEN tree' = Renamed(tree, cmd.v.from, cmd.v.to) /\ Answers("moved")
          ELSE UNCHANGED tree /\ Answers("could not move")
  /\ UNCHANGED <<open, slips>> /\ Within

CpStart == check_from_to_parms("open", TRUE)

In == <<"in", cmd.v.from>>
Out == <<"out", cmd.v.to>>
\* The source is read as it is when opened, whatever is then written over it.
CpOpen ==
  /\ At("cp", "open")
  /\ \E r \in Outcomes :
       /\ Suffers(r, "open")
       /\ IF r = "bad" \/ ~IsFile(tree, cmd.v.from) \/ ~CanCreate(tree, cmd.v.to)
          THEN Answers("error opening") /\ UNCHANGED <<tree, open>>
          ELSE /\ tree' = Created(tree, cmd.v.to)
               /\ open' = open \cup {In, Out}
               /\ Goes("copy", [from |-> cmd.v.from, to |-> cmd.v.to, rest |-> tree[cmd.v.from].data, out |-> <<>>, error |-> FALSE])
  /\ UNCHANGED slips /\ Within

\* Variant: a failed write ends the copy without a word.
SaysNothing(call) == FALSE
Says(call) == call = "write"
\* A read that fails ends the copy as the end of the file does.
CpBlock ==
  /\ At("cp", "copy") /\ cmd.v.rest # <<>>
  /\ \E r \in Outcomes, call \in {"read", "write"} :
       /\ Suffers(r, call)
       /\ IF r = "ok"
          THEN Goes("copy", [cmd.v EXCEPT !.rest = Tail(@), !.out = Append(@, Head(cmd.v.rest))])
          ELSE Goes("close", [cmd.v EXCEPT !.error = Says(call)])
  /\ UNCHANGED <<tree, open, slips>> /\ Within

CpEof ==
  /\ At("cp", "copy") /\ cmd.v.rest = <<>>
  /\ Goes("close", cmd.v) /\ Quietly
  /\ UNCHANGED <<tree, open, slips>> /\ Within

\* After a failed write or close the old content may stay.  The close is not checked.
CpClose ==
  /\ At("cp", "close")
  /\ \E r \in Outcomes, call \in {"close", "getattr", "setattr"} :
       LET lost == cmd.v.error \/ (r = "bad" /\ call = "close")
           stored == Stored(tree, cmd.v.to, cmd.v.out)
           exe == r = "ok" \/ call = "close"
       IN /\ Suffers(r, call)
          /\ \E t \in IF lost THEN {tree, stored} ELSE {stored} :
               tree' = IF exe /\ t[cmd.v.from].exe THEN Marked(t, cmd.v.to) ELSE t
  /\ open' = open \ {In, Out}
  /\ Answers(IF cmd.v.error THEN "error writing" ELSE "copied")
  /\ UNCHANGED slips /\ Within

MkdirCmd ==
  /\ At("mkdir", "start")
  /\ \E r \in Outcomes :
       /\ Suffers(r, "mkdir")
       /\ IF r = "ok" /\ CanMkdir(tree, PathOf(1))
          THEN tree' = Mkdir(tree, PathOf(1)) /\ Answers("created")
          ELSE UNCHANGED tree /\ Answers("can't create")
  /\ UNCHANGED <<open, slips>> /\ Within

-----------------------------------------------------------------------------
(* rm.  The recursive clean_dir is a stack of directories, each first read *)
(* for directories (dirs), then again for files.                           *)

Recursive == Line.flag = "-r"

RmStart ==
  /\ At("rm", "start")
  /\ \E r \in Outcomes :
       /\ Suffers(r, "stat")
       /\ IF r = "bad" \/ ~Exists(tree, PathOf(1)) THEN Answers("not found")
          ELSE Goes(IF IsDir(tree, PathOf(1)) THEN "count" ELSE "remove", [stack |-> <<>>])
  /\ UNCHANGED <<tree, open, slips>> /\ Within

\* The directory is opened unchecked, and read until 0: an error counts as an entry, again and again if it lasts.
RmCount ==
  /\ At("rm", "count")
  /\ \E r \in Outcomes, call \in {"open", "read"}, lasts \in BOOLEAN :
       /\ Suffers(r, call)
       /\ IF r = "bad" /\ call = "open" THEN Slip("unopened") ELSE UNCHANGED slips
       /\ IF r = "bad" /\ lasts THEN Goes("spin", cmd.v)
          ELSE IF Children(tree, PathOf(1)) = {} /\ r = "ok" THEN Goes("remove", cmd.v)
          ELSE IF Recursive THEN Goes("clean", cmd.v) ELSE Answers("not empty")
  /\ UNCHANGED <<tree, open>> /\ Within

RmRemove ==
  /\ At("rm", "remove")
  /\ \E r \in Outcomes :
       /\ Suffers(r, "remove")
       /\ IF r = "ok" /\ CanRemove(tree, PathOf(1))
          THEN tree' = Without(tree, {PathOf(1)}) /\ Answers("removed")
          ELSE UNCHANGED tree /\ Answers("can't remove")
  /\ UNCHANGED <<open, slips>> /\ Within

Frames == cmd.v.stack
Top == Frames[Len(Frames)]
WithTop(frame) == [cmd.v EXCEPT !.stack = Append(Front(Frames), frame)]
DirHandle(p) == <<"dir", p>>
Of(paths, dir) == {q \in paths : tree[q].dir = dir}

\* Variant: only the innermost is closed.
GiveUpTop == open' = open \ {DirHandle(Frames[k].dir) : k \in {Len(Frames)} \ {0}} /\ Answers("gave up")
\* false is returned through all the levels, each closing its directory.
GiveUp == open' = open \ {DirHandle(Frames[k].dir) : k \in DOMAIN Frames} /\ Answers("gave up")

\* The argument at first, then a subdirectory read from the one above.
CleanOpen ==
  /\ At("rm", "clean")
  /\ \/ Frames = <<>>
     \/ Frames # <<>> /\ Top.pass = "dirs" /\ Top.unread # {}
  /\ \E p \in IF Frames = <<>> THEN {PathOf(1)} ELSE Top.unread, r \in Outcomes :
       /\ Suffers(r, "open")
       /\ IF r = "bad" \/ ~IsDir(tree, p) THEN GiveUp
          ELSE /\ open' = open \cup {DirHandle(p)}
               /\ LET above == IF Frames = <<>> THEN <<>>
                               ELSE Append(Front(Frames), [Top EXCEPT !.unread = @ \ {p}])
                      frame == [dir |-> p, pass |-> "dirs", unread |-> Of(Children(tree, p), TRUE)]
                  IN Goes("clean", [stack |-> Append(above, frame)])
  /\ UNCHANGED <<tree, slips>> /\ Within

\* Variant: the directory is not rewound.
FilesUnread == {}
\* What is read of a directory from its start, for files.
Files == Of(Children(tree, Top.dir), FALSE)

\* The end of the directories, or an error in reading them: again from the start.
CleanRewind ==
  /\ At("rm", "clean") /\ Frames # <<>> /\ Top.pass = "dirs"
  /\ \E r \in Outcomes :
       /\ r = "ok" => Top.unread = {}
       /\ Suffers(r, "read")
       /\ Goes("clean", WithTop([Top EXCEPT !.pass = "files", !.unread = Files]))
  /\ UNCHANGED <<tree, open, slips>> /\ Within

CleanFile ==
  /\ At("rm", "clean") /\ Frames # <<>> /\ Top.pass = "files"
  /\ \E p \in Top.unread, r \in Outcomes :
       /\ Suffers(r, "remove")
       /\ IF r = "bad" THEN GiveUp /\ UNCHANGED tree
          ELSE /\ tree' = Without(tree, {p}) /\ UNCHANGED open
               /\ Goes("clean", WithTop([Top EXCEPT !.unread = @ \ {p}]))
  /\ UNCHANGED slips /\ Within

\* No file left, or an error in reading them; the directory itself.  littlefs may say nothing of one not empty.
CleanEnd ==
  /\ At("rm", "clean") /\ Frames # <<>> /\ Top.pass = "files"
  /\ \E r \in Outcomes, call \in {"read", "remove"}, silent \in BOOLEAN :
       LET removed == CanRemove(tree, Top.dir) /\ ~(r = "bad" /\ call = "remove")
           failed == ~removed /\ (Top.dir = Root \/ ~silent \/ (r = "bad" /\ call = "remove"))
       IN /\ (r = "ok" \/ call = "remove") => Top.unread = {}
          /\ Suffers(r, call)
          /\ tree' = IF removed THEN Without(tree, {Top.dir}) ELSE tree
          /\ IF failed THEN GiveUp
             ELSE /\ open' = open \ {DirHandle(Top.dir)}
                  /\ IF Len(Frames) = 1 THEN Answers("removed")
                     ELSE Goes("clean", [stack |-> Front(Frames)])
  /\ UNCHANGED slips /\ Within

FileStep == MvStart \/ Mv \/ CpStart \/ CpOpen \/ CpBlock \/ CpEof \/ CpClose \/ MkdirCmd
            \/ RmStart \/ RmCount \/ RmRemove \/ CleanOpen \/ CleanRewind \/ CleanFile \/ CleanEnd
=============================================================================
