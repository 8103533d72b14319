-------------------------------- MODULE Tar --------------------------------
(***************************************************************************)
(* tar: an archive is a file of blocks, headers followed by as many blocks *)
(* of content as they say, and two empty blocks at its end (tar/tar.c).    *)
(***************************************************************************)
EXTENDS Shell

Header(name, size, exe) == [name |-> name, size |-> size, exe |-> exe, slash |-> FALSE]
FolderHeader(name) == [name |-> name, size |-> 0, exe |-> FALSE, slash |-> TRUE]   \* of other programs' archives
Zero == [zero |-> TRUE]
Garbage == [text |-> "garbage"]   \* memory fresh from malloc, when it is not zero

\* Any block can be taken for a header; text makes one of an empty file.
AsHeader(b) == IF IsHeader(b) THEN b ELSE Header(<<b.text>>, 0, FALSE)

Handle(name, p) == <<name, p>>
TarHandle == Handle("tar", cmd.v.file.names)
TarGoes(at, v) == Goes(at, v) /\ UNCHANGED <<tree, open, slips>> /\ Within

\* The static tar_f, if it was not closed, is in littlefs's list of open files when it is opened again.
Listed == \E h \in open : h[1] = "tar"

\* The place of tar_fn, and of path: the working directory.
TarStart ==
  /\ At("tar", "start")
  /\ \E r \in Outcomes :
       LET file == FullPath(Line.args[1])
           p == file.names
           ready == IF Line.flag = "c" THEN CanCreate(tree, p) ELSE IsFile(tree, p)
       IN /\ Suffers(r, "open")
          /\ IF r = "bad" \/ ~ready THEN Answers("can't open") /\ UNCHANGED <<tree, open, slips>>
             ELSE /\ open' = open \cup {Handle("tar", p)}
                  /\ IF Listed THEN Slip("reopened") ELSE UNCHANGED slips
                  /\ IF Line.flag = "c"
                     THEN /\ tree' = Created(tree, p)
                          /\ Goes("create", [file |-> file, arg |-> 2, stack |-> <<>>, out |-> <<>>])
                     ELSE /\ UNCHANGED tree
                          /\ \E fresh \in {Zero, Garbage} :
                               Goes("header", [file |-> file, rest |-> tree[p].data, hdr |-> fresh, made |-> 0])
  /\ Within

-----------------------------------------------------------------------------
(* Create. *)

\* bail1: the archive is closed.  What failed to be written may leave the old content.
TarClose(said) ==
  \E r \in Outcomes :
    LET stored == Stored(tree, cmd.v.file.names, cmd.v.out)
    IN /\ Suffers(r, "close")
       /\ tree' \in IF r = "bad" \/ "write" \in faulted THEN {tree, stored} ELSE {stored}
       /\ open' = open \ {TarHandle}
       /\ Answers(said)
TarFrames == cmd.v.stack
TarTop == TarFrames[Len(TarFrames)]
Cwd == sh_pwd.names

\* What reading n blocks gives: past the end, the block last read again.
Reads(data, n, stale) ==
  [k \in 1 .. n |-> IF k <= Len(data) THEN data[k] ELSE IF data = <<>> THEN stale ELSE Last(data)]

\* Variant: known by its name, in any directory.
IsArchiveName(p, v) == Last(p) = Last(v.file.names)
IsArchive(p, v) == sh_pwd.slash = v.file.slash /\ p = v.file.names

\* A file goes into the archive under its path from the working directory.  The archive itself is known by
\* its text.  A file that fails stays open.
tar_file(p, size, v) ==
  IF IsArchive(p, v)
  THEN Goes("create", v) /\ UNCHANGED open /\ Quietly
  ELSE \/ /\ ~IsFile(tree, p)
          /\ Goes("bail", v) /\ UNCHANGED open /\ Quietly
       \/ \E r \in Outcomes, call \in {"open", "getattr", "write", "read"} :
            LET exe == tree[p].exe /\ ~(r = "bad" /\ call = "getattr")
                header == Header(SubSeq(p, Len(Cwd) + 1, Len(p)), size, exe)
                archived == [v EXCEPT !.out = Append(@, header) \o Reads(tree[p].data, size, header)]
            IN /\ IsFile(tree, p)
               /\ r = "bad" /\ call = "read" => size > 0
               /\ Suffers(r, call)
               /\ IF r = "bad" /\ call = "open" THEN Goes("bail", v) /\ UNCHANGED open
                  ELSE IF r = "bad" /\ call # "getattr"
                  THEN /\ open' = open \cup {Handle("tar in", p)}
                       /\ Goes("bail", [v EXCEPT !.out = Append(@, header)])
                  ELSE Goes("create", archived) /\ UNCHANGED open

\* A directory is opened, to be read.
tar_dir(p, v) ==
  \E r \in Outcomes :
    /\ Suffers(r, "open")
    /\ IF r = "bad" \/ ~IsDir(tree, p) THEN Goes("bail", v) /\ UNCHANGED open
       ELSE /\ open' = open \cup {Handle("tar dir", p)}
            /\ Goes("create", [v EXCEPT !.stack = Append(@, [dir |-> p, unread |-> Children(tree, p)])])

\* The next of the arguments: found by its path, then taken by its last name from the working directory.
TarArgument ==
  /\ At("tar", "create") /\ TarFrames = <<>> /\ cmd.v.arg <= Len(Line.args)
  /\ LET p == PathOf(cmd.v.arg)
         place == IF p = Root THEN Cwd ELSE Append(Cwd, Last(p))
         v == [cmd.v EXCEPT !.arg = @ + 1]
     IN \/ /\ Exists(tree, p)
           /\ IF IsDir(tree, p) THEN tar_dir(place, v)
              ELSE tar_file(place, Len(tree[p].data), v)
        \/ \E r \in Outcomes :
             /\ Suffers(r, "stat")
             /\ r = "bad" \/ ~Exists(tree, p)
             /\ Goes("bail", v) /\ UNCHANGED open
  /\ UNCHANGED <<tree, slips>> /\ Within

TarEntry ==
  /\ At("tar", "create") /\ TarFrames # <<>>
  /\ \E p \in TarTop.unread :
       LET v == [cmd.v EXCEPT !.stack = Append(Front(TarFrames), [TarTop EXCEPT !.unread = @ \ {p}])]
       IN IF IsDir(tree, p) THEN tar_dir(p, v) ELSE tar_file(p, Len(tree[p].data), v)
  /\ UNCHANGED <<tree, slips>> /\ Within

\* The end of a directory, or an error in reading it.
TarDirEnd ==
  /\ At("tar", "create") /\ TarFrames # <<>>
  /\ \E r \in Outcomes :
       /\ r = "ok" => TarTop.unread = {}
       /\ Suffers(r, "read")
  /\ open' = open \ {Handle("tar dir", TarTop.dir)}
  /\ Goes("create", [cmd.v EXCEPT !.stack = Front(@)])
  /\ UNCHANGED <<tree, slips>> /\ Within

\* Two empty blocks, written unchecked.
TarEnd ==
  /\ At("tar", "create") /\ TarFrames = <<>> /\ cmd.v.arg > Len(Line.args)
  /\ \E r \in Outcomes, k \in 0 .. 1 :
       /\ Suffers(r, "write")
       /\ TarGoes("close", [cmd.v EXCEPT !.out = @ \o (IF r = "ok" THEN <<Zero, Zero>> ELSE SubSeq(<<Zero>>, 1, k))])

\* in_f and in_d, on a stack that is no more, in littlefs's list when the archive is closed.
Dangling == \E h \in open : h[1] \in {"tar in", "tar dir"}
TarCreated ==
  /\ cmd.op = "tar" /\ cmd.at \in {"close", "bail"} /\ Line.flag = "c"
  /\ TarClose(IF cmd.at = "close" THEN "created" ELSE "failed")
  /\ IF Dangling THEN Slip("dead handle") ELSE UNCHANGED slips
  /\ Within

-----------------------------------------------------------------------------
(* List and extract.  At the end of the file a read changes nothing, and   *)
(* the block last read is taken once more.                                 *)

Rest == cmd.v.rest
NextBlock == IF Rest = <<>> THEN cmd.v.hdr ELSE Head(Rest)
Past(n) == IF n >= Len(Rest) THEN <<>> ELSE SubSeq(Rest, n + 1, Len(Rest))

\* Where the listing goes after a header: over the content.
\* Variant: LFS_SEEK_SET.
SeekFromStart(n) == SubSeq(tree[cmd.v.file.names].data, n, Len(tree[cmd.v.file.names].data))
Seek(n) == Past(n)

\* A read that fails leaves the archive open.
TarHeader ==
  /\ At("tar", "header")
  /\ \E r \in Outcomes :
       /\ Suffers(r, "read")
       /\ IF r = "bad" THEN Answers("error reading")
          ELSE IF NextBlock = Zero THEN Goes("shut", cmd.v)
          ELSE LET h == AsHeader(NextBlock)
                   v == [cmd.v EXCEPT !.hdr = NextBlock, !.rest = Past(1)]
               IN IF h.slash THEN Goes("header", v)
                  ELSE IF Line.flag = "t" THEN Goes("header", [v EXCEPT !.rest = Seek(1 + h.size)])
                  ELSE Goes("dirs", [v EXCEPT !.made = 1])
  /\ UNCHANGED <<tree, open, slips>> /\ Within

Entry == AsHeader(cmd.v.hdr)
\* Variant: the directories of the name are dropped.
PlaceFlat == Append(Cwd, Last(Entry.name))
Place == Cwd \o Entry.name

\* create_directories: one at a step.
TarMkdirs ==
  /\ At("tar", "dirs") /\ cmd.v.made < Len(Entry.name)
  /\ LET p == Cwd \o SubSeq(Entry.name, 1, cmd.v.made)
     IN \E r \in Outcomes :
          /\ Suffers(r, "mkdir")
          /\ tree' = IF r = "ok" /\ CanMkdir(tree, p) THEN Mkdir(tree, p) ELSE tree
          /\ IF r = "ok" /\ IsDir(tree', p) THEN Goes("dirs", [cmd.v EXCEPT !.made = @ + 1]) ELSE Goes("bail", cmd.v)
  /\ UNCHANGED <<open, slips>> /\ Within

\* The file is written and closed, and marked when the archive says so.  A failure keeps what came before it.
TarExtract ==
  /\ At("tar", "dirs") /\ cmd.v.made >= Len(Entry.name)
  /\ \E r \in Outcomes, call \in {"create", "read", "write", "close", "setattr"} :
       LET size == Entry.size
           blocks == Reads(Rest, size, cmd.v.hdr)
           failed == r = "bad" /\ call \in {"read", "write"}
           created == Created(tree, Place)
           whole == Stored(created, Place, blocks)
           marked == Entry.exe /\ ~(r = "bad" /\ call = "setattr")
       IN /\ failed => size > 0
          /\ Suffers(r, call)
          /\ IF (r = "bad" /\ call = "create") \/ ~CanCreate(tree, Place) THEN UNCHANGED tree /\ Goes("bail", cmd.v)
             ELSE IF failed
             THEN /\ \E n \in 0 .. size - 1 : tree' \in {created, Stored(created, Place, SubSeq(blocks, 1, n))}
                  /\ Goes("bail", cmd.v)
             ELSE /\ \E t \in IF r = "bad" /\ call = "close" THEN {created, whole} ELSE {whole} :
                       tree' = IF marked THEN Marked(t, Place) ELSE t
                  /\ Goes("header", [cmd.v EXCEPT !.rest = Past(size),
                                                  !.hdr = IF size = 0 THEN @ ELSE blocks[size]])
  /\ UNCHANGED <<open, slips>> /\ Within

TarShut ==
  /\ cmd.op = "tar" /\ cmd.at \in {"shut", "bail"} /\ Line.flag # "c"
  /\ open' = open \ {TarHandle} /\ Quietly
  /\ Answers(IF cmd.at = "shut" THEN "read" ELSE "failed")
  /\ UNCHANGED <<tree, slips>> /\ Within

TarStep == TarStart \/ TarArgument \/ TarEntry \/ TarDirEnd \/ TarEnd \/ TarCreated
           \/ TarHeader \/ TarMkdirs \/ TarExtract \/ TarShut
=============================================================================
