------------------------------- MODULE Pshell -------------------------------
(***************************************************************************)
(* The shell with its commands on one device.  Commands are independent    *)
(* programs that meet in what they leave behind: the tree, the executable  *)
(* mark, the working directory and the handles still open.                 *)
(***************************************************************************)
EXTENDS FileCmds, Tar, CcSession

Type == \E line \in Scenes[scene].lines : Enter(line)
Work == ShellStep \/ FileStep \/ TarStep \/ CcStep
Next == Type \/ BootMount \/ BootAnswer \/ Reset \/ Work \/ UserStep

\* A command that can go on does; keys, the user's program and resets come as they will.
Spec == Init /\ [][Next]_vars /\ WF_vars(Work)

Ops == {"none", "boot", "off"} \cup Commands

\* The variables have their types; the tree is a tree.
TypeOK ==
  /\ scene \in DOMAIN Scenes
  /\ sound \in BOOLEAN /\ mounted \in BOOLEAN /\ (mounted => sound)
  /\ WellFormed(tree) /\ WellFormed(before)
  /\ DOMAIN sh_pwd = {"slash", "names"}
  /\ cmd.op \in Ops
  /\ faults \in 0 .. MaxFaults /\ left \in 0 .. Scenes[scene].commands
  /\ IsFiniteSet(open) /\ IsFiniteSet(slips)

-----------------------------------------------------------------------------
(* What names mean, said without the text of the working directory. *)

Resolve(arg) ==
  CASE arg.abs -> arg.names
    [] ~arg.abs /\ ~arg.up -> sh_pwd.names \o arg.names
    [] OTHER -> (IF sh_pwd.names = <<>> THEN <<>> ELSE Front(sh_pwd.names)) \o arg.names
\* In a directory entered as "../x" from the root, whose text has no '/' before it, "../" does not lead up.
TextLeadsUp(arg) == ~arg.up \/ sh_pwd.slash
Named(k) == Resolve(Line.args[k])

\* cd goes where its argument says, or stays; to a directory that exists, unless the one it left was gone.
CdGoesWhereAsked ==
  [][At("cd", "start") /\ cmd'.at = "done" =>
       IF Line.args = <<>> THEN sh_pwd' = AtRoot
       ELSE TextLeadsUp(Line.args[1]) =>
              /\ sh_pwd'.names = Named(1)
              /\ IsDir(tree, sh_pwd.names) => IsDir(tree, sh_pwd'.names)]_sh_pwd

\* The places a command line names.
Inside(t, p) == IF IsDir(t, p) THEN {p, Append(p, Last(Named(1)))} ELSE {p}
\* cp and mv of "../x" to a directory, where x is the whole text: the name in that directory is not the line's.
NameLost == cmd.op \in {"cp", "mv"} /\ Unslashed(Line.args[1]) /\ IsDir(before, Named(2))
MayChange(p) ==
  CASE cmd.op \in {"boot", "format"} -> TRUE
    [] cmd.op = "cp" -> p \in Inside(before, Named(2))
    [] cmd.op = "mv" -> Under(Named(1), p) \/ \E q \in Inside(before, Named(2)) : Under(q, p)
    [] cmd.op \in {"mkdir"} -> p = Named(1)
    [] cmd.op = "rm" -> p = Named(1) \/ (Recursive /\ Under(Named(1), p))
    [] cmd.op = "tar" /\ Line.flag = "c" -> p = Named(1)
    [] cmd.op = "tar" /\ Line.flag = "x" -> Under(sh_pwd.names, p) /\ p # sh_pwd.names
    [] cmd.op = "cc" /\ HasOut -> p = Named(2)
    [] cmd.op \in {"quit", "reboot"} -> p = HistoryFile
    [] OTHER -> FALSE

\* A command changes nothing but what its line names, whatever fails and wherever it is cut off; and the
\* whole device only when it is formatted.  A copy whose name is lost stays in the directory the line names.
OnlyTheNamed ==
  [][\A p \in DOMAIN tree \cup DOMAIN tree' :
       \/ p \in DOMAIN tree /\ p \in DOMAIN tree' /\ tree'[p] = tree[p]
       \/ MayChange(p)
       \/ NameLost /\ Under(Named(2), p) /\ p # Named(2)
       \/ \E k \in DOMAIN Line.args : ~TextLeadsUp(Line.args[k])]_tree

-----------------------------------------------------------------------------
(* What the commands promise. *)

\* A copy reported as made has the content of its source and can be executed if the source can, unless a
\* read failed, or a call that cp does not check.
CopiedIsCopied ==
  At("cp", "done") /\ cmd.said = "copied" /\ faulted \subseteq {"stat", "stat to", "open", "write"} =>
    LET from == before[cmd.v.from]
        to == tree[cmd.v.to]
    IN to.data = from.data /\ (from.exe => to.exe)

\* rm removes all it was asked to, or nothing: a part only when a call failed, or of the root.
RmAllOrNothing ==
  At("rm", "done") /\ "read" \notin faulted /\ (\A k \in DOMAIN Line.args : TextLeadsUp(Line.args[k])) =>
    IF cmd.said = "removed" THEN \A p \in DOMAIN tree : ~Under(Named(1), p)
    ELSE faulted # {} \/ Named(1) = Root \/ tree = before

\* The entries of an archive as they are found, one after the other, and whether reading comes to the end block.
\* What a folder's header says to follow is not skipped.
Follows(b) == IF AsHeader(b).slash THEN 0 ELSE AsHeader(b).size
After(data, k) == IF k + 1 + Follows(data[k]) > Len(data) THEN Len(data) + 1 ELSE k + 1 + Follows(data[k])
Starts(data) ==
  LET f[k \in 1 .. Len(data) + 1] == IF k > Len(data) \/ data[k] = Zero THEN {k} ELSE {k} \cup f[After(data, k)]
  IN f[1]
HasEnd(data) == \E k \in Starts(data) : k <= Len(data) /\ data[k] = Zero
EntryAt(data, k) == LET h == AsHeader(data[k]) IN [name |-> h.name, exe |-> h.exe, data |-> SubSeq(data, k + 1, k + h.size)]
IsEntry(data, k) == k <= Len(data) /\ data[k] # Zero /\ ~AsHeader(data[k]).slash
Entries(data) == {EntryAt(data, k) : k \in {j \in Starts(data) : IsEntry(data, j)}}
Archive == Named(1)

\* An archive made without a failure, of names in the working directory, has every file under them but
\* itself, with its content and its mark, and its end.
ArchiveHoldsTree ==
  At("tar", "done") /\ cmd.said = "created" /\ faulted = {} /\ TextLeadsUp(Line.args[1])
  /\ sh_pwd.slash = FullPath(Line.args[1]).slash
  /\ (\A k \in 2 .. Len(Line.args) : LET a == Line.args[k] IN ~a.abs /\ ~a.up /\ Len(a.names) = 1) =>
    LET data == tree[Archive].data
        asked == {Named(k) : k \in 2 .. Len(Line.args)}
        files == {p \in DOMAIN before : IsFile(before, p) /\ p # Archive /\ \E q \in asked : Under(q, p)}
    IN /\ Last(data) = Zero
       /\ Entries(data) = {[name |-> SubSeq(p, Len(sh_pwd.names) + 1, Len(p)), exe |-> before[p].exe,
                            data |-> before[p].data] : p \in files}

\* Extracting without a failure to the end of an archive puts back every entry of it whose name is its own.
ExtractRestores ==
  At("tar", "done") /\ Line.flag = "x" /\ cmd.said = "read" /\ faulted = {} /\ TextLeadsUp(Line.args[1])
  /\ HasEnd(before[Archive].data) =>
    \A e \in Entries(before[Archive].data) :
      LET p == sh_pwd.names \o e.name
          only == \A f \in Entries(before[Archive].data) : f.name = e.name => f = e
      IN only => IsFile(tree, p) /\ tree[p].data = e.data /\ (e.exe => tree[p].exe)

\* The program of an executable file is started only when all that its header announces was loaded, as it is in
\* the file, though the mark of an executable may stay on a file that was overwritten, or be put on one that was
\* cut short.  Whether the parts are those of one program the loader cannot tell: if the file is whole, they are.
RunsOnlyLoaded ==
  At("run", "user") =>
    /\ S.data # <<>> /\ IsSegment(S.data[1]) /\ S.data[1].k = 1
    /\ Len(S.data) >= 3 + S.data[1].of.relocs /\ S.out = SubSeq(S.data, 1, 3 + S.data[1].of.relocs)
    /\ IsWhole(S.data) => S.out = Image(S.data[1].of)

-----------------------------------------------------------------------------
(* What the commands leave behind. *)

\* A finished command has closed what it opened, tar alone excepted after a failure: the archive whose header
\* could not be read, and what it was reading when it gave up.
HandlesClosed ==
  cmd.at \in {"prompt", "done"} =>
    /\ \A h \in open : h[1] = "tar" \/ (h[1] \in {"tar in", "tar dir"} /\ <<"dead handle", "tar">> \in slips)
    /\ cmd.op = "tar" /\ cmd.said \in {"created", "read", "failed"} => TarHandle \notin open

\* Undefined behaviour has its known causes.
Known(what) ==
  CASE what = "unmounted" -> cmd.op = "none" /\ cmd'.op \in {"cp", "mv", "run"}
    [] what = "no slash" -> cmd.op \in {"cp", "mv"} /\ Line.args[1].up /\ (sh_pwd.slash => sh_pwd.names = <<>>)
    [] what = "dead handle" -> At("tar", "bail") /\ faulted # {}
    [] what = "reopened" -> Listed
    [] what = "unopened" -> cmd.op = "rm" /\ "open" \in faulted'
    [] what = "closed twice" -> {"read", "write"} \cap faulted # {} \/ (cmd.op = "run" /\ S.data = <<>>)
    [] what = "closed unopened" -> "open" \in faulted
    [] what = "freed relocation" -> HasOut /\ Program.relocs > 0
    [] what = "freed handle" -> S.freed # {}
    [] what = "null source" -> \/ faulted' # {} \/ ~Program.main \/ S.list # <<>>
                               \/ HasOut /\ ~CanCreate(tree, PathOf(2))
SlipsAreKnown == [][\A s \in slips' \ slips : Known(s[1])]_slips

\* A command ends, or its user's program runs, but for two: rm whose directory cannot be read, and tar that
\* reads an archive without its end.  Nothing is said of littlefs once its list holds what tar left in it.
Busy == cmd.op \notin {"none", "boot", "off"}
Endless ==
  \/ At("rm", "spin")
  \/ \E s \in slips : s[1] \in {"dead handle", "reopened"}
  \/ cmd.op = "tar" /\ Line.flag # "c" /\ IsFile(before, Archive) /\ ~HasEnd(before[Archive].data)
CommandsEnd == Busy ~> (~Busy \/ Endless \/ CcAt("user"))
=============================================================================
