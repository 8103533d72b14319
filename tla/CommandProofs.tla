--------------------------- MODULE CommandProofs ---------------------------
(***************************************************************************)
(* Proofs about what the commands of Pshell promise: each needs to know    *)
(* more of one command than PInv says of all of them.                      *)
(***************************************************************************)
EXTENDS PshellProofs, FoldProofs

(* Which steps a command is made of. *)

\* A step that goes on with the command or ends it, or stops the machine.
Moves == \/ cmd'.op = cmd.op /\ cmd'.line = cmd.line
         \/ cmd'.op = "off"

LEMMA DoesIs ==
  ASSUME NEW op, NEW at, cmd' = Does(op, at)
  PROVE  cmd'.op = op /\ cmd'.at = at
BY DEF Does

LEMMA FileMoves ==
  ASSUME PInv, FileStep
  PROVE  Moves /\ Within
<1>1. DOMAIN cmd = {"op", "at", "line", "said", "v"}
  BY DEF PInv, CmdOK
<1>2. CASE MvStart \/ CpStart
  BY <1>1, <1>2 DEF MvStart, CpStart, check_from_to_parms, Goes, Answers, Moves
<1>3. CASE Mv
  BY <1>1, <1>3 DEF Mv, Goes, Answers, Moves
<1>4. CASE CpOpen
  BY <1>1, <1>4 DEF CpOpen, Goes, Answers, Moves
<1>5. CASE CpBlock
  BY <1>1, <1>5 DEF CpBlock, Goes, Answers, Moves
<1>6. CASE CpEof
  BY <1>1, <1>6 DEF CpEof, Goes, Answers, Moves
<1>7. CASE CpClose
  BY <1>1, <1>7 DEF CpClose, Goes, Answers, Moves
<1>8. CASE MkdirCmd
  BY <1>1, <1>8 DEF MkdirCmd, Goes, Answers, Moves
<1>9. CASE RmStart
  BY <1>1, <1>9 DEF RmStart, Goes, Answers, Moves
<1>10. CASE RmCount
  BY <1>1, <1>10 DEF RmCount, Goes, Answers, Moves
<1>11. CASE RmRemove
  BY <1>1, <1>11 DEF RmRemove, Goes, Answers, Moves
<1>12. CASE CleanOpen
  BY <1>1, <1>12 DEF CleanOpen, GiveUp, Goes, Answers, Moves
<1>13. CASE CleanRewind
  BY <1>1, <1>13 DEF CleanRewind, GiveUp, Goes, Answers, Moves
<1>14. CASE CleanFile
  BY <1>1, <1>14 DEF CleanFile, GiveUp, Goes, Answers, Moves
<1>15. CASE CleanEnd
  BY <1>1, <1>15 DEF CleanEnd, GiveUp, Goes, Answers, Moves
<1>16. QED BY <1>2, <1>3, <1>4, <1>5, <1>6, <1>7, <1>8, <1>9, <1>10, <1>11, <1>12, <1>13, <1>14, <1>15 DEF FileStep

LEMMA TarMoves ==
  ASSUME PInv, TarStep
  PROVE  Moves /\ Within
<1>1. DOMAIN cmd = {"op", "at", "line", "said", "v"}
  BY DEF PInv, CmdOK
<1>2. CASE TarStart
  BY <1>1, <1>2 DEF TarStart, Goes, Answers, Moves
<1>3. ASSUME NEW p, NEW size, NEW v, tar_file(p, size, v)
      PROVE  Moves
  BY <1>1, <1>3 DEF tar_file, Goes, Moves
<1>4. ASSUME NEW p, NEW v, tar_dir(p, v)
      PROVE  Moves
  BY <1>1, <1>4 DEF tar_dir, Goes, Moves
<1>5. CASE TarArgument
  BY <1>1, <1>3, <1>4, <1>5 DEF TarArgument, Goes, Moves
<1>6. CASE TarEntry
  BY <1>1, <1>3, <1>4, <1>6 DEF TarEntry
<1>7. CASE TarDirEnd
  BY <1>1, <1>7 DEF TarDirEnd, Goes, Moves
<1>8. CASE TarEnd
  BY <1>1, <1>8 DEF TarEnd, TarGoes, Goes, Moves
<1>9. CASE TarCreated
  BY <1>1, <1>9 DEF TarCreated, TarClose, Answers, Moves
<1>10. CASE TarHeader
  BY <1>1, <1>10 DEF TarHeader, Goes, Answers, Moves
<1>11. CASE TarMkdirs
  BY <1>1, <1>11 DEF TarMkdirs, Goes, Moves
<1>12. CASE TarExtract
  BY <1>1, <1>12 DEF TarExtract, Goes, Moves
<1>13. CASE TarShut
  BY <1>1, <1>13 DEF TarShut, Answers, Moves
<1>14. QED BY <1>2, <1>5, <1>6, <1>7, <1>8, <1>9, <1>10, <1>11, <1>12, <1>13 DEF TarStep

LEMMA CcMoves ==
  ASSUME PInv, CcStep \/ UserStep
  PROVE  Moves /\ Within
<1>1. DOMAIN cmd = {"op", "at", "line", "said", "v"}
  BY DEF PInv, CmdOK
<1>2. CASE CcStart
  BY <1>1, <1>2 DEF CcStart, fatal, Goes, Moves
<1>3. CASE CcRead
  BY <1>1, <1>3 DEF CcRead, fatal, Goes, Moves
<1>4. CASE CcCompile
  BY <1>1, <1>4 DEF CcCompile, fatal, Goes, Moves
<1>5. CASE CcCreate
  BY <1>1, <1>5 DEF CcCreate, fatal, Goes, Moves
<1>6. CASE CcWrite
  <2>1. Within
    BY <1>6 DEF CcWrite
  <2>2. (\E at, v : Goes(at, v)) \/ cmd' = Does("off", "off")
    BY <1>6 DEF CcWrite, fatal
  <2>3. ASSUME NEW at, NEW v, Goes(at, v)
        PROVE  Moves
    BY <1>1, <2>3 DEF Goes, Moves
  <2>4. CASE cmd' = Does("off", "off")
    BY <2>1, <2>4, DoesIs DEF Moves
  <2>5. QED BY <2>1, <2>2, <2>3, <2>4
<1>7. CASE CcSeal
  BY <1>1, <1>7 DEF CcSeal, fatal, Goes, Moves
<1>8. CASE RunAsCmd
  BY <1>1, <1>8 DEF RunAsCmd, Answers, Goes, Moves
<1>9. CASE LdOpen
  BY <1>1, <1>9 DEF LdOpen, fatal, Goes, Moves
<1>10. CASE LdRead
  BY <1>1, <1>10 DEF LdRead, fatal, Goes, Moves
<1>11. CASE LdDone
  BY <1>1, <1>11 DEF LdDone, Goes, Moves
<1>12. CASE UserOpen
  BY <1>1, <1>12 DEF UserOpen, Goes, Moves
<1>13. CASE UserClose
  BY <1>1, <1>13 DEF UserClose, Goes, Moves
<1>14. CASE UserFree
  BY <1>1, <1>14 DEF UserFree, Goes, Moves
<1>15. CASE UserLeaves
  BY <1>1, <1>15 DEF UserLeaves, fatal, Goes, Moves
<1>16. CASE CcLeave
  BY <1>1, <1>16 DEF CcLeave, Moves
<1>17. QED BY <1>2, <1>3, <1>4, <1>5, <1>6, <1>7, <1>8, <1>9, <1>10, <1>11, <1>12, <1>13, <1>14, <1>15, <1>16 DEF CcStep, UserStep

\* A line is typed.
Begins == /\ cmd.op = "none" /\ UNCHANGED <<tree, sh_pwd, open, faults>> /\ before' = tree /\ faulted' = {}
          /\ \/ cmd'.at = "start" /\ ~bad_mount(cmd'.op)
             \/ cmd'.at = "done" /\ cmd'.said \in {"mount", "error"}
LEMMA TypeBegins ==
  ASSUME PInv, Type
  PROVE  Begins /\ cmd'.v = << >>
<1>1. PICK line \in Scenes[scene].lines : Enter(line)
  BY DEF Type
<1> DEFINE started == [Does(line.op, "start") EXCEPT !.line = line]
<1>2. /\ DOMAIN started = {"op", "at", "line", "said", "v"}
      /\ started.op = line.op /\ started.at = "start" /\ started.line = line /\ started.v = << >>
  BY DEF Does
<1>3. \/ cmd' = started /\ ~bad_mount(line.op)
      \/ \E said \in {"mount", "error"} : cmd' = [started EXCEPT !.at = "done", !.said = said]
  BY <1>1 DEF Enter
<1> HIDE DEF started
<1>4. cmd.op = "none" /\ UNCHANGED <<tree, sh_pwd, open, faults>> /\ before' = tree /\ faulted' = {}
  BY <1>1 DEF Enter, AtPrompt, Does
<1>5. QED BY <1>2, <1>3, <1>4 DEF Begins

\* Of which command a step is.
LEMMA FileOps ==
  /\ MvStart \/ Mv => cmd.op = "mv"
  /\ CpStart \/ CpOpen \/ CpBlock \/ CpEof \/ CpClose => cmd.op = "cp"
  /\ MkdirCmd => cmd.op = "mkdir"
  /\ RmStart \/ RmCount \/ RmRemove \/ CleanOpen \/ CleanRewind \/ CleanFile \/ CleanEnd => cmd.op = "rm"
<1>1. MvStart => cmd.op = "mv"
  BY DEF MvStart, check_from_to_parms
<1>2. Mv => cmd.op = "mv"
  BY DEF Mv, At
<1>3. CpStart => cmd.op = "cp"
  BY DEF CpStart, check_from_to_parms
<1>4. CpOpen \/ CpBlock \/ CpEof \/ CpClose => cmd.op = "cp"
  BY DEF CpOpen, CpBlock, CpEof, CpClose, At
<1>5. MkdirCmd => cmd.op = "mkdir"
  BY DEF MkdirCmd, At
<1>6. RmStart \/ RmCount \/ RmRemove => cmd.op = "rm"
  BY DEF RmStart, RmCount, RmRemove, At
<1>7. CleanOpen \/ CleanRewind \/ CleanFile \/ CleanEnd => cmd.op = "rm"
  BY ZenonT(60) DEF CleanOpen, CleanRewind, CleanFile, CleanEnd, At
<1>8. QED BY <1>1, <1>2, <1>3, <1>4, <1>5, <1>6, <1>7

LEMMA OtherOps ==
  /\ TarStep => cmd.op = "tar"
  /\ CcStep \/ UserStep => cmd.op \in {"cc", "run"}
<1>1. TarStep => cmd.op = "tar"
  BY DEF TarStep, TarStart, TarArgument, TarEntry, TarDirEnd, TarEnd, TarCreated, TarHeader, TarMkdirs, TarExtract, TarShut, At
<1>2. CcStep \/ UserStep => cmd.op \in {"cc", "run"}
  BY DEF CcStep, UserStep, CcStart, CcRead, CcCompile, CcCreate, CcWrite, CcSeal, RunAsCmd, LdOpen, LdRead, LdDone, CcLeave,
         UserOpen, UserClose, UserFree, UserLeaves, CcAt, At
<1>3. QED BY <1>1, <1>2

\* A step of the shell's own, at whose end no other command is under way.
LEMMA ShellOps ==
  ASSUME PInv, ShellStep \/ BootMount \/ BootAnswer \/ Reset
  PROVE  cmd'.op \in {"none", "boot", "off", "cd", "mount", "unmount", "format", "quit", "reboot"}
<1>1. DOMAIN cmd = {"op", "at", "line", "said", "v"}
  BY DEF PInv, CmdOK
<1>2. CASE Reset \/ BootAnswer \/ Return
  <2>1. cmd' = Does("boot", "load") \/ cmd' = Does("none", "prompt")
    BY <1>2 DEF Reset, BootAnswer, Return, AtPrompt
  <2>2. QED BY <2>1, DoesIs
<1>3. CASE BootMount
  <2>1. cmd' = Does("off", "off") \/ cmd' = Does("none", "prompt") \/ cmd' = Does("boot", "ask")
    <3>1. PICK r \in Outcomes, call \in {"load", "mount"} :
            cmd' = CASE r = "bad" /\ call = "load" -> Does("off", "off")
                     [] mounted' -> AtPrompt
                     [] OTHER -> Does("boot", "ask")
      BY <1>3 DEF BootMount
    <3>2. QED BY <3>1 DEF AtPrompt
  <2>2. QED BY <2>1, DoesIs
<1>4. CASE Cd
  BY <1>1, <1>4 DEF Cd, CdTo, Answers, At
<1>5. CASE Mount
  BY <1>1, <1>5 DEF Mount, Answers, At
<1>6. CASE Unmount
  BY <1>1, <1>6 DEF Unmount, Answers, At
<1>7. CASE Format
  BY <1>1, <1>7 DEF Format, Answers, At
<1>8. CASE Stop
  <2>1. cmd.op \in {"quit", "reboot"} /\ ((\E said : Answers(said)) \/ cmd' = Does("off", "off"))
    BY <1>8 DEF Stop
  <2>2. ASSUME NEW said, Answers(said)
        PROVE  cmd'.op = cmd.op
    BY <1>1, <2>2 DEF Answers
  <2>3. QED BY <2>1, <2>2, DoesIs
<1>9. QED BY <1>2, <1>3, <1>4, <1>5, <1>6, <1>7, <1>8 DEF ShellStep

\* At first no command is under way.
LEMMA StartsUp ==
  Init => cmd.op = "boot"
<1>1. Init => cmd = Does("boot", "load")
  BY DEF Init
<1>2. Does("boot", "load").op = "boot"
  BY DEF Does
<1>3. QED BY <1>1, <1>2

\* The steps at whose end a command is under way: it begins, it stands still, or they are its own.
LEMMA StepsOf ==
  ASSUME PInv, [Next]_vars, cmd'.op \in {"mv", "cp", "mkdir", "rm", "tar", "cc", "run"}
  PROVE  \/ UNCHANGED vars
         \/ Type
         \/ FileStep \/ TarStep \/ CcStep \/ UserStep
<1>1. CASE ShellStep \/ BootMount \/ BootAnswer \/ Reset
  BY <1>1, ShellOps
<1>2. QED BY <1>1 DEF Next, Work

LEMMA SameOp ==
  ASSUME PInv, FileStep \/ TarStep \/ CcStep \/ UserStep, cmd'.op # "off"
  PROVE  cmd'.op = cmd.op /\ Line' = Line /\ Within
BY FileMoves, TarMoves, CcMoves DEF Moves, Line

-----------------------------------------------------------------------------
(* Names: what full_path makes of an argument is what it means, unless the *)
(* text of the working directory has lost its '/' and "../" is asked for.  *)

LEMMA CatNothing ==
  ASSUME NEW s, IsSequence(s)
  PROVE  s \o << >> = s
<1>1. s \in Seq(ToSet(s))
  BY DEF IsSequence
<1>2. QED BY <1>1

LEMMA UpNames ==
  ASSUME PwdOK, sh_pwd.slash
  PROVE  Up.names = IF sh_pwd.names = << >> THEN << >> ELSE Front(sh_pwd.names)
BY DEF Up, PwdOK

LEMMA ResolveIs ==
  ASSUME PwdOK, NEW arg, NEW op, IsArgument(arg, op), ~IsDotDot(arg), TextLeadsUp(arg)
  PROVE  FullPath(arg).names = Resolve(arg)
<1>1. CASE arg.abs
  BY <1>1 DEF FullPath, Resolve
<1>2. CASE ~arg.abs /\ ~arg.up
  BY <1>2 DEF FullPath, Resolve, PwdOK
<1>3. CASE ~arg.abs /\ arg.up
  <2>1. sh_pwd.slash
    BY <1>3 DEF TextLeadsUp
  <2>2. FullPath(arg) = [Up EXCEPT !.names = @ \o arg.names]
    BY <1>3, <2>1 DEF FullPath
  <2>3. FullPath(arg).names = Up.names \o arg.names
    BY <2>2, UpIs
  <2>4. QED BY <1>3, <2>1, <2>3, UpNames DEF Resolve
<1>4. QED BY <1>1, <1>2, <1>3 DEF IsArgument

\* The same, for the arguments of a command that runs.
LEMMA NamedIs ==
  ASSUME PInv, cmd.op \in Commands, cmd.op # "cd", NEW k \in DOMAIN Line.args, TextLeadsUp(Line.args[k])
  PROVE  PathOf(k) = Named(k) /\ IsSequence(PathOf(k))
<1>1. IsSequence(Line.args)
  BY Arguments DEF PInv
<1>2. k \in 1 .. Len(Line.args)
  BY <1>1, SequenceFacts
<1>3. IsArgument(Line.args[k], Line.op) /\ Line.op # "cd"
  BY <1>2 DEF PInv, CmdOK, IsLine
<1>4. ~IsDotDot(Line.args[k])
  BY <1>3 DEF IsArgument, IsDotDot
<1>5. QED BY <1>3, <1>4, ResolveIs, FullPathIs DEF PathOf, Named, PInv

\* cd goes where its argument says.
LEMMA CdGoes ==
  ASSUME PInv, Cd, sh_pwd' # sh_pwd
  PROVE  IF Line.args = << >> THEN sh_pwd' = AtRoot
         ELSE TextLeadsUp(Line.args[1]) =>
                /\ sh_pwd'.names = Named(1)
                /\ IsDir(tree, sh_pwd.names) => IsDir(tree, sh_pwd'.names)
<1> DEFINE arg == Line.args[1]
<1>1. CASE Line.args = << >>
  <2>1. sh_pwd' = AtRoot
    BY <1>1, <1>1 DEF Cd, CdTo
  <2>2. QED BY <1>1, <2>1
<1>2. CASE Line.args # << >>
  <2> SUFFICES ASSUME TextLeadsUp(arg)
               PROVE  /\ sh_pwd'.names = Named(1)
                      /\ IsDir(tree, sh_pwd.names) => IsDir(tree, sh_pwd'.names)
    BY <1>2
  <2>1. cmd.op = "cd"
    BY DEF Cd, At
  <2>2. IsArgument(arg, "cd")
    <3>1. IsLine(Line) /\ Line.op = "cd" /\ IsSequence(Line.args)
      BY <2>1 DEF PInv, CmdOK, Commands, IsLine
    <3>2. 1 \in 1 .. Len(Line.args)
      BY <1>2, <3>1, FrontFacts, SequenceFacts
    <3>3. QED BY <3>1, <3>2 DEF IsLine
  <2>3. CASE IsDotDot(arg)
    <3>1. sh_pwd' = Up
      BY <1>2, <2>3 DEF Cd, CdTo
    <3>2. arg.up /\ ~arg.abs /\ arg.names = << >> /\ sh_pwd.slash /\ IsSequence(sh_pwd.names)
      BY <2>2, <2>3 DEF IsDotDot, IsArgument, TextLeadsUp, PInv, PwdOK
    <3>3. sh_pwd'.names = IF sh_pwd.names = << >> THEN << >> ELSE Front(sh_pwd.names)
      BY <3>1, <3>2, UpNames DEF PInv
    <3>4. Named(1) = (IF sh_pwd.names = << >> THEN << >> ELSE Front(sh_pwd.names)) \o << >>
      BY <3>2 DEF Named, Resolve
    <3>5. CASE sh_pwd.names = << >>
      <4>1. sh_pwd'.names = << >> /\ Named(1) = << >>
        BY <3>3, <3>4, <3>5, NoContent, CatNothing DEF IsContent
      <4>2. QED BY <4>1, <3>5
    <3>6. CASE sh_pwd.names # << >>
      <4>1. IsSequence(Front(sh_pwd.names)) /\ Len(Front(sh_pwd.names)) = Len(sh_pwd.names) - 1
        BY <3>2, <3>6, FrontFacts
      <4>2. sh_pwd'.names = Named(1)
        BY <3>3, <3>4, <3>6, <4>1, CatNothing
      <4>3. ASSUME IsDir(tree, sh_pwd.names)
            PROVE  IsDir(tree, Front(sh_pwd.names))
        <5>1. Len(sh_pwd.names) \in Nat /\ Len(sh_pwd.names) >= 1
          BY <3>2, <3>6, FrontFacts, SequenceFacts
        <5>2. Len(sh_pwd.names) - 1 \in 0 .. Len(sh_pwd.names) - 1
          BY <5>1
        <5>3. IsDir(tree, SubSeq(sh_pwd.names, 1, Len(sh_pwd.names) - 1))
          BY <4>3, <5>2 DEF PInv, TypeOK, WellFormed, IsDir, Exists
        <5>4. QED BY <5>3 DEF Front
      <4>4. QED BY <3>3, <3>6, <4>2, <4>3
    <3>7. QED BY <3>5, <3>6
  <2>4. CASE ~IsDotDot(arg)
    <3>1. sh_pwd' = FullPath(arg) /\ IsDir(tree, PathOf(1))
      BY <1>2, <2>4 DEF Cd, CdTo
    <3>2. FullPath(arg).names = Resolve(arg)
      BY <2>2, <2>4, ResolveIs DEF PInv
    <3>3. QED BY <3>1, <3>2 DEF PathOf, Named
  <2>5. QED BY <2>3, <2>4
<1>3. QED BY <1>1, <1>2

\* Only cd changes the working directory, but for a reset.
LEMMA OnlyCd ==
  ASSUME PInv, [Next]_vars, sh_pwd' # sh_pwd, cmd'.at = "done"
  PROVE  Cd
<1>1. CASE UNCHANGED vars
  BY <1>1 DEF vars
<1>2. CASE Type
  BY <1>2, TypeBegins DEF Begins
<1>3. CASE FileStep \/ TarStep \/ CcStep \/ UserStep
  BY <1>3, FileMoves, TarMoves, CcMoves DEF Within
<1>4. CASE Reset
  <2>1. cmd' = Does("boot", "load")
    BY <1>4 DEF Reset
  <2>2. QED BY <2>1, DoesIs
<1>5. CASE BootMount \/ BootAnswer \/ Return \/ Mount \/ Unmount \/ Format \/ Stop
  BY <1>5 DEF BootMount, BootAnswer, Return, Mount, Unmount, Format, Stop
<1>6. QED BY <1>1, <1>2, <1>3, <1>4, <1>5 DEF Next, Work, ShellStep

\* cd goes where its argument says, or stays; to a directory that exists, unless the one it left was gone.
THEOREM CdCorrect ==
  Spec => CdGoesWhereAsked
<1> DEFINE Goes1 == At("cd", "start") /\ cmd'.at = "done" =>
       IF Line.args = << >> THEN sh_pwd' = AtRoot
       ELSE TextLeadsUp(Line.args[1]) =>
              /\ sh_pwd'.names = Named(1)
              /\ IsDir(tree, sh_pwd.names) => IsDir(tree, sh_pwd'.names)
<1>1. PInv /\ [Next]_vars => [Goes1]_sh_pwd
  BY OnlyCd, CdGoes
<1>2. QED BY <1>1, Invariance, PTL DEF Spec, CdGoesWhereAsked

-----------------------------------------------------------------------------
(* cp: what is written is what was read, and all of it if no read failed.  *)

CopyInv ==
  /\ At("cp", "start") => tree = before
  /\ At("cp", "open") => tree = before /\ IsFile(before, cmd.v.from)
  /\ Copying => IsFile(before, cmd.v.from) /\ CanCreate(before, cmd.v.to) /\ tree = Created(before, cmd.v.to)
  /\ At("cp", "copy") => ~cmd.v.error /\ cmd.v.out \o cmd.v.rest = before[cmd.v.from].data
  /\ At("cp", "close") /\ ~cmd.v.error /\ "read" \notin faulted => cmd.v.out = before[cmd.v.from].data
  /\ CopiedIsCopied

LEMMA CpSteps ==
  ASSUME PInv, [Next]_vars, cmd'.op = "cp"
  PROVE  \/ UNCHANGED vars
         \/ Begins
         \/ Within /\ cmd.op = "cp" /\ (CpStart \/ CpOpen \/ CpBlock \/ CpEof \/ CpClose)
<1>1. CASE FileStep \/ TarStep \/ CcStep \/ UserStep
  <2>1. cmd.op = "cp" /\ Within
    BY <1>1, SameOp
  <2>2. FileStep
    BY <1>1, <2>1, OtherOps
  <2>3. QED BY <2>1, <2>2, FileOps DEF FileStep
<1>2. QED BY <1>1, StepsOf, TypeBegins

\* A block that goes from one sequence to the end of the other.
LEMMA MoveBlock ==
  ASSUME NEW s, NEW t, IsSequence(s), IsSequence(t), t # << >>
  PROVE  Append(s, Head(t)) \o Tail(t) = s \o t
<1> DEFINE T == ToSet(s) \cup ToSet(t)
<1>1. s \in Seq(T) /\ t \in Seq(T)
  BY Common
<1> HIDE DEF T
<1>2. QED BY <1>1

LEMMA CopyStep ==
  ASSUME PInv, CopyInv, [Next]_vars
  PROVE  CopyInv'
<1> SUFFICES ASSUME cmd'.op = "cp" PROVE CopyInv'
  BY DEF CopyInv, CopiedIsCopied, At, Copying
<1>c. CmdOK
  BY DEF PInv
<1>1. CASE UNCHANGED vars
  BY <1>1 DEF vars, CopyInv, CopiedIsCopied, At, Copying, Created, Exists, IsFile, CanCreate, HasPlace, IsDir
<1>2. CASE Begins
  BY <1>2 DEF Begins, CopyInv, CopiedIsCopied, At, Copying
<1>3. CASE Within /\ CpStart /\ cmd.op = "cp"
  <2>1. PICK r \in Outcomes, call \in {"stat", "stat to"} :
          \/ Answers("not found") \/ Answers("can't copy a directory")
          \/ /\ IsFile(tree, PathOf(1))
             /\ Goes("open", [from |-> PathOf(1), to |-> IF r = "bad" THEN PathOf(2) ELSE Target(PathOf(2))])
    BY <1>3 DEF CpStart, check_from_to_parms, IsFile, IsDir
  <2>2. tree' = tree /\ before' = before /\ tree = before
    BY <1>3 DEF CpStart, check_from_to_parms, Within, CopyInv, At
  <2>3. ASSUME NEW said \in {"not found", "can't copy a directory"}, Answers(said)
        PROVE  CopyInv'
    <3>1. cmd'.at = "done" /\ cmd'.said = said
      BY <1>c, <2>3, AnswersIs
    <3>2. said # "copied"
      OBVIOUS
    <3>3. QED BY <3>1, <3>2 DEF CopyInv, CopiedIsCopied, At, Copying
  <2>4. ASSUME IsFile(tree, PathOf(1)), NEW to, Goes("open", [from |-> PathOf(1), to |-> to])
        PROVE  CopyInv'
    <3> DEFINE v == [from |-> PathOf(1), to |-> to]
    <3>0. v.from = PathOf(1)
      OBVIOUS
    <3> HIDE DEF v
    <3>1. cmd'.at = "open" /\ cmd'.v.from = PathOf(1)
      <4>1. Goes("open", v)
        BY <2>4 DEF v
      <4>2. QED BY <1>c, <3>0, <4>1, GoesIs
    <3>2. IsFile(before', cmd'.v.from)
      BY <2>2, <2>4, <3>1
    <3>3. QED BY <2>2, <3>1, <3>2 DEF CopyInv, CopiedIsCopied, At, Copying
  <2>5. QED BY <2>1, <2>3, <2>4
<1>4. CASE Within /\ CpOpen /\ cmd.op = "cp"
  <2>1. before' = before /\ tree = before /\ IsFile(before, cmd.v.from)
    BY <1>4 DEF CpOpen, Within, CopyInv, At
  <2>2. CASE Answers("error opening")
    <3>1. cmd'.at = "done" /\ cmd'.said = "error opening"
      BY <1>c, <2>2, AnswersIs
    <3>2. QED BY <3>1 DEF CopyInv, CopiedIsCopied, At, Copying
  <2> DEFINE v == [from |-> cmd.v.from, to |-> cmd.v.to, rest |-> tree[cmd.v.from].data, out |-> << >>, error |-> FALSE]
  <2>3. CASE CanCreate(tree, cmd.v.to) /\ tree' = Created(tree, cmd.v.to) /\ Goes("copy", v)
    <3>1. v.from = cmd.v.from /\ v.to = cmd.v.to /\ v.rest = before[cmd.v.from].data /\ v.out = << >> /\ ~v.error
      BY <2>1
    <3> HIDE DEF v
    <3>2. cmd'.at = "copy" /\ cmd'.v = v
      BY <1>c, <2>3, GoesIs
    <3>3. IsSequence(before[cmd.v.from].data)
      BY <2>1 DEF PInv, TypeOK, WellFormed, IsFile, Exists, IsNode, IsContent
    <3>4. << >> \o before[cmd.v.from].data = before[cmd.v.from].data
      <4>1. before[cmd.v.from].data \in Seq(ToSet(before[cmd.v.from].data))
        BY <3>3 DEF IsSequence
      <4>2. QED BY <4>1
    <3>5. cmd'.v.out \o cmd'.v.rest = before'[cmd'.v.from].data
      BY <2>1, <3>1, <3>2, <3>4
    <3>6. IsFile(before', cmd'.v.from) /\ CanCreate(before', cmd'.v.to) /\ tree' = Created(before', cmd'.v.to) /\ ~cmd'.v.error
      BY <2>1, <2>3, <3>1, <3>2
    <3>7. QED BY <3>2, <3>5, <3>6 DEF CopyInv, CopiedIsCopied, At, Copying
  <2>4. QED BY <1>4, <2>2, <2>3 DEF CpOpen
<1>5. CASE Within /\ (CpBlock \/ CpEof) /\ cmd.op = "cp"
  <2>1. /\ tree' = tree /\ before' = before /\ ~cmd.v.error /\ cmd.v.out \o cmd.v.rest = before[cmd.v.from].data
        /\ IsFile(before, cmd.v.from) /\ CanCreate(before, cmd.v.to) /\ tree = Created(before, cmd.v.to)
        /\ IsSequence(cmd.v.out) /\ IsSequence(cmd.v.rest)
        /\ DOMAIN cmd.v = {"from", "to", "rest", "out", "error"}
    BY <1>5 DEF CpBlock, CpEof, Within, CopyInv, At, Copying, PInv, CopyOK, IsContent
  <2>2. ASSUME NEW at \in {"copy", "close"}, NEW v, Goes(at, v), v.from = cmd.v.from, v.to = cmd.v.to,
               at = "copy" => ~v.error /\ v.out \o v.rest = before[cmd.v.from].data,
               at = "close" => v.error \/ "read" \in faulted' \/ v.out = before[cmd.v.from].data
        PROVE  CopyInv'
    <3>1. cmd'.at = at /\ cmd'.v = v
      BY <1>c, <2>2, GoesIs
    <3>2. IsFile(before', cmd'.v.from) /\ CanCreate(before', cmd'.v.to) /\ tree' = Created(before', cmd'.v.to)
      BY <2>1, <2>2, <3>1
    <3>3. QED BY <2>1, <2>2, <3>1, <3>2 DEF CopyInv, CopiedIsCopied, At, Copying
  <2>3. CASE CpEof
    <3>1. cmd.v.out \o << >> = cmd.v.out /\ cmd.v.rest = << >> /\ Goes("close", cmd.v)
      BY <2>1, <2>3, CatNothing DEF CpEof
    <3>2. cmd.v.out = before[cmd.v.from].data
      BY <2>1, <3>1
    <3>3. QED BY <2>2, <3>1, <3>2
  <2>4. CASE CpBlock
    <3>1. PICK r \in Outcomes, call \in {"read", "write"} :
            /\ Suffers(r, call)
            /\ IF r = "ok"
               THEN Goes("copy", [cmd.v EXCEPT !.rest = Tail(@), !.out = Append(@, Head(cmd.v.rest))])
               ELSE Goes("close", [cmd.v EXCEPT !.error = Says(call)])
      BY <2>4 DEF CpBlock
    <3>2. cmd.v.rest # << >>
      BY SMTT(40), <2>4 DEF CpBlock
    <3>3. CASE r = "ok"
      <4> DEFINE v == [cmd.v EXCEPT !.rest = Tail(@), !.out = Append(@, Head(cmd.v.rest))]
      <4>1. v.from = cmd.v.from /\ v.to = cmd.v.to /\ (v.error <=> cmd.v.error)
            /\ v.rest = Tail(cmd.v.rest) /\ v.out = Append(cmd.v.out, Head(cmd.v.rest))
        BY <2>1
      <4>2. Goes("copy", v)
        BY SMTT(40), <3>1, <3>3
      <4> HIDE DEF v
      <4>3. v.out \o v.rest = before[cmd.v.from].data
        BY ZenonT(60), <2>1, <3>2, <4>1, MoveBlock
      <4>4. QED BY <2>1, <2>2, <4>1, <4>2, <4>3
    <3>4. CASE r # "ok"
      <4> DEFINE v == [cmd.v EXCEPT !.error = Says(call)]
      <4>1. v.from = cmd.v.from /\ v.to = cmd.v.to /\ (v.error <=> call = "write")
        BY <2>1 DEF Says
      <4>2. Goes("close", v)
        BY <3>1, <3>4
      <4>3. call = "read" => "read" \in faulted'
        BY <3>1, <3>4 DEF Suffers, Outcomes
      <4> HIDE DEF v
      <4>4. QED BY <2>2, <4>1, <4>2, <4>3
    <3>5. QED BY <3>3, <3>4
  <2>5. QED BY SMTT(40), <1>5, <2>3, <2>4
<1>6. CASE Within /\ CpClose /\ cmd.op = "cp"
  <2>1. /\ before' = before /\ IsFile(before, cmd.v.from) /\ CanCreate(before, cmd.v.to) /\ tree = Created(before, cmd.v.to)
        /\ WellFormed(tree) /\ WellFormed(before) /\ IsContent(cmd.v.out) /\ IsSequence(cmd.v.to)
        /\ ~cmd.v.error /\ "read" \notin faulted => cmd.v.out = before[cmd.v.from].data
    BY <1>6 DEF CpClose, Within, CopyInv, At, Copying, PInv, CopyOK, TypeOK
  <2> DEFINE stored == Stored(tree, cmd.v.to, cmd.v.out)
  <2>2. PICK r \in Outcomes, call \in {"close", "getattr", "setattr"} :
          /\ Suffers(r, call)
          /\ r = "ok" /\ ~cmd.v.error => tree' = IF stored[cmd.v.from].exe THEN Marked(stored, cmd.v.to) ELSE stored
    BY <1>6 DEF CpClose
  <2>3. Answers(IF cmd.v.error THEN "error writing" ELSE "copied")
    BY <1>6 DEF CpClose
  <2>4. cmd'.at = "done" /\ cmd'.v = cmd.v /\ (cmd'.said = "copied" => ~cmd.v.error)
    <3> DEFINE said == IF cmd.v.error THEN "error writing" ELSE "copied"
    <3>1. said = "copied" => ~cmd.v.error
      OBVIOUS
    <3>2. Answers(said)
      BY <2>3
    <3> HIDE DEF said
    <3>3. QED BY <1>c, <3>1, <3>2, AnswersIs
  <2>5. ASSUME cmd'.said = "copied", faulted' \subseteq {"stat", "stat to", "open", "write"}
        PROVE  /\ tree'[cmd.v.to].data = before[cmd.v.from].data
               /\ before[cmd.v.from].exe => tree'[cmd.v.to].exe
    <3>1. r = "ok" /\ "read" \notin faulted
      BY <2>2, <2>5 DEF Suffers, Outcomes
    <3>2. ~cmd.v.error /\ cmd.v.out = before[cmd.v.from].data
      BY <2>1, <2>4, <2>5, <3>1
    <3>3. tree' = IF stored[cmd.v.from].exe THEN Marked(stored, cmd.v.to) ELSE stored
      BY <2>2, <3>1, <3>2
    <3>4. IsFile(tree, cmd.v.to)
      BY <2>1, CreatedOK
    <3>5. cmd.v.from \in DOMAIN tree /\ tree[cmd.v.from] = before[cmd.v.from]
      BY <2>1 DEF Created, With, IsFile, Exists
    <3>6. /\ DOMAIN stored = DOMAIN tree /\ WellFormed(stored)
          /\ stored[cmd.v.to].data = cmd.v.out /\ stored[cmd.v.to].dir = tree[cmd.v.to].dir
          /\ stored[cmd.v.from].exe = tree[cmd.v.from].exe
      BY <2>1, <3>4, <3>5, StoredIs, StoredOK DEF IsFile, Exists
    <3> HIDE DEF stored
    <3>7. IsFile(stored, cmd.v.to)
      BY <3>4, <3>6 DEF IsFile, Exists
    <3>8. Marked(stored, cmd.v.to)[cmd.v.to].data = cmd.v.out /\ Marked(stored, cmd.v.to)[cmd.v.to].exe
      BY <3>6, <3>7, MarkedIs DEF IsFile, Exists
    <3>9. QED BY <3>2, <3>3, <3>5, <3>6, <3>8
  <2>6. QED BY <2>1, <2>4, <2>5 DEF CopyInv, CopiedIsCopied, At, Copying
<1>7. QED BY <1>1, <1>2, <1>3, <1>4, <1>5, <1>6, CpSteps

\* A copy reported as made is one, unless a read failed, or a call that cp does not check.
THEOREM CopyCorrect ==
  Spec => []CopiedIsCopied
<1>1. Init => CopyInv
  BY StartsUp DEF CopyInv, CopiedIsCopied, At, Copying
<1>2. PInv /\ CopyInv /\ [Next]_vars => CopyInv'
  BY CopyStep
<1>3. CopyInv => CopiedIsCopied
  BY DEF CopyInv
<1>4. QED BY <1>1, <1>2, <1>3, Invariance, PTL DEF Spec

-----------------------------------------------------------------------------
(* The undefined behaviour of cc and run: what the session knows of the    *)
(* calls that failed.                                                      *)

SlipOK(op, at, v, failed) ==
  /\ op = "run" => ~v.lines
  /\ at \in {"open", "load"} => op = "run"
  /\ at = "compile" => v.base
  /\ v.fd = "closed" => {"read", "write"} \cap failed # {} \/ (op = "run" /\ v.data = << >>)
  /\ v.fd = "unopened" => "open" \in failed
  /\ at \in {"create", "write"} => v.source # {}
  /\ at = "write" => HasOut
  /\ \A b \in v.source : b.relocs \in Nat
SlipInv == InSession => SlipOK(cmd.op, cmd.at, S, faulted) /\ (cmd.at = "read" => IsFile(tree, S.path))
KnownSlips == \A s \in slips' \ slips : Known(s[1])

LEMMA SuffersOnly ==
  ASSUME NEW r \in Outcomes, NEW call, Suffers(r, call)
  PROVE  faulted \subseteq faulted' /\ (r # "ok" => call \in faulted') /\ r \in {"ok", "bad"}
BY DEF Suffers, Outcomes

LEMMA OneSlip ==
  ASSUME NEW what, Slip(what), Known(what)
  PROVE  KnownSlips
<1>1. ASSUME NEW s \in slips' \ slips
      PROVE  Known(s[1])
  <2>1. s = <<what, cmd.op>>
    BY <1>1 DEF Slip
  <2>2. s[1] = what
    BY <2>1
  <2>3. QED BY <2>2
<1>2. QED BY <1>1 DEF KnownSlips

\* The session goes on, or to its way out.
LEMMA SlipGoes ==
  ASSUME PInv, cmd.op \in {"cc", "run"}, NEW at, NEW v, Goes(at, v), SlipOK(cmd.op, at, v, faulted'),
         at = "read" => IsFile(tree', v.path)
  PROVE  SlipInv'
<1>1. CmdOK
  BY DEF PInv
<1>2. cmd'.op = cmd.op /\ cmd'.line = cmd.line /\ cmd'.at = at /\ cmd'.v = v
  BY <1>1, GoesIs
<1>3. (HasOut <=> HasOut')
  BY <1>2 DEF HasOut, Line
<1>4. QED BY <1>2, <1>3 DEF SlipInv, SlipOK, S

LEMMA SlipFatal ==
  ASSUME PInv, cmd.op \in {"cc", "run"}, NEW v, fatal(v), SlipOK(cmd.op, "leave", v, faulted'),
         v.lines /\ ~v.base => Known("null source")
  PROVE  SlipInv' /\ KnownSlips
<1>1. Goes("leave", v)
  BY DEF fatal
<1>2. SlipInv'
  BY <1>1, SlipGoes
<1>3. KnownSlips
  <2>1. CASE v.lines /\ ~v.base
    <3>1. Slip("null source")
      BY <2>1 DEF fatal
    <3>2. QED BY <2>1, <3>1, OneSlip
  <2>2. CASE ~(v.lines /\ ~v.base)
    BY <2>2 DEF fatal, KnownSlips
  <2>3. QED BY <2>1, <2>2
<1>4. QED BY <1>2, <1>3

\* What a session keeps of what was said of it.
LEMMA SlipSame ==
  ASSUME NEW op, NEW at, NEW v, NEW failed, SlipOK(op, at, v, failed),
         NEW w, (w.lines <=> v.lines), w.fd \in {v.fd, "null", "open"}, w.source = v.source, w.data = v.data,
         NEW more, failed \subseteq more
  PROVE  SlipOK(op, "leave", w, more) /\ SlipOK(op, "user", w, more)
<1>1. w.fd = "closed" => {"read", "write"} \cap more # {} \/ (op = "run" /\ w.data = << >>)
  BY DEF SlipOK
<1>2. w.fd = "unopened" => "open" \in more
  BY DEF SlipOK
<1>3. QED BY <1>1, <1>2 DEF SlipOK

\* What is known of a session at its steps.
LEMMA SlipHas ==
  ASSUME PInv, SlipInv, cmd.op \in {"cc", "run"}, cmd.at \notin {"start", "done"}
  PROVE  /\ SlipOK(cmd.op, cmd.at, S, faulted) /\ (cmd.at = "read" => IsFile(tree, S.path))
         /\ SessionOK(S) /\ PlaceOK(cmd.op, cmd.at, S)
BY CcHas DEF SlipInv, InSession

LEMMA CcStartSlips ==
  ASSUME PInv, CcStart
  PROVE  SlipInv' /\ KnownSlips
<1> DEFINE v == [Session("cc") EXCEPT !.mem = {"tables"}, !.path = PathOf(1)]
           lost == [v EXCEPT !.mem = @ \cup {"name"}]
           opened == [v EXCEPT !.mem = @ \cup {"fd"}, !.fd = "open"]
<1>1. /\ cmd.op = "cc" /\ tree' = tree
      /\ fatal(lost) \/ (IsFile(tree, PathOf(1)) /\ Goes("read", opened) /\ UNCHANGED slips)
  BY DEF CcStart, At
<1>2. v.path = PathOf(1) /\ ~v.lines /\ v.fd = "null" /\ v.source = {} /\ DOMAIN v = {"op", "fd", "path", "mem", "list", "freed", "lines", "base", "source", "out", "data"}
  BY DEF Session
<1> HIDE DEF v
<1>3. ~lost.lines /\ lost.fd = "null" /\ lost.source = {} /\ ~opened.lines /\ opened.fd = "open" /\ opened.source = {}
      /\ opened.path = PathOf(1)
  BY <1>2
<1> HIDE DEF lost, opened
<1>4. SlipOK(cmd.op, "leave", lost, faulted') /\ SlipOK(cmd.op, "read", opened, faulted')
  BY <1>1, <1>3 DEF SlipOK
<1>5. CASE fatal(lost)
  BY <1>1, <1>3, <1>4, <1>5, SlipFatal
<1>6. CASE IsFile(tree, PathOf(1)) /\ Goes("read", opened) /\ UNCHANGED slips
  <2>1. IsFile(tree', opened.path)
    BY <1>1, <1>3, <1>6
  <2>2. SlipInv'
    BY <1>1, <1>4, <1>6, <2>1, SlipGoes
  <2>3. QED BY <1>6, <2>2 DEF KnownSlips
<1>7. QED BY <1>1, <1>5, <1>6

LEMMA CcReadSlips ==
  ASSUME PInv, SlipInv, CcRead
  PROVE  SlipInv' /\ KnownSlips
<1>1. cmd.op \in {"cc", "run"} /\ cmd.at = "read"
  BY DEF CcRead, CcAt
<1>2. SlipOK(cmd.op, "read", S, faulted) /\ SessionOK(S) /\ cmd.op = "cc" /\ WellFormed(tree)
  BY <1>1, SlipHas, CcHas DEF PlaceOK
<1>s. IsContent(tree[S.path].data)
  BY <1>1, <1>2, SlipHas DEF WellFormed, IsNode, IsFile, Exists
<1> DEFINE sources == {b \in ToSet(tree[S.path].data) : IsSource(b)}
           lost == [S EXCEPT !.mem = @ \cup {"source"}]
           got == [S EXCEPT !.mem = (@ \ {"fd"}) \cup {"source"}, !.fd = "null", !.base = TRUE, !.source = sources]
<1>3. PICK r \in Outcomes :
        /\ Suffers(r, "read")
        /\ \/ r = "bad" /\ fatal(lost)
           \/ Goes("compile", got) /\ UNCHANGED slips
  BY DEF CcRead
<1>4. faulted \subseteq faulted' /\ (r # "ok" => "read" \in faulted')
  BY <1>3, SuffersOnly
<1> HIDE DEF sources
<1>5. (lost.lines <=> S.lines) /\ lost.fd = S.fd /\ lost.source = S.source /\ lost.data = S.data
  BY <1>2 DEF SessionOK
<1>6. got.fd = "null" /\ got.source = sources /\ got.base
  BY <1>2 DEF SessionOK
<1> HIDE DEF lost, got
<1>7. CASE r = "bad" /\ fatal(lost)
  <2>1. SlipOK(cmd.op, "leave", lost, faulted')
    BY <1>2, <1>4, <1>5, SlipSame
  <2>2. Known("null source")
    BY <1>4, <1>7 DEF Known
  <2>3. QED BY <1>1, <1>7, <2>1, <2>2, SlipFatal
<1>8. CASE Goes("compile", got) /\ UNCHANGED slips
  <2>1. \A b \in sources : b.relocs \in Nat
    <3>1. \A k \in DOMAIN tree[S.path].data : IsBlock(tree[S.path].data[k])
      BY <1>s, SequenceFacts DEF IsContent
    <3>2. QED BY <3>1 DEF sources, ToSet, IsBlock
  <2>2. SlipOK(cmd.op, "compile", got, faulted')
    BY <1>2, <1>6, <2>1 DEF SlipOK
  <2>3. SlipInv'
    BY <1>1, <1>8, <2>2, SlipGoes
  <2>4. QED BY <1>8, <2>3 DEF KnownSlips
<1>9. QED BY <1>3, <1>7, <1>8

\* A step that changes neither what the session knows nor, with one exception, what slips.
LEMMA SlipPlain ==
  ASSUME PInv, SlipInv, cmd.op \in {"cc", "run"}, cmd.at \notin {"start", "done"}, faulted \subseteq faulted',
         NEW v, (v.lines <=> S.lines), v.fd \in {S.fd, "null", "open"}, v.source = S.source, v.data = S.data,
         Goes("leave", v) \/ Goes("user", v), UNCHANGED slips
  PROVE  SlipInv' /\ KnownSlips
<1>1. SlipOK(cmd.op, "leave", v, faulted') /\ SlipOK(cmd.op, "user", v, faulted')
  BY SlipHas, SlipSame
<1>2. CASE Goes("leave", v)
  BY <1>1, <1>2, SlipGoes DEF KnownSlips
<1>3. CASE Goes("user", v)
  BY <1>1, <1>3, SlipGoes DEF KnownSlips
<1>4. QED BY <1>2, <1>3

\* fatal after a call that failed.
LEMMA SlipFails ==
  ASSUME PInv, SlipInv, cmd.op \in {"cc", "run"}, cmd.at \notin {"start", "done"}, faulted \subseteq faulted', faulted' # {},
         NEW v, (v.lines <=> S.lines), v.fd \in {S.fd, "null", "open"}, v.source = S.source, v.data = S.data,
         fatal(v)
  PROVE  SlipInv' /\ KnownSlips
<1>1. SlipOK(cmd.op, "leave", v, faulted')
  BY SlipHas, SlipSame
<1>2. Known("null source")
  BY DEF Known
<1>3. QED BY <1>1, <1>2, SlipFatal

LEMMA CcCompileSlips ==
  ASSUME PInv, SlipInv, CcCompile
  PROVE  SlipInv' /\ KnownSlips
<1>1. cmd.op \in {"cc", "run"} /\ cmd.at = "compile" /\ faulted' = faulted
  BY DEF CcCompile, CcAt, Quietly
<1>2. SlipOK(cmd.op, "compile", S, faulted) /\ SessionOK(S) /\ cmd.op = "cc"
  BY <1>1, SlipHas DEF PlaceOK
<1> DEFINE v == [S EXCEPT !.lines = TRUE]
           bare == [v EXCEPT !.mem = {}, !.base = FALSE]
<1>3. \/ fatal(v)
      \/ ~Program.main /\ fatal(bare)
      \/ /\ S.source # {} /\ UNCHANGED slips
         /\ (HasOut /\ Goes("create", bare)) \/ Goes("user", bare)
  <2>1. v.source = S.source
    BY <1>2 DEF SessionOK
  <2>2. IF S.source = {} \/ ~Program.good THEN fatal(v)
        ELSE IF ~Program.main THEN fatal(bare)
        ELSE Goes(IF HasOut THEN "create" ELSE "user", bare) /\ UNCHANGED slips
    BY <2>1 DEF CcCompile
  <2> HIDE DEF v, bare
  <2>3. QED BY <2>2
<1>4. v.fd = S.fd /\ v.source = S.source /\ v.data = S.data /\ (v.base <=> S.base)
  BY <1>2 DEF SessionOK
<1>5. bare.fd = S.fd /\ bare.source = S.source /\ bare.data = S.data
  BY <1>2 DEF SessionOK
<1> HIDE DEF v, bare
<1>6. v.base /\ SlipOK(cmd.op, "leave", v, faulted')
  BY <1>1, <1>2, <1>4 DEF SlipOK
<1>7. SlipOK(cmd.op, "leave", bare, faulted') /\ SlipOK(cmd.op, "user", bare, faulted')
      /\ (S.source # {} => SlipOK(cmd.op, "create", bare, faulted'))
  BY <1>1, <1>2, <1>5 DEF SlipOK
<1>8. CASE fatal(v)
  BY <1>1, <1>6, <1>8, SlipFatal
<1>9. CASE ~Program.main /\ fatal(bare)
  BY <1>1, <1>7, <1>9, SlipFatal DEF Known
<1>10. ASSUME NEW at \in {"create", "user"}, S.source # {}, Goes(at, bare), UNCHANGED slips
       PROVE  SlipInv' /\ KnownSlips
  <2>1. SlipInv'
    BY <1>1, <1>7, <1>10, SlipGoes
  <2>2. QED BY <1>10, <2>1 DEF KnownSlips
<1>11. QED BY <1>3, <1>8, <1>9, <1>10

LEMMA CcCreateSlips ==
  ASSUME PInv, SlipInv, CcCreate
  PROVE  SlipInv' /\ KnownSlips
<1>1. cmd.op \in {"cc", "run"} /\ cmd.at = "create"
  BY DEF CcCreate, CcAt
<1>2. SlipOK(cmd.op, "create", S, faulted) /\ SessionOK(S) /\ cmd.op = "cc" /\ HasOut
  BY <1>1, SlipHas DEF PlaceOK
<1> DEFINE v == [S EXCEPT !.fd = "open", !.path = PathOf(2), !.mem = @ \cup {"fd"}]
<1>3. PICK r \in Outcomes :
        /\ Suffers(r, "open")
        /\ \/ (r = "bad" \/ ~CanCreate(tree, PathOf(2))) /\ fatal(S)
           \/ Goes("write", v) /\ UNCHANGED slips
  BY DEF CcCreate
<1>4. faulted \subseteq faulted' /\ (r # "ok" => "open" \in faulted')
  BY <1>3, SuffersOnly
<1>5. (v.lines <=> S.lines) /\ v.fd = "open" /\ v.source = S.source
  BY <1>2 DEF SessionOK
<1> HIDE DEF v
<1>6. CASE (r = "bad" \/ ~CanCreate(tree, PathOf(2))) /\ fatal(S)
  <2>1. SlipOK(cmd.op, "leave", S, faulted')
    BY <1>2, <1>4, SlipSame
  <2>2. Known("null source")
    BY <1>2, <1>4, <1>6 DEF Known
  <2>3. QED BY <1>1, <1>6, <2>1, <2>2, SlipFatal
<1>7. CASE Goes("write", v) /\ UNCHANGED slips
  <2>1. SlipOK(cmd.op, "write", v, faulted')
    BY <1>2, <1>5 DEF SlipOK
  <2>2. SlipInv'
    BY <1>1, <1>7, <2>1, SlipGoes
  <2>3. QED BY <1>7, <2>2 DEF KnownSlips
<1>8. QED BY <1>3, <1>6, <1>7

LEMMA CcWriteSlips ==
  ASSUME PInv, SlipInv, CcWrite
  PROVE  SlipInv' /\ KnownSlips
<1>1. cmd.op \in {"cc", "run"} /\ cmd.at = "write" /\ Len(S.out) < Len(Image(Program))
  BY DEF CcWrite, CcAt
<1>2. SlipOK(cmd.op, "write", S, faulted) /\ SessionOK(S) /\ cmd.op = "cc"
  BY <1>1, SlipHas DEF PlaceOK
<1> DEFINE k == Len(S.out) + 1
           v == [S EXCEPT !.out = Append(@, Segment(Program, k))]
           lost == [S EXCEPT !.fd = "closed"]
<1>3. PICK r \in Outcomes :
        /\ Suffers(r, "write")
        /\ \/ r = "bad" /\ fatal(lost)
           \/ Goes("write", v) /\ UNCHANGED slips
           \/ ~(k <= 3) /\ Slip("freed relocation") /\ (Goes("leave", v) \/ cmd' = Does("off", "off"))
  <2>1. PICK r \in Outcomes :
          /\ Suffers(r, "write")
          /\ IF r = "bad" THEN fatal(lost)
             ELSE IF k <= 3 THEN Goes("write", v) /\ UNCHANGED slips
                  ELSE Slip("freed relocation") /\ (Goes("leave", v) \/ cmd' = Does("off", "off"))
    BY DEF CcWrite
  <2> HIDE DEF k, v, lost
  <2>2. QED BY <2>1
<1>4. faulted \subseteq faulted' /\ (r = "bad" => "write" \in faulted')
  BY <1>3, SuffersOnly
<1>5. (lost.lines <=> S.lines) /\ lost.fd = "closed" /\ lost.source = S.source /\ lost.data = S.data
  BY <1>2 DEF SessionOK
<1>6. (v.lines <=> S.lines) /\ v.fd = S.fd /\ v.source = S.source /\ v.data = S.data
  BY <1>2 DEF SessionOK
<1> HIDE DEF v, lost
<1>7. CASE r = "bad" /\ fatal(lost)
  <2>1. SlipOK(cmd.op, "leave", lost, faulted')
    BY <1>2, <1>4, <1>5, <1>7 DEF SlipOK
  <2>2. Known("null source")
    BY <1>4, <1>7 DEF Known
  <2>3. QED BY <1>1, <1>7, <2>1, <2>2, SlipFatal
<1>8. SlipOK(cmd.op, "write", v, faulted') /\ SlipOK(cmd.op, "leave", v, faulted')
  <2>1. S.fd = "closed" => {"read", "write"} \cap faulted' # {} \/ (cmd.op = "run" /\ S.data = << >>)
    BY <1>2, <1>4 DEF SlipOK
  <2>2. QED BY <1>2, <1>4, <1>6, <2>1 DEF SlipOK
<1>9. CASE Goes("write", v) /\ UNCHANGED slips
  <2>1. SlipInv'
    BY <1>1, <1>8, <1>9, SlipGoes
  <2>2. QED BY <1>9, <2>1 DEF KnownSlips
<1>10. ASSUME ~(k <= 3), Slip("freed relocation"), Goes("leave", v) \/ cmd' = Does("off", "off")
       PROVE  SlipInv' /\ KnownSlips
  <2>1. Program \in S.source
    BY <1>2 DEF SlipOK, Program
  <2>2. Program.relocs \in Nat
    BY <1>2, <2>1 DEF SlipOK
  <2>3. Len(Image(Program)) = 3 + Program.relocs
    <3>1. DOMAIN Image(Program) = 1 .. 3 + Program.relocs
      BY DEF Image
    <3>2. 3 + Program.relocs \in Nat
      BY <2>2
    <3>3. QED BY <3>1, <3>2, OfFunction DEF Image
  <2>4. Program.relocs > 0 /\ HasOut
    <3>1. Len(S.out) \in Nat
      BY <1>2, SequenceFacts DEF SessionOK, IsContent
    <3>2. HasOut
      BY <1>2 DEF SlipOK
    <3>3. Program.relocs > 0
      <4>1. ~(Len(S.out) + 1 <= 3) /\ Len(S.out) < 3 + Program.relocs
        BY <1>1, <1>10, <2>3
      <4>2. QED BY <2>2, <3>1, <4>1
    <3>4. QED BY <3>2, <3>3
  <2>5. Known("freed relocation")
    BY <2>4 DEF Known
  <2>6. KnownSlips
    BY <1>10, <2>5, OneSlip
  <2>7. SlipInv'
    <3>1. CASE Goes("leave", v)
      BY <1>1, <1>8, <3>1, SlipGoes
    <3>2. CASE cmd' = Does("off", "off")
      BY <3>2, DoesIs DEF SlipInv, InSession
    <3>3. QED BY <1>10, <3>1, <3>2
  <2>8. QED BY <2>6, <2>7
<1>11. QED BY <1>3, <1>7, <1>9, <1>10

LEMMA CcSealSlips ==
  ASSUME PInv, SlipInv, CcSeal
  PROVE  SlipInv' /\ KnownSlips
<1>1. cmd.op \in {"cc", "run"} /\ cmd.at = "write"
  BY DEF CcSeal, CcAt
<1>2. SessionOK(S)
  BY <1>1, SlipHas
<1> DEFINE v == [S EXCEPT !.fd = "null", !.mem = {}]
<1>3. PICK r \in Outcomes, call \in {"close", "setattr"} :
        /\ Suffers(r, call)
        /\ \/ r = "bad" /\ fatal(v)
           \/ Goes("leave", v) /\ UNCHANGED slips
  BY DEF CcSeal
<1>4. faulted \subseteq faulted' /\ (r # "ok" => call \in faulted')
  BY <1>3, SuffersOnly
<1>5. (v.lines <=> S.lines) /\ v.fd = "null" /\ v.source = S.source /\ v.data = S.data
  BY <1>2 DEF SessionOK
<1> HIDE DEF v
<1>6. CASE r = "bad" /\ fatal(v)
  BY <1>1, <1>4, <1>5, <1>6, SlipFails
<1>7. CASE Goes("leave", v) /\ UNCHANGED slips
  BY <1>1, <1>4, <1>5, <1>7, SlipPlain
<1>8. QED BY <1>3, <1>6, <1>7

LEMMA RunAsCmdSlips ==
  ASSUME PInv, RunAsCmd
  PROVE  SlipInv' /\ KnownSlips
<1>1. cmd.op = "run" /\ slips' = slips
  BY DEF RunAsCmd, At
<1>2. PICK v : /\ v \in {[Session("run") EXCEPT !.path = PathOf(1)], [Session("run") EXCEPT !.path = InBin(Line.args[1])]}
               /\ Goes("open", v) \/ Answers("unknown command")
  BY DEF RunAsCmd
<1>3. ~v.lines /\ v.fd = "null" /\ v.source = {}
  BY <1>2 DEF Session
<1>4. SlipOK(cmd.op, "open", v, faulted')
  BY <1>1, <1>3 DEF SlipOK
<1>5. CASE Goes("open", v)
  BY <1>1, <1>4, <1>5, SlipGoes DEF KnownSlips
<1>6. CASE Answers("unknown command")
  <2>1. CmdOK
    BY DEF PInv
  <2>2. cmd'.at = "done"
    BY <1>6, <2>1, AnswersIs
  <2>3. QED BY <1>1, <2>2 DEF SlipInv, InSession, KnownSlips
<1>7. QED BY <1>2, <1>5, <1>6

LEMMA LdOpenSlips ==
  ASSUME PInv, SlipInv, LdOpen
  PROVE  SlipInv' /\ KnownSlips
<1>1. cmd.op \in {"cc", "run"} /\ cmd.at = "open"
  BY DEF LdOpen, CcAt
<1>2. SlipOK(cmd.op, "open", S, faulted) /\ SessionOK(S) /\ S.fd = "null" /\ cmd.op = "run"
  BY <1>1, SlipHas DEF PlaceOK, SlipOK
<1> DEFINE v == [S EXCEPT !.mem = {"fd"}]
           lost == [v EXCEPT !.fd = "unopened"]
           got == [v EXCEPT !.fd = "open", !.data = tree[S.path].data]
<1>3. PICK r \in Outcomes, call \in {"getattr", "open"} :
        /\ Suffers(r, call)
        /\ IF r = "bad" /\ call = "getattr" THEN fatal(S)
           ELSE IF r = "bad" THEN fatal(lost)
           ELSE Goes("load", got) /\ UNCHANGED slips
  BY DEF LdOpen
<1>4. faulted \subseteq faulted' /\ (r # "ok" => call \in faulted')
  BY <1>3, SuffersOnly
<1>5. (lost.lines <=> S.lines) /\ lost.fd = "unopened" /\ lost.source = S.source /\ lost.data = S.data
  BY <1>2 DEF SessionOK
<1>6. (got.lines <=> S.lines) /\ got.fd = "open" /\ got.source = S.source
  BY <1>2 DEF SessionOK
<1> HIDE DEF lost, got
<1>7. CASE r = "bad" /\ call = "getattr"
  BY <1>1, <1>3, <1>4, <1>7, SlipFails
<1>8. CASE r = "bad" /\ call = "open"
  <2>1. SlipOK(cmd.op, "leave", lost, faulted')
    BY <1>2, <1>4, <1>5, <1>8 DEF SlipOK
  <2>2. Known("null source")
    BY <1>4, <1>8 DEF Known
  <2>3. fatal(lost)
    BY <1>3, <1>8
  <2>4. QED BY <1>1, <2>1, <2>2, <2>3, SlipFatal
<1>9. CASE r # "bad"
  <2>1. SlipOK(cmd.op, "load", got, faulted')
    BY <1>2, <1>6 DEF SlipOK
  <2>2. Goes("load", got) /\ UNCHANGED slips
    BY <1>3, <1>9
  <2>3. SlipInv'
    BY <1>1, <2>1, <2>2, SlipGoes
  <2>4. QED BY <2>2, <2>3 DEF KnownSlips
<1>10. QED BY <1>7, <1>8, <1>9

LEMMA LdReadSlips ==
  ASSUME PInv, SlipInv, LdRead
  PROVE  SlipInv' /\ KnownSlips
<1>1. cmd.op \in {"cc", "run"} /\ cmd.at = "load"
  BY DEF LdRead, CcAt
<1>2. SlipOK(cmd.op, "load", S, faulted) /\ SessionOK(S) /\ cmd.op = "run"
  BY <1>1, SlipHas DEF PlaceOK, SlipOK
<1>3. Len(S.out) \in Nat /\ Len(S.data) \in Nat /\ IsSequence(S.data)
  BY <1>2, SequenceFacts DEF SessionOK, IsContent
<1> DEFINE k == Len(S.out) + 1
           lost == [S EXCEPT !.fd = IF k = 1 THEN "closed" ELSE "null"]
           got == [S EXCEPT !.out = Append(@, S.data[k])]
<1>4. PICK r \in Outcomes :
        /\ Suffers(r, "read")
        /\ \/ (r = "bad" \/ k > Len(S.data)) /\ fatal(lost)
           \/ fatal(S)
           \/ Goes("load", got) /\ UNCHANGED slips
  <2>1. PICK r \in Outcomes :
          /\ Suffers(r, "read")
          /\ IF r = "bad" \/ k > Len(S.data) THEN fatal(lost)
             ELSE fatal(S) \/ (Goes("load", got) /\ UNCHANGED slips)
    BY DEF LdRead
  <2> HIDE DEF k, lost, got
  <2>2. QED BY <2>1
<1>5. faulted \subseteq faulted' /\ (r # "ok" => "read" \in faulted')
  BY <1>4, SuffersOnly
<1>6. (lost.lines <=> S.lines) /\ lost.fd = (IF k = 1 THEN "closed" ELSE "null") /\ lost.source = S.source /\ lost.data = S.data
  BY <1>2 DEF SessionOK
<1>7. (got.lines <=> S.lines) /\ got.fd = S.fd /\ got.source = S.source /\ got.data = S.data
  BY <1>2 DEF SessionOK
<1> HIDE DEF lost, got
<1>8. ~S.lines
  BY <1>2 DEF SlipOK
<1>9. CASE (r = "bad" \/ k > Len(S.data)) /\ fatal(lost)
  <2>1. lost.fd = "closed" => {"read", "write"} \cap faulted' # {} \/ lost.data = << >>
    <3>1. CASE r = "bad"
      BY <1>5, <3>1
    <3>2. CASE k = 1 /\ k > Len(S.data)
      <4>1. Len(S.data) = 0
        BY <1>3, <3>2
      <4>2. S.data = << >>
        <5>1. S.data \in Seq(ToSet(S.data))
          BY <1>3 DEF IsSequence
        <5>2. QED BY <4>1, <5>1
      <4>3. QED BY <1>6, <4>2
    <3>3. QED BY <1>6, <1>9, <3>1, <3>2
  <2>2. lost.fd # "unopened"
    BY <1>6
  <2>3. SlipOK(cmd.op, "leave", lost, faulted')
    BY <1>2, <1>6, <2>1, <2>2 DEF SlipOK
  <2>4. QED BY <1>1, <1>6, <1>8, <1>9, <2>3, SlipFatal
<1>10. CASE fatal(S)
  <2>1. SlipOK(cmd.op, "leave", S, faulted')
    BY <1>2, <1>5, SlipSame
  <2>2. QED BY <1>1, <1>8, <1>10, <2>1, SlipFatal
<1>11. CASE Goes("load", got) /\ UNCHANGED slips
  <2>1. SlipOK(cmd.op, "load", got, faulted')
    <3>1. SlipOK(cmd.op, "leave", got, faulted')
      BY <1>2, <1>5, <1>7, SlipSame
    <3>2. QED BY <1>2, <3>1 DEF SlipOK
  <2>2. SlipInv'
    BY <1>1, <1>11, <2>1, SlipGoes
  <2>3. QED BY <1>11, <2>2 DEF KnownSlips
<1>12. QED BY <1>4, <1>9, <1>10, <1>11

LEMMA UserSlips ==
  ASSUME PInv, SlipInv, LdDone \/ UserStep
  PROVE  SlipInv' /\ KnownSlips
<1>1. cmd.op \in {"cc", "run"} /\ cmd.at \notin {"start", "done"}
  BY DEF LdDone, UserStep, UserOpen, UserClose, UserFree, UserLeaves, CcAt
<1>2. SlipOK(cmd.op, cmd.at, S, faulted) /\ SessionOK(S)
  BY <1>1, SlipHas
<1>3. CASE LdDone
  <2> DEFINE v == [S EXCEPT !.fd = "null", !.mem = {}]
  <2>1. Goes("user", v) /\ UNCHANGED slips /\ faulted' = faulted
    BY <1>3 DEF LdDone, Quietly
  <2>2. (v.lines <=> S.lines) /\ v.fd = "null" /\ v.source = S.source /\ v.data = S.data
    BY <1>2 DEF SessionOK
  <2> HIDE DEF v
  <2>3. QED BY <1>1, <2>1, <2>2, SlipPlain
<1>4. CASE UserOpen
  <2>1. PICK h \in Handles, r \in Outcomes :
          /\ Suffers(r, "user open") /\ UNCHANGED slips
          /\ \/ UNCHANGED cmd
             \/ Goes("user", [S EXCEPT !.list = <<h>> \o @, !.mem = @ \cup {h}])
    BY <1>4 DEF UserOpen
  <2>2. faulted \subseteq faulted'
    BY <2>1, SuffersOnly
  <2> DEFINE v == [S EXCEPT !.list = <<h>> \o @, !.mem = @ \cup {h}]
  <2>3. (v.lines <=> S.lines) /\ v.fd = S.fd /\ v.source = S.source /\ v.data = S.data
    BY <1>2 DEF SessionOK
  <2>4. CASE Goes("user", v)
    <3> HIDE DEF v
    <3>1. QED BY <1>1, <2>1, <2>2, <2>3, <2>4, SlipPlain
  <2>5. CASE UNCHANGED cmd
    <3>1. cmd.at = "user"
      BY <1>4 DEF UserOpen, CcAt
    <3>2. SlipOK(cmd.op, "user", S, faulted')
      BY <1>2, <2>2, SlipSame
    <3>3. QED BY <2>1, <2>5, <3>1, <3>2 DEF SlipInv, SlipOK, S, HasOut, Line, KnownSlips
  <2>6. QED BY <2>1, <2>4, <2>5
<1>5. CASE UserClose
  <2>1. PICK k \in DOMAIN S.list :
          /\ Goes(IF S.list[k] \in S.freed THEN "leave" ELSE "user", [S EXCEPT !.list = RemoveAt(@, k), !.mem = @ \ {S.list[k]}])
          /\ IF S.list[k] \in S.freed THEN Slip("freed handle") ELSE UNCHANGED slips
    BY <1>5 DEF UserClose
  <2>2. faulted' = faulted
    BY <1>5 DEF UserClose, Quietly
  <2> DEFINE h == S.list[k]
             at == IF h \in S.freed THEN "leave" ELSE "user"
             v == [S EXCEPT !.list = RemoveAt(@, k), !.mem = @ \ {h}]
  <2>3. (v.lines <=> S.lines) /\ v.fd = S.fd /\ v.source = S.source /\ v.data = S.data
    BY <1>2 DEF SessionOK
  <2>4. Goes(at, v) /\ at \in {"leave", "user"}
    BY <2>1
  <2> HIDE DEF v, at
  <2>5. SlipInv'
    <3>1. SlipOK(cmd.op, "leave", v, faulted') /\ SlipOK(cmd.op, "user", v, faulted')
      BY <1>2, <2>2, <2>3, SlipSame
    <3>2. SlipOK(cmd.op, at, v, faulted') /\ at # "read"
      BY <2>4, <3>1
    <3>3. QED BY <1>1, <2>4, <3>2, SlipGoes
  <2>6. KnownSlips
    <3>1. CASE h \in S.freed /\ Slip("freed handle")
      <4>1. Known("freed handle")
        BY <3>1 DEF Known
      <4>2. QED BY <3>1, <4>1, OneSlip
    <3>2. QED BY <2>1, <3>1 DEF KnownSlips
  <2>7. QED BY <2>5, <2>6
<1>6. CASE UserFree
  <2>1. PICK h : Goes("user", [S EXCEPT !.mem = @ \ {h}, !.freed = @ \cup {h}])
    BY <1>6 DEF UserFree
  <2>2. UNCHANGED slips /\ faulted' = faulted
    BY <1>6 DEF UserFree, Quietly
  <2> DEFINE v == [S EXCEPT !.mem = @ \ {h}, !.freed = @ \cup {h}]
  <2>3. (v.lines <=> S.lines) /\ v.fd = S.fd /\ v.source = S.source /\ v.data = S.data
    BY <1>2 DEF SessionOK
  <2>4. Goes("user", v)
    BY <2>1
  <2> HIDE DEF v
  <2>5. QED BY <1>1, <2>2, <2>3, <2>4, SlipPlain
<1>7. CASE UserLeaves
  <2>1. faulted' = faulted /\ ((Goes("leave", S) /\ UNCHANGED slips) \/ (S.list # << >> /\ fatal(S)))
    BY <1>7 DEF UserLeaves, Quietly
  <2>2. CASE Goes("leave", S) /\ UNCHANGED slips
    BY <1>1, <2>1, <2>2, SlipPlain
  <2>3. CASE S.list # << >> /\ fatal(S)
    <3>1. SlipOK(cmd.op, "leave", S, faulted')
      BY <1>2, <2>1, SlipSame
    <3>2. Known("null source")
      BY <2>3 DEF Known
    <3>3. QED BY <1>1, <2>3, <3>1, <3>2, SlipFatal
  <2>4. QED BY <2>1, <2>2, <2>3
<1>8. QED BY SMTT(40), <1>3, <1>4, <1>5, <1>6, <1>7 DEF UserStep

LEMMA CcLeaveSlips ==
  ASSUME PInv, SlipInv, CcLeave
  PROVE  SlipInv' /\ KnownSlips
<1>1. cmd.op \in {"cc", "run"} /\ cmd.at = "leave"
  BY DEF CcLeave, CcAt
<1>2. SlipOK(cmd.op, "leave", S, faulted)
  BY <1>1, SlipHas
<1>3. cmd'.at = "done"
  BY DEF CcLeave, PInv, CmdOK
<1> DEFINE wrong == (CASE S.fd = "closed" -> {"closed twice"}
                       [] S.fd = "unopened" -> {"closed unopened"}
                       [] OTHER -> {})
                    \cup (IF ToSet(S.list) \cap S.freed # {} THEN {"freed handle"} ELSE {})
<1>4. slips' = slips \cup {<<w, cmd.op>> : w \in wrong}
  BY DEF CcLeave
<1>5. ASSUME NEW w \in wrong
      PROVE  Known(w)
  <2>1. CASE w = "closed twice" /\ S.fd = "closed"
    BY <1>1, <1>2, <2>1 DEF SlipOK, Known
  <2>2. CASE w = "closed unopened" /\ S.fd = "unopened"
    BY <1>2, <2>2 DEF SlipOK, Known
  <2>3. CASE w = "freed handle" /\ ToSet(S.list) \cap S.freed # {}
    BY <2>3 DEF Known
  <2>4. QED BY <1>5, <2>1, <2>2, <2>3
<1> HIDE DEF wrong
<1>6. KnownSlips
  <2>1. ASSUME NEW s \in slips' \ slips
        PROVE  Known(s[1])
    <3>1. PICK w \in wrong : s = <<w, cmd.op>>
      BY <1>4, <2>1
    <3>2. s[1] = w
      BY <3>1
    <3>3. QED BY <1>5, <3>2
  <2>2. QED BY <2>1 DEF KnownSlips
<1>7. QED BY <1>3, <1>6 DEF SlipInv, InSession

LEMMA CcSlips ==
  ASSUME PInv, SlipInv, CcStep \/ UserStep
  PROVE  SlipInv' /\ KnownSlips
BY CcStartSlips, CcReadSlips, CcCompileSlips, CcCreateSlips, CcWriteSlips, CcSealSlips, RunAsCmdSlips, LdOpenSlips,
   LdReadSlips, UserSlips, CcLeaveSlips DEF CcStep

\* The other steps that can slip: a command on no file system, and rm that cannot open a directory.
LEMMA OtherSlips ==
  ASSUME PInv, Type \/ RmCount
  PROVE  KnownSlips
<1>1. CASE RmCount
  <2>1. PICK r \in Outcomes, call \in {"open", "read"} :
          /\ Suffers(r, call)
          /\ IF r = "bad" /\ call = "open" THEN Slip("unopened") ELSE UNCHANGED slips
    BY <1>1 DEF RmCount
  <2>2. CASE r = "bad" /\ call = "open"
    <3>1. cmd.op = "rm" /\ "open" \in faulted'
      BY <1>1, <2>1, <2>2, FileOps, SuffersOnly
    <3>2. Known("unopened")
      BY <3>1 DEF Known
    <3>3. QED BY <2>1, <2>2, <3>2, OneSlip
  <2>3. QED BY <2>1, <2>2 DEF KnownSlips
<1>2. CASE Type
  <2>1. PICK line \in Scenes[scene].lines : Enter(line)
    BY <1>2 DEF Type
  <2>2. cmd.op = "none"
    BY <1>2, TypeBegins DEF Begins
  <2>3. SUFFICES ASSUME slips' # slips
                 PROVE  KnownSlips
    BY DEF KnownSlips
  <2>4. line.op \in Commands
    <3>1. IsLine(line)
      BY <2>1, ScenesAssumption DEF PInv, TypeOK
    <3>2. QED BY <3>1 DEF IsLine
  <2>5. ~bad_mount(line.op) /\ ~mounted /\ line.op \notin NeedsUnmounted \cup {"quit", "reboot"}
        /\ slips' = slips \cup {<<"unmounted", line.op>>}
    BY <2>1, <2>3 DEF Enter
  <2>6. line.op \in {"cp", "mv", "run"}
    BY <2>4, <2>5 DEF Commands, bad_mount, NeedsMount, NeedsUnmounted
  <2>7. cmd'.op = line.op
    <3> DEFINE started == [Does(line.op, "start") EXCEPT !.line = line]
    <3>1. DOMAIN started = {"op", "at", "line", "said", "v"} /\ started.op = line.op
      BY DEF Does
    <3>2. cmd' = started \/ \E said : cmd' = [started EXCEPT !.at = "done", !.said = said]
      BY <2>1 DEF Enter
    <3> HIDE DEF started
    <3>3. QED BY <3>1, <3>2
  <2>8. Known("unmounted")
    BY <2>2, <2>6, <2>7 DEF Known
  <2>9. ASSUME NEW s \in slips' \ slips
        PROVE  Known(s[1])
    <3>1. s = <<"unmounted", line.op>>
      BY <2>5, <2>9
    <3>2. s[1] = "unmounted"
      BY <3>1
    <3>3. QED BY <2>8, <3>2
  <2>10. QED BY <2>9 DEF KnownSlips
<1>3. QED BY <1>1, <1>2

-----------------------------------------------------------------------------
(* tar's handles on the stack of a function that has given up.             *)

Dead == {"tar in", "tar dir"}
\* They are known as such; or tar is on its way out after a failure; or they are of the directories it reads.
DeadOK ==
  \A h \in open : h[1] \in Dead =>
    \/ <<"dead handle", "tar">> \in slips
    \/ Creating /\ cmd.at = "bail" /\ faulted # {}
    \/ Creating /\ cmd.at = "create" /\ \E k \in 1 .. Len(TarFrames) : h = Handle("tar dir", TarFrames[k].dir)

\* The places of an empty sequence, and of one of one element.
LEMMA Places == \A n : (n = 0 => 1 .. n = {}) /\ (n = 1 => 1 \in 1 .. n)
OBVIOUS

LEMMA TarFileDead ==
  ASSUME PInv, cmd.op = "tar", NEW p, NEW size, NEW v, CreateOK(v, tree), tar_file(p, size, v)
  PROVE  /\ cmd'.op = cmd.op /\ cmd'.line = cmd.line
         /\ \/ cmd'.at = "create" /\ cmd'.v.stack = v.stack /\ open' = open
            \/ cmd'.at = "bail" /\ faulted' # {}
            \/ cmd'.at = "bail" /\ ~IsFile(tree, p) /\ open' = open
<1>1. CmdOK /\ DOMAIN v = {"file", "arg", "stack", "out"}
  BY DEF PInv, CreateOK
<1>2. CASE Goes("create", v) /\ UNCHANGED open
  <2>1. cmd'.op = cmd.op /\ cmd'.line = cmd.line /\ cmd'.at = "create" /\ cmd'.v = v
    BY <1>1, <1>2, GoesIs
  <2>2. QED BY <1>2, <2>1
<1>3. CASE ~IsFile(tree, p) /\ Goes("bail", v) /\ UNCHANGED open
  <2>1. cmd'.op = cmd.op /\ cmd'.line = cmd.line /\ cmd'.at = "bail"
    BY <1>1, <1>3, GoesIs
  <2>2. QED BY <1>3, <2>1
<1>4. ASSUME NEW call, Suffers("bad", call), NEW w, Goes("bail", w)
      PROVE  cmd'.op = cmd.op /\ cmd'.line = cmd.line /\ cmd'.at = "bail" /\ faulted' # {}
  <2>1. cmd'.op = cmd.op /\ cmd'.line = cmd.line /\ cmd'.at = "bail"
    BY <1>1, <1>4, GoesIs
  <2>2. QED BY <1>4, <2>1 DEF Suffers
<1>5. ASSUME NEW out, Goes("create", [v EXCEPT !.out = out]), UNCHANGED open
      PROVE  cmd'.op = cmd.op /\ cmd'.line = cmd.line /\ cmd'.at = "create" /\ cmd'.v.stack = v.stack /\ open' = open
  <2> DEFINE w == [v EXCEPT !.out = out]
  <2>1. w.stack = v.stack /\ Goes("create", w)
    BY <1>1, <1>5
  <2> HIDE DEF w
  <2>2. cmd'.op = cmd.op /\ cmd'.line = cmd.line /\ cmd'.at = "create" /\ cmd'.v = w
    BY <1>1, <2>1, GoesIs
  <2>3. QED BY <1>5, <2>1, <2>2
<1>6. CASE \E r \in Outcomes, call \in {"open", "getattr", "write", "read"} :
            LET exe == tree[p].exe /\ ~(r = "bad" /\ call = "getattr")
                header == Header(SubSeq(p, Len(Cwd) + 1, Len(p)), size, exe)
                archived == [v EXCEPT !.out = Append(@, header) \o Reads(tree[p].data, size, header)]
            IN /\ IsFile(tree, p)
               /\ r = "bad" /\ call = "read" => size > 0
               /\ Suffers(r, call)
               /\ IF r = "bad" /\ call = "open" THEN Goes("bail", v) /\ UNCHANGED open
                  ELSE IF r = "bad" /\ call # "getattr"
                  THEN /\ open' = open \cup {Handle("tar in", p)}
                       /\ Goes("bail", [v EXCEPT !.out = Append(@, header)])
                  ELSE Goes("create", archived) /\ UNCHANGED open
  <2>1. PICK r \in Outcomes, call \in {"open", "getattr", "write", "read"} :
          /\ Suffers(r, call)
          /\ \/ r = "bad" /\ \E w : Goes("bail", w)
             \/ \E out : Goes("create", [v EXCEPT !.out = out]) /\ UNCHANGED open
    BY ZenonT(60), <1>6
  <2>2. CASE r = "bad" /\ \E w : Goes("bail", w)
    BY <1>4, <2>1, <2>2
  <2>3. CASE \E out : Goes("create", [v EXCEPT !.out = out]) /\ UNCHANGED open
    BY <1>5, <2>3
  <2>4. QED BY <2>1, <2>2, <2>3
<1>7. QED BY <1>2, <1>3, <1>6 DEF tar_file

LEMMA TarDirDead ==
  ASSUME PInv, cmd.op = "tar", NEW p, NEW v, CreateOK(v, tree), tar_dir(p, v)
  PROVE  /\ cmd'.op = cmd.op /\ cmd'.line = cmd.line
         /\ \/ /\ cmd'.at = "create" /\ open' = open \cup {Handle("tar dir", p)}
               /\ cmd'.v.stack = Append(v.stack, [dir |-> p, unread |-> Children(tree, p)])
            \/ cmd'.at = "bail" /\ open' = open /\ (faulted' # {} \/ ~IsDir(tree, p))
<1>1. CmdOK /\ DOMAIN v = {"file", "arg", "stack", "out"}
  BY DEF PInv, CreateOK
<1>2. PICK r \in Outcomes :
        /\ Suffers(r, "open")
        /\ IF r = "bad" \/ ~IsDir(tree, p) THEN Goes("bail", v) /\ UNCHANGED open
           ELSE /\ open' = open \cup {Handle("tar dir", p)}
                /\ Goes("create", [v EXCEPT !.stack = Append(@, [dir |-> p, unread |-> Children(tree, p)])])
  BY DEF tar_dir
<1>3. CASE r = "bad" \/ ~IsDir(tree, p)
  <2>1. cmd'.op = cmd.op /\ cmd'.line = cmd.line /\ cmd'.at = "bail"
    BY <1>1, <1>2, <1>3, GoesIs
  <2>2. r = "bad" => faulted' # {}
    BY <1>2 DEF Suffers
  <2>3. QED BY <1>2, <1>3, <2>1, <2>2
<1>4. CASE ~(r = "bad" \/ ~IsDir(tree, p))
  <2> DEFINE s == Append(v.stack, [dir |-> p, unread |-> Children(tree, p)])
             w == [v EXCEPT !.stack = s]
  <2>1. w.stack = s /\ Goes("create", w)
    BY <1>1, <1>2, <1>4
  <2> HIDE DEF w
  <2>2. cmd'.op = cmd.op /\ cmd'.line = cmd.line /\ cmd'.at = "create" /\ cmd'.v = w
    BY <1>1, <2>1, GoesIs
  <2>3. QED BY <1>2, <1>4, <2>1, <2>2
<1>5. QED BY <1>3, <1>4

\* tar c comes to an argument or an entry: what it leaves is reached by a failure only.
LEMMA DeadNext ==
  ASSUME PInv, DeadOK, TarArgument \/ TarEntry
  PROVE  DeadOK'
<1>1. At("tar", "create") /\ cmd.op = "tar" /\ cmd.at = "create" /\ UNCHANGED <<tree, slips>>
  BY DEF TarArgument, TarEntry, At
<1>2. Line.flag = "c" /\ CreateOK(cmd.v, tree)
  BY <1>1 DEF PInv, TarOK, Creating, At
<1> DEFINE Slipped == <<"dead handle", "tar">> \in slips
<1>3. Handle("tar in", <<>>)[1] = "tar in" /\ \A n, q : Handle(n, q)[1] = n
  BY DEF Handle
<1>4. ASSUME cmd'.op = "tar", cmd'.line = cmd.line, cmd'.at = "bail", faulted' # {}
      PROVE  DeadOK'
  BY <1>2, <1>4 DEF DeadOK, Creating, Line
<1>5. ASSUME cmd'.op = "tar", cmd'.line = cmd.line, cmd'.at = "create", NEW s, cmd'.v.stack = s,
             \A h \in open' : h[1] \in Dead => Slipped \/ \E k \in 1 .. Len(s) : h = Handle("tar dir", s[k].dir)
      PROVE  DeadOK'
  BY <1>1, <1>2, <1>5 DEF DeadOK, Creating, Line, TarFrames
<1>6. \A h \in open : h[1] \in Dead => Slipped \/ \E k \in 1 .. Len(TarFrames) : h = Handle("tar dir", TarFrames[k].dir)
  BY <1>1 DEF DeadOK
<1>7. CASE TarArgument
  <2> DEFINE p == PathOf(cmd.v.arg)
             place == IF p = Root THEN Cwd ELSE Append(Cwd, Last(p))
             v == [cmd.v EXCEPT !.arg = @ + 1]
  <2>1. TarFrames = << >>
    BY <1>7 DEF TarArgument
  <2>2. \A h \in open : h[1] \in Dead => Slipped
    <3>1. Len(TarFrames) = 0
      BY <2>1
    <3> HIDE DEF Slipped
    <3>2. ASSUME NEW h \in open, h[1] \in Dead, ~Slipped PROVE FALSE
      <4>1. PICK k \in 1 .. Len(TarFrames) : h = Handle("tar dir", TarFrames[k].dir)
        BY <1>6, <3>2
      <4>2. QED BY <3>1, <4>1, Places
    <3>3. QED BY <3>2
  <2>3. \/ tar_dir(place, v) \/ tar_file(place, Len(tree[p].data), v)
        \/ Goes("bail", v) /\ UNCHANGED open
    BY <1>7 DEF TarArgument
  <2>4. DOMAIN v = DOMAIN cmd.v /\ v.arg = cmd.v.arg + 1 /\ v.stack = cmd.v.stack /\ v.out = cmd.v.out
    BY <1>2 DEF CreateOK
  <2> HIDE DEF v, place, p
  <2>5. CreateOK(v, tree) /\ v.stack = << >>
    <3>1. v.arg \in Nat \ {0}
      BY <1>2, <2>4 DEF CreateOK
    <3>2. QED BY <1>2, <2>1, <2>4, <3>1 DEF CreateOK, TarFrames
  <2>6. open' = open => DeadOK'
    BY <1>1, <2>2 DEF DeadOK
  <2>7. CASE tar_file(place, Len(tree[p].data), v)
    BY <1>1, <1>4, <2>5, <2>6, <2>7, TarFileDead
  <2>8. CASE tar_dir(place, v)
    <3>1. CASE /\ cmd'.at = "create" /\ open' = open \cup {Handle("tar dir", place)}
               /\ cmd'.v.stack = Append(v.stack, [dir |-> place, unread |-> Children(tree, place)])
      <4> DEFINE f == [dir |-> place, unread |-> Children(tree, place)]
                 s == Append(v.stack, f)
      <4>1. f.dir = place
        OBVIOUS
      <4> HIDE DEF f
      <4>2. s = <<f>>
        BY <2>5
      <4>3. Len(s) = 1 /\ s[1] = f
        BY <4>2, OneFacts
      <4>4. cmd'.v.stack = s
        BY <3>1 DEF f
      <4> HIDE DEF s
      <4>5. \A h \in open' : h[1] \in Dead => Slipped \/ \E k \in 1 .. Len(s) : h = Handle("tar dir", s[k].dir)
        <5>1. s[1].dir = place /\ 1 \in 1 .. Len(s)
          BY <4>1, <4>3, Places
        <5> HIDE DEF Slipped
        <5>2. QED BY <2>2, <3>1, <5>1
      <4>6. cmd'.op = "tar" /\ cmd'.line = cmd.line
        BY <1>1, <2>5, <2>8, TarDirDead
      <4>7. QED BY <1>5, <3>1, <4>4, <4>5, <4>6
    <3>2. CASE cmd'.at = "bail" /\ open' = open
      BY <2>6, <3>2
    <3>3. QED BY <1>1, <2>5, <2>8, <3>1, <3>2, TarDirDead
  <2>9. CASE Goes("bail", v) /\ UNCHANGED open
    BY <2>6, <2>9
  <2>10. QED BY <2>3, <2>7, <2>8, <2>9
<1>8. CASE TarEntry
  <2>1. TarFrames # << >>
    BY <1>8 DEF TarEntry
  <2>2. PICK p \in TarTop.unread :
          LET v == [cmd.v EXCEPT !.stack = Append(Front(TarFrames), [TarTop EXCEPT !.unread = @ \ {p}])]
          IN IF IsDir(tree, p) THEN tar_dir(p, v) ELSE tar_file(p, Len(tree[p].data), v)
    BY <1>8 DEF TarEntry
  <2> DEFINE f == [TarTop EXCEPT !.unread = @ \ {p}]
             s == Append(Front(TarFrames), f)
             v == [cmd.v EXCEPT !.stack = s]
  <2>3. IF IsDir(tree, p) THEN tar_dir(p, v) ELSE tar_file(p, Len(tree[p].data), v)
    BY <2>2
  <2>4. IsSequence(TarFrames) /\ Len(TarFrames) \in 1 .. Len(TarFrames)
    <3>1. IsSequence(TarFrames)
      BY <1>2 DEF CreateOK, TarFrames
    <3>2. Len(TarFrames) \in Nat /\ Len(TarFrames) >= 1
      BY <2>1, <3>1, FrontFacts, SequenceFacts
    <3>3. QED BY <3>1, <3>2
  <2>5. \A k \in 1 .. Len(TarFrames) : DOMAIN TarFrames[k] = {"dir", "unread"} /\ \A q \in TarFrames[k].unread : q \in DOMAIN tree /\ Len(q) > Len(Cwd)
    BY <1>2 DEF CreateOK, TarFrames
  <2>6. DOMAIN TarTop = {"dir", "unread"} /\ TarTop = TarFrames[Len(TarFrames)]
        /\ \A q \in TarTop.unread : q \in DOMAIN tree /\ Len(q) > Len(Cwd)
    BY <2>4, <2>5 DEF TarTop
  <2>7. DOMAIN f = {"dir", "unread"} /\ f.dir = TarTop.dir /\ f.unread = TarTop.unread \ {p}
    BY <2>6
  <2>8. DOMAIN v = DOMAIN cmd.v /\ v.arg = cmd.v.arg /\ v.stack = s /\ v.out = cmd.v.out
    BY <1>2 DEF CreateOK
  <2> HIDE DEF f, v
  <2>9. IsSequence(s) /\ Len(s) = Len(TarFrames)
    BY <2>1, <2>4, TopFacts
  <2>10. \A k \in 1 .. Len(TarFrames) : s[k] = IF k = Len(TarFrames) THEN f ELSE TarFrames[k]
    BY <2>1, <2>4, TopFacts
  <2> HIDE DEF s
  <2>11. \A k \in 1 .. Len(s) : DOMAIN s[k] = {"dir", "unread"} /\ \A q \in s[k].unread : q \in DOMAIN tree /\ Len(q) > Len(Cwd)
    BY <2>5, <2>6, <2>7, <2>9, <2>10
  <2>12. CreateOK(v, tree)
    BY <1>2, <2>8, <2>9, <2>11 DEF CreateOK
  <2>13. p \in DOMAIN tree
    BY <2>6
  <2>14. \A k \in 1 .. Len(TarFrames) : s[k].dir = TarFrames[k].dir
    BY <2>6, <2>7, <2>10
  <2>15. \A h \in open : h[1] \in Dead => Slipped \/ \E k \in 1 .. Len(s) : h = Handle("tar dir", s[k].dir)
    BY <1>6, <2>9, <2>14
  <2>16. CASE IsDir(tree, p)
    <3>1. CASE cmd'.at = "bail" /\ faulted' # {}
      BY <1>1, <1>4, <2>3, <2>12, <2>16, <3>1, TarDirDead
    <3>2. CASE /\ cmd'.at = "create" /\ open' = open \cup {Handle("tar dir", p)}
               /\ cmd'.v.stack = Append(v.stack, [dir |-> p, unread |-> Children(tree, p)])
      <4> DEFINE g == [dir |-> p, unread |-> Children(tree, p)]
                 u == Append(s, g)
      <4>1. g.dir = p
        OBVIOUS
      <4> HIDE DEF g
      <4>2. Len(u) = Len(s) + 1 /\ u[Len(s) + 1] = g /\ \A k \in 1 .. Len(s) : u[k] = s[k]
        BY <2>9, AppendFacts
      <4>3. cmd'.v.stack = u
        BY <2>8, <3>2 DEF g
      <4> HIDE DEF u
      <4>4. Len(s) \in Nat
        BY <2>4, <2>9
      <4>5. ASSUME NEW h \in open', h[1] \in Dead, ~Slipped
            PROVE  \E k \in 1 .. Len(u) : h = Handle("tar dir", u[k].dir)
        <5>1. CASE h = Handle("tar dir", p)
          <6>1. Len(s) + 1 \in 1 .. Len(u)
            BY <4>2, <4>4
          <6>2. QED BY <4>1, <4>2, <5>1, <6>1
        <5>2. CASE h \in open
          <6>1. PICK k \in 1 .. Len(s) : h = Handle("tar dir", s[k].dir)
            BY <2>15, <4>5, <5>2
          <6>2. k \in 1 .. Len(u) /\ u[k] = s[k]
            BY <4>2, <4>4
          <6>3. QED BY <6>1, <6>2
        <5>3. QED BY <3>2, <4>5, <5>1, <5>2
      <4>6. cmd'.op = "tar" /\ cmd'.line = cmd.line
        BY <1>1, <2>3, <2>12, <2>16, TarDirDead
      <4>7. QED BY <1>5, <3>2, <4>3, <4>5, <4>6
    <3>3. QED BY <1>1, <2>3, <2>12, <2>16, <3>1, <3>2, TarDirDead
  <2>17. CASE ~IsDir(tree, p)
    <3>1. IsFile(tree, p)
      BY <2>13, <2>17 DEF IsDir, IsFile, Exists
    <3>2. CASE cmd'.at = "create" /\ cmd'.v.stack = v.stack /\ open' = open
      <4>1. cmd'.op = "tar" /\ cmd'.line = cmd.line
        BY <1>1, <2>3, <2>12, <2>17, TarFileDead
      <4>2. QED BY <1>5, <2>8, <2>15, <3>2, <4>1
    <3>3. QED BY <1>1, <1>4, <2>3, <2>12, <2>17, <3>1, <3>2, TarFileDead
  <2>18. QED BY <2>16, <2>17
<1>9. QED BY <1>7, <1>8

\* No other step opens a handle of that kind, and what has slipped has slipped.
LEMMA DeadOthers ==
  ASSUME PInv, [Next]_vars, ~(TarArgument \/ TarEntry)
  PROVE  slips \subseteq slips' /\ \A h \in open' : h[1] \in Dead => h \in open
<1>1. CASE ShellStep \/ BootMount \/ BootAnswer \/ Reset
  BY <1>1 DEF ShellStep, Return, Cd, Mount, Unmount, Format, Stop, BootMount, BootAnswer, Reset
<1>2. CASE Type
  BY <1>2 DEF Type, Enter
<1>3. CASE FileStep
  <2>1. CASE CpOpen
    <3>1. In[1] = "in" /\ Out[1] = "out"
      BY DEF In, Out
    <3>2. In[1] \notin Dead /\ Out[1] \notin Dead
      BY <3>1 DEF Dead
    <3>3. UNCHANGED slips /\ (open' = open \/ open' = open \cup {In, Out})
      BY <2>1 DEF CpOpen
    <3>4. QED BY <3>2, <3>3
  <2>2. CASE CleanOpen
    <3>1. \A p : DirHandle(p)[1] = "dir"
      BY DEF DirHandle
    <3>2. \A p : DirHandle(p)[1] \notin Dead
      BY <3>1 DEF Dead
    <3>3. UNCHANGED slips /\ (open' \subseteq open \/ \E p : open' = open \cup {DirHandle(p)})
      BY ZenonT(60), <2>2 DEF CleanOpen, GiveUp
    <3>4. QED BY <3>2, <3>3
  <2>3. CASE CleanFile \/ CleanEnd
    BY <2>3 DEF CleanFile, CleanEnd, GiveUp
  <2>4. CASE MvStart \/ CpStart
    BY <2>4 DEF MvStart, CpStart, check_from_to_parms, Slip
  <2>5. CASE RmStart \/ RmCount \/ RmRemove \/ CleanRewind
    BY <2>5 DEF RmStart, RmCount, RmRemove, CleanRewind, Slip
  <2>6. CASE Mv \/ CpBlock \/ CpEof \/ CpClose \/ MkdirCmd
    BY <2>6 DEF Mv, CpBlock, CpEof, CpClose, MkdirCmd
  <2>7. QED BY <1>3, <2>1, <2>2, <2>3, <2>4, <2>5, <2>6 DEF FileStep
<1>4. CASE TarStep
  <2>1. CASE TarStart
    <3>1. \A p : Handle("tar", p)[1] = "tar"
      BY DEF Handle
    <3>2. \A p : Handle("tar", p)[1] \notin Dead
      BY <3>1 DEF Dead
    <3>3. slips \subseteq slips' /\ (open' = open \/ \E p : open' = open \cup {Handle("tar", p)})
      BY <2>1 DEF TarStart, Slip
    <3>4. QED BY <3>2, <3>3
  <2>2. CASE TarCreated
    BY <2>2 DEF TarCreated, TarClose, Slip
  <2>3. CASE TarDirEnd \/ TarEnd
    BY <2>3 DEF TarDirEnd, TarEnd, TarGoes
  <2>4. CASE TarHeader \/ TarMkdirs \/ TarExtract \/ TarShut
    BY <2>4 DEF TarHeader, TarMkdirs, TarExtract, TarShut
  <2>5. QED BY <1>4, <2>1, <2>2, <2>3, <2>4 DEF TarStep
<1>5. CASE CcStep \/ UserStep
  <2>1. \A p : FdHandle(p)[1] \notin Dead
    BY DEF FdHandle, Dead
  <2>2. \A h \in Handles : UserHandle(h)[1] \notin Dead
    BY DEF UserHandle, Handles, Dead
  <2>3. CASE CcStart \/ CcCreate \/ LdOpen
    BY <2>1, <2>3 DEF CcStart, CcCreate, LdOpen, Slip, fatal
  <2>4. CASE CcRead \/ CcWrite \/ CcSeal
    BY <2>4 DEF CcRead, CcWrite, CcSeal, Slip, fatal
  <2>5. CASE CcCompile \/ RunAsCmd \/ LdRead \/ LdDone
    BY <2>5 DEF CcCompile, RunAsCmd, LdRead, LdDone, Slip, fatal
  <2>6. CASE UserOpen
    BY <2>2, <2>6 DEF UserOpen
  <2>7. CASE UserClose \/ UserFree \/ UserLeaves
    BY <2>7 DEF UserClose, UserFree, UserLeaves, Slip, fatal
  <2>8. CASE CcLeave
    BY <2>8 DEF CcLeave, Slip
  <2>9. QED BY <1>5, <2>3, <2>4, <2>5, <2>6, <2>7, <2>8 DEF CcStep, UserStep
<1>6. CASE UNCHANGED vars
  BY <1>6 DEF vars
<1>7. QED BY <1>1, <1>2, <1>3, <1>4, <1>5, <1>6 DEF Next, Work

\* While tar c is under way a step is one of its own, or a reset.
LEMMA CreatingSteps ==
  ASSUME PInv, Creating, [Next]_vars
  PROVE  UNCHANGED vars \/ Reset \/ TarArgument \/ TarEntry \/ TarDirEnd \/ TarEnd \/ TarCreated
<1>1. cmd.op = "tar" /\ cmd.at \in {"create", "close", "bail"} /\ Line.flag = "c"
  BY DEF Creating
<1>2. ~(Type \/ BootMount \/ BootAnswer \/ ShellStep)
  <2>1. ~Type
    <3>1. ASSUME Type PROVE FALSE
      <4>1. PICK line \in Scenes[scene].lines : Enter(line)
        BY <3>1 DEF Type
      <4>2. cmd = AtPrompt
        BY <4>1 DEF Enter
      <4>3. QED BY <1>1, <4>2 DEF AtPrompt, Does
    <3>2. QED BY <3>1
  <2>2. ~(BootMount \/ BootAnswer)
    BY <1>1 DEF BootMount, BootAnswer, At
  <2>3. ~(Return \/ Stop)
    BY <1>1 DEF Return, Stop, At
  <2>4. ~(Cd \/ Mount \/ Unmount \/ Format)
    BY <1>1 DEF Cd, Mount, Unmount, Format, At
  <2>5. QED BY <2>1, <2>2, <2>3, <2>4 DEF ShellStep
<1>3. ~(FileStep \/ CcStep \/ UserStep)
  BY <1>1, FileOps, OtherOps DEF FileStep
<1>4. ~(TarStart \/ TarHeader \/ TarMkdirs \/ TarExtract \/ TarShut)
  <2>1. ~(TarStart \/ TarHeader \/ TarMkdirs \/ TarExtract)
    BY <1>1 DEF TarStart, TarHeader, TarMkdirs, TarExtract, At
  <2>2. ~TarShut
    BY <1>1 DEF TarShut
  <2>3. QED BY <2>1, <2>2
<1>5. QED BY <1>2, <1>3, <1>4 DEF Next, Work, TarStep

LEMMA DeadStep ==
  ASSUME PInv, DeadOK, [Next]_vars
  PROVE  DeadOK'
<1>1. CASE TarArgument \/ TarEntry
  BY <1>1, DeadNext
<1>2. CASE ~(TarArgument \/ TarEntry)
  <2>1. slips \subseteq slips' /\ \A h \in open' : h[1] \in Dead => h \in open
    BY <1>2, DeadOthers
  <2>2. CASE ~Creating
    BY <2>1, <2>2 DEF DeadOK
  <2>3. CASE Creating /\ UNCHANGED vars
    BY <2>3 DEF vars, DeadOK, Creating, TarFrames, Line
  <2>4. CASE Reset
    BY <2>4 DEF Reset, DeadOK
  <2>5. CASE TarDirEnd
    <3>1. At("tar", "create") /\ cmd.op = "tar" /\ cmd.at = "create" /\ UNCHANGED slips /\ TarFrames # << >>
          /\ open' = open \ {Handle("tar dir", TarTop.dir)} /\ Goes("create", [cmd.v EXCEPT !.stack = Front(@)])
      BY <2>5 DEF TarDirEnd, At
    <3>2. CmdOK /\ Line.flag = "c" /\ CreateOK(cmd.v, tree)
      BY <3>1 DEF PInv, TarOK, Creating, At
    <3> DEFINE s == Front(TarFrames)
               v == [cmd.v EXCEPT !.stack = s]
    <3>3. v.stack = s /\ Goes("create", v)
      BY <3>1, <3>2 DEF CreateOK, TarFrames
    <3> HIDE DEF v
    <3>4. cmd'.op = "tar" /\ cmd'.line = cmd.line /\ cmd'.at = "create" /\ cmd'.v.stack = s
      BY <3>1, <3>2, <3>3, GoesIs
    <3>5. IsSequence(TarFrames) /\ Len(TarFrames) \in Nat
      BY <3>2, SequenceFacts DEF CreateOK, TarFrames
    <3>6. Len(s) = Len(TarFrames) - 1
      BY <3>1, <3>5, FrontFacts
    <3>7. \A k \in 1 .. Len(TarFrames) - 1 : s[k] = TarFrames[k]
      BY <3>1, <3>5, FrontFacts
    <3> HIDE DEF s
    <3>8. ASSUME NEW h \in open', h[1] \in Dead, <<"dead handle", "tar">> \notin slips
          PROVE  \E k \in 1 .. Len(s) : h = Handle("tar dir", s[k].dir)
      <4>1. PICK k \in 1 .. Len(TarFrames) : h = Handle("tar dir", TarFrames[k].dir)
        BY <3>1, <3>8 DEF DeadOK
      <4>2. k # Len(TarFrames)
        BY <3>1, <3>8, <4>1 DEF TarTop
      <4>3. k \in 1 .. Len(s) /\ s[k] = TarFrames[k]
        BY <3>5, <3>6, <3>7, <4>2
      <4>4. QED BY <4>1, <4>3
    <3>9. QED BY <3>1, <3>2, <3>4, <3>8 DEF DeadOK, Creating, Line, TarFrames
  <2>6. CASE TarEnd
    <3>1. cmd.at = "create" /\ TarFrames = << >>
      BY <2>6 DEF TarEnd, At
    <3>2. \A h \in open : h[1] \in Dead => <<"dead handle", "tar">> \in slips
      <4>1. Len(TarFrames) = 0 /\ cmd.at # "bail"
        BY <3>1
      <4>2. ASSUME NEW h \in open, h[1] \in Dead, <<"dead handle", "tar">> \notin slips PROVE FALSE
        <5>1. PICK k \in 1 .. Len(TarFrames) : h = Handle("tar dir", TarFrames[k].dir)
          BY <4>1, <4>2 DEF DeadOK
        <5>2. QED BY <4>1, <5>1, Places
      <4>3. QED BY <4>2
    <3>3. QED BY <2>1, <3>2 DEF DeadOK
  <2>7. CASE TarCreated
    <3>1. cmd.op = "tar" /\ (IF Dangling THEN Slip("dead handle") ELSE UNCHANGED slips)
      BY <2>7 DEF TarCreated
    <3>2. (\E h \in open : h[1] \in Dead) => <<"dead handle", "tar">> \in slips'
      BY <3>1 DEF Dangling, Dead, Slip
    <3>3. QED BY <2>1, <3>2 DEF DeadOK
  <2>8. QED BY <1>2, <2>2, <2>3, <2>4, <2>5, <2>6, <2>7, CreatingSteps
<1>3. QED BY <1>1, <1>2

\* tar c meets what it has left on the stack after a failure only.
LEMMA DeadKnown ==
  ASSUME PInv, DeadOK, TarCreated, slips' # slips
  PROVE  KnownSlips
<1>1. cmd.op = "tar" /\ cmd.at \in {"close", "bail"} /\ Dangling /\ Slip("dead handle")
  BY DEF TarCreated
<1>2. <<"dead handle", "tar">> \notin slips
  BY <1>1 DEF Slip
<1>3. PICK h \in open : h[1] \in Dead
  BY <1>1 DEF Dangling, Dead
<1>4. cmd.at = "bail" /\ faulted # {}
  BY <1>1, <1>2, <1>3 DEF DeadOK
<1>5. Known("dead handle")
  BY <1>1, <1>4 DEF Known, At
<1>6. QED BY <1>1, <1>5, OneSlip

\* A finished command has closed the handles it opened; tar's alone stay open, and those on a stack after a failure.
THEOREM HandlesCorrect ==
  Spec => []HandlesClosed
<1>1. Init => DeadOK
  BY DEF Init, DeadOK
<1>2. PInv /\ DeadOK /\ [Next]_vars => DeadOK'
  BY DeadStep
<1>3. PInv /\ DeadOK => HandlesClosed
  <2> SUFFICES ASSUME PInv, DeadOK, cmd.at \in {"prompt", "done"} PROVE HandlesClosed
    BY DEF HandlesClosed
  <2>1. cmd.op # "off"
    BY DEF PInv, CmdOK
  <2>2. \A h : ~Owned(h)
    <3>1. CASE cmd.at = "done"
      BY <3>1, NothingLocal DEF AtRest
    <3>2. CASE cmd.at = "prompt"
      <4>1. ~InSession
        BY <3>2 DEF PInv, CcOK, PlaceOK, InSession
      <4>2. QED BY <3>2, <4>1 DEF Owned, Copying, At
    <3>3. QED BY <3>1, <3>2
  <2>3. cmd.op = "tar" => cmd.at = "done"
    BY DEF PInv, TarOK, Creating, Reading
  <2>4. \A h \in open : h[1] \in Dead => <<"dead handle", "tar">> \in slips
    BY DEF DeadOK, Creating
  <2>5. \A h \in open : h[1] = "tar" \/ h[1] \in Dead
    BY <2>1, <2>2 DEF PInv, HandlesOK, TarHandles, Dead
  <2>6. QED BY <2>3, <2>4, <2>5 DEF PInv, HandlesOK, HandlesClosed, Dead, At
<1>4. QED BY <1>1, <1>2, <1>3, Invariance, PTL DEF Spec

\* The first name loses its '/' by "../" only, from the root or where the text had lost it before.
LEMMA UnslashedIs ==
  ASSUME PwdOK, NEW arg, NEW op, IsArgument(arg, op), Unslashed(arg)
  PROVE  arg.up /\ (sh_pwd.slash => sh_pwd.names = << >>)
<1>1. ~FullPath(arg).slash /\ Len(FullPath(arg).names) = 1 /\ arg.names # << >>
  BY DEF Unslashed
<1>2. IsSequence(arg.names) /\ Len(arg.names) \in Nat /\ Len(arg.names) >= 1 /\ IsSequence(sh_pwd.names) /\ Len(sh_pwd.names) \in Nat
  BY <1>1, FrontFacts, SequenceFacts DEF IsArgument, PwdOK
<1>3. ~arg.abs
  BY <1>1 DEF FullPath
<1>4. arg.up
  <2> SUFFICES ASSUME ~arg.up PROVE FALSE
    BY DEF IsArgument
  <2> DEFINE n == sh_pwd.names \o arg.names
  <2>1. FullPath(arg) = [sh_pwd EXCEPT !.names = n]
    BY <1>3 DEF FullPath
  <2>2. Len(n) = Len(sh_pwd.names) + Len(arg.names)
    BY <1>2, CatFacts
  <2> HIDE DEF n
  <2>3. FullPath(arg).names = n /\ FullPath(arg).slash = sh_pwd.slash
    BY <2>1 DEF PwdOK
  <2>4. sh_pwd # AtRoot
    BY <1>1, <2>3 DEF AtRoot
  <2>5. Len(sh_pwd.names) >= 1
    BY <1>2, <2>4, FrontFacts DEF PwdOK
  <2> DEFINE a == Len(sh_pwd.names)
             b == Len(arg.names)
             c == Len(n)
  <2>6. a \in Nat /\ b \in Nat /\ a >= 1 /\ b >= 1 /\ c = a + b /\ c = 1
    BY <1>1, <1>2, <2>2, <2>3, <2>5
  <2> HIDE DEF a, b, c
  <2>7. QED BY <2>6
<1>5. ASSUME sh_pwd.slash, sh_pwd.names # << >>
      PROVE  FALSE
  <2>1. FullPath(arg) = [Up EXCEPT !.names = @ \o arg.names]
    BY <1>3, <1>4, <1>5 DEF FullPath
  <2>2. Up = [sh_pwd EXCEPT !.names = Front(@)]
    BY <1>5 DEF Up
  <2>3. Up.slash = sh_pwd.slash /\ DOMAIN Up = {"slash", "names"}
    BY <2>2 DEF PwdOK
  <2>4. FullPath(arg).slash = Up.slash
    BY <2>1, <2>3
  <2>5. QED BY <1>1, <1>5, <2>3, <2>4
<1>6. QED BY <1>4, <1>5

LEMMA SlashSlips ==
  ASSUME PInv, MvStart \/ CpStart, slips' # slips
  PROVE  KnownSlips
<1>1. cmd.op \in {"mv", "cp"} /\ Unslashed(Line.args[1]) /\ Slip("no slash")
  BY DEF MvStart, CpStart, check_from_to_parms
<1>2. cmd.op \in Commands
  BY <1>1 DEF Commands
<1>3. 1 \in 1 .. Len(Line.args)
  BY <1>1, <1>2, Arguments DEF PInv
<1>4. IsArgument(Line.args[1], cmd.op) /\ PwdOK
  BY <1>2, <1>3, ArgumentIs DEF PInv
<1>5. Known("no slash")
  BY <1>1, <1>4, UnslashedIs DEF Known
<1>6. QED BY <1>1, <1>5, OneSlip

LEMMA ReopenedSlips ==
  ASSUME TarStart, slips' # slips
  PROVE  KnownSlips
<1>1. Listed /\ Slip("reopened")
  BY DEF TarStart
<1>2. QED BY <1>1, OneSlip DEF Known

LEMMA SlipStep ==
  ASSUME PInv, SlipInv, DeadOK, [Next]_vars
  PROVE  SlipInv' /\ (slips' # slips => KnownSlips)
<1>1. SlipInv'
  <2> SUFFICES ASSUME cmd'.op \in {"cc", "run"} PROVE SlipInv'
    BY DEF SlipInv, InSession
  <2>1. CASE UNCHANGED vars
    BY <2>1 DEF vars, SlipInv, InSession, SlipOK, S, HasOut, Line
  <2>2. CASE Type
    <3>1. cmd'.at \in {"start", "done"}
      BY <2>2, TypeBegins DEF Begins
    <3>2. QED BY <3>1 DEF SlipInv, InSession
  <2>3. CASE FileStep \/ TarStep
    <3>1. cmd.op \in {"cc", "run"}
      BY <2>3, SameOp
    <3>2. QED BY <2>3, <3>1, FileOps, OtherOps DEF FileStep
  <2>4. CASE CcStep \/ UserStep
    BY <2>4, CcSlips
  <2>5. QED BY <2>1, <2>2, <2>3, <2>4, StepsOf
<1>2. ASSUME slips' # slips
      PROVE  KnownSlips
  <2>1. CASE UNCHANGED vars
    BY <1>2, <2>1 DEF vars
  <2>2. CASE ShellStep \/ BootMount \/ BootAnswer \/ Reset
    BY <1>2, <2>2 DEF ShellStep, Return, Cd, Mount, Unmount, Format, Stop, BootMount, BootAnswer, Reset
  <2>3. CASE FileStep
    <3>1. MvStart \/ CpStart => KnownSlips
      BY <1>2, SlashSlips
    <3>2. Mv \/ CpOpen \/ CpBlock \/ CpEof \/ CpClose \/ MkdirCmd => slips' = slips
      BY DEF Mv, CpOpen, CpBlock, CpEof, CpClose, MkdirCmd
    <3>3. RmStart \/ RmRemove \/ CleanOpen \/ CleanRewind \/ CleanFile \/ CleanEnd => slips' = slips
      BY DEF RmStart, RmRemove, CleanOpen, CleanRewind, CleanFile, CleanEnd
    <3>4. QED BY <1>2, <2>3, <3>1, <3>2, <3>3, OtherSlips DEF FileStep
  <2>4. CASE TarStep
    <3>0. TarStart \/ TarCreated => KnownSlips
      BY <1>2, ReopenedSlips, DeadKnown
    <3>1. TarArgument \/ TarEntry \/ TarDirEnd \/ TarEnd => slips' = slips
      BY DEF TarArgument, TarEntry, TarDirEnd, TarEnd, TarGoes
    <3>2. TarHeader \/ TarMkdirs \/ TarExtract \/ TarShut => slips' = slips
      BY DEF TarHeader, TarMkdirs, TarExtract, TarShut
    <3>3. QED BY SMTT(40), <1>2, <2>4, <3>0, <3>1, <3>2 DEF TarStep
  <2>5. CASE CcStep \/ UserStep
    BY <2>5, CcSlips
  <2>6. CASE Type
    BY <2>6, OtherSlips
  <2>7. QED BY <2>1, <2>2, <2>3, <2>4, <2>5, <2>6 DEF Next, Work
<1>3. QED BY <1>1, <1>2

\* Undefined behaviour has its known causes: each place where a command can meet it is reached in one way.
THEOREM SlipsCorrect ==
  Spec => SlipsAreKnown
<1>1. Init => SlipInv /\ DeadOK
  BY StartsUp DEF SlipInv, InSession, Init, DeadOK
<1>2. PInv /\ SlipInv /\ DeadOK /\ [Next]_vars => SlipInv' /\ DeadOK'
  BY SlipStep, DeadStep
<1>3. PInv /\ SlipInv /\ DeadOK /\ [Next]_vars => [\A s \in slips' \ slips : Known(s[1])]_slips
  BY SlipStep DEF KnownSlips
<1>4. QED BY <1>1, <1>2, <1>3, Invariance, PTL DEF Spec, SlipsAreKnown

-----------------------------------------------------------------------------
(* rm: the stack of directories holds all that is left of the tree below   *)
(* the one asked for, as long as every read has told the truth.            *)

Subdirs(t, p) == {q \in Children(t, p) : t[q].dir}
\* Each directory is in the one above.  What is not read of one are its directories yet to come, but for that
\* already on the stack; in the last, its files.
Nested(s, t, r) ==
  /\ s[1].dir = r
  /\ \A k \in 1 .. Len(s) :
       /\ IsDir(t, s[k].dir) /\ Len(s[k].dir) = Len(r) + k - 1
       /\ IF k < Len(s) THEN Subdirs(t, s[k].dir) = s[k].unread \cup {s[k + 1].dir} /\ s[k + 1].dir \notin s[k].unread
          ELSE IF s[k].pass = "files" THEN Children(t, s[k].dir) = s[k].unread
          ELSE Subdirs(t, s[k].dir) = s[k].unread

RmInv ==
  /\ cmd.op = "rm" /\ cmd.at \in {"start", "count", "remove"} => tree = before
  /\ At("rm", "count") => IsDir(tree, PathOf(1))
  /\ At("rm", "clean") /\ Frames = << >> => tree = before /\ IsDir(tree, PathOf(1))
  /\ At("rm", "clean") /\ Frames # << >> /\ "read" \notin faulted => Nested(Frames, tree, PathOf(1))
  /\ At("rm", "done") /\ "read" \notin faulted =>
       IF cmd.said = "removed" THEN \A p \in DOMAIN tree : ~Under(PathOf(1), p)
       ELSE faulted # {} \/ PathOf(1) = Root \/ tree = before

\* An entry removed.
LEMMA Removal ==
  ASSUME NEW t, NEW p, NEW q
  PROVE  /\ Children(Without(t, {p}), q) = Children(t, q) \ {p}
         /\ Subdirs(Without(t, {p}), q) = Subdirs(t, q) \ {p}
         /\ IsDir(Without(t, {p}), q) <=> IsDir(t, q) /\ q # p
<1> DEFINE u == Without(t, {p})
<1>1. DOMAIN u = DOMAIN t \ {p} /\ \A c \in DOMAIN u : u[c] = t[c]
  BY DEF Without
<1> HIDE DEF u
<1>2. Children(u, q) = Children(t, q) \ {p}
  BY <1>1 DEF Children
<1>3. \A c \in Children(u, q) : u[c] = t[c]
  BY <1>1 DEF Children
<1>4. Subdirs(u, q) = Subdirs(t, q) \ {p}
  BY <1>2, <1>3 DEF Subdirs
<1>5. IsDir(u, q) <=> IsDir(t, q) /\ q # p
  BY <1>1 DEF IsDir, Exists
<1>6. QED BY <1>2, <1>4, <1>5 DEF u

\* A path is longer than that of the directory it is in.
LEMMA ChildLonger ==
  ASSUME NEW t, WellFormed(t), NEW d, NEW q \in Children(t, d)
  PROVE  Len(q) = Len(d) + 1 /\ q # Root /\ q \in DOMAIN t
<1>1. q \in DOMAIN t /\ q # Root /\ Front(q) = d /\ IsSequence(q)
  BY DEF Children, WellFormed
<1>2. Len(Front(q)) = Len(q) - 1 /\ Len(q) \in Nat
  BY <1>1, FrontFacts, SequenceFacts DEF Root
<1>3. QED BY <1>1, <1>2

\* The last of the stack.
LEMMA NestedLast ==
  ASSUME NEW s, NEW t, NEW r, IsSequence(s), s # << >>, Nested(s, t, r)
  PROVE  /\ IsDir(t, s[Len(s)].dir) /\ Len(s) \in Nat /\ Len(s) >= 1 /\ Len(s[Len(s)].dir) = Len(r) + Len(s) - 1
         /\ IF s[Len(s)].pass = "files" THEN Children(t, s[Len(s)].dir) = s[Len(s)].unread
            ELSE Subdirs(t, s[Len(s)].dir) = s[Len(s)].unread
<1>1. Len(s) \in Nat /\ Len(s) >= 1
  BY FrontFacts, SequenceFacts
<1>2. Len(s) \in 1 .. Len(s) /\ ~(Len(s) < Len(s))
  BY <1>1
<1>3. QED BY <1>1, <1>2 DEF Nested

\* A directory is taken from the last and pushed.
LEMMA NestedPushed ==
  ASSUME NEW s, NEW t, NEW r, IsSequence(r), WellFormed(t), IsSequence(s), s # << >>, Nested(s, t, r), s[Len(s)].pass = "dirs",
         NEW p \in s[Len(s)].unread, NEW f, f.dir = s[Len(s)].dir, f.unread = s[Len(s)].unread \ {p},
         NEW g, g.dir = p, g.pass = "dirs", g.unread = Subdirs(t, p)
  PROVE  Nested(Append(Append(Front(s), f), g), t, r)
<1> DEFINE n == Len(s)
           m == Append(Front(s), f)
           u == Append(m, g)
<1>1. IsSequence(m) /\ Len(m) = n /\ n \in Nat /\ n >= 1 /\ \A k \in 1 .. n : m[k] = IF k = n THEN f ELSE s[k]
  BY TopFacts
<1> HIDE DEF m
<1>2. Len(u) = n + 1 /\ (\A k \in 1 .. n : u[k] = m[k]) /\ u[n + 1] = g
  BY <1>1, AppendFacts
<1> HIDE DEF u
<1>3. IsDir(t, s[n].dir) /\ Len(s[n].dir) = Len(r) + n - 1 /\ Subdirs(t, s[n].dir) = s[n].unread
  BY NestedLast
<1>4. IsDir(t, p) /\ Len(p) = Len(s[n].dir) + 1
  <2>1. p \in Children(t, s[n].dir) /\ t[p].dir
    BY <1>3 DEF Subdirs
  <2>2. QED BY <2>1, ChildLonger DEF IsDir, Exists
<1>5. Len(r) \in Nat
  BY SequenceFacts
<1>6. ASSUME NEW k \in 1 .. n - 1
      PROVE  u[k] = s[k] /\ u[k + 1].dir = s[k + 1].dir /\ k < Len(s) /\ k < Len(u) /\ k \in 1 .. Len(s)
  <2>1. u[k] = m[k] /\ m[k] = s[k]
    BY <1>1, <1>2
  <2>2. k + 1 \in 1 .. n
    BY <1>1
  <2>3. u[k + 1] = m[k + 1] /\ m[k + 1] = IF k + 1 = n THEN f ELSE s[k + 1]
    BY <1>1, <1>2, <2>2
  <2>4. QED BY <1>1, <1>2, <2>1, <2>3
<1>7. u[1].dir = r
  <2>1. s[1].dir = r
    BY DEF Nested
  <2>2. u[1] = m[1] /\ m[1] = IF 1 = n THEN f ELSE s[1]
    BY <1>1, <1>2
  <2>3. QED BY <2>1, <2>2
<1>8. ASSUME NEW k \in 1 .. Len(u)
      PROVE  /\ IsDir(t, u[k].dir) /\ Len(u[k].dir) = Len(r) + k - 1
             /\ IF k < Len(u) THEN Subdirs(t, u[k].dir) = u[k].unread \cup {u[k + 1].dir} /\ u[k + 1].dir \notin u[k].unread
                ELSE IF u[k].pass = "files" THEN Children(t, u[k].dir) = u[k].unread
                ELSE Subdirs(t, u[k].dir) = u[k].unread
  <2>1. CASE k \in 1 .. n - 1
    BY <1>6, <2>1 DEF Nested
  <2>2. CASE k = n
    <3>1. u[k] = f /\ u[k + 1] = g /\ k < Len(u)
      BY <1>1, <1>2, <2>2
    <3>2. s[n].unread = f.unread \cup {g.dir} /\ g.dir \notin f.unread
      OBVIOUS
    <3>3. QED BY <1>3, <2>2, <3>1, <3>2
  <2>3. CASE k = n + 1
    <3>1. u[k] = g /\ ~(k < Len(u))
      BY <1>1, <1>2, <2>3
    <3>2. QED BY <1>1, <1>3, <1>4, <1>5, <2>3, <3>1
  <2>4. QED BY <1>1, <1>2, <2>1, <2>2, <2>3
<1>9. QED BY <1>7, <1>8 DEF Nested, u, m

\* The first.
LEMMA NestedFirst ==
  ASSUME NEW t, NEW r, IsSequence(r), IsDir(t, r), NEW g, g.dir = r, g.pass = "dirs", g.unread = Subdirs(t, r)
  PROVE  Nested(Append(<< >>, g), t, r)
<1> DEFINE u == Append(<< >>, g)
<1>1. Len(u) = 1 /\ u[1] = g
  <2>1. u = <<g>>
    OBVIOUS
  <2>2. QED BY <2>1, OneFacts
<1> HIDE DEF u
<1>2. Len(r) \in Nat
  BY SequenceFacts
<1>3. \A k \in 1 .. Len(u) : k = 1 /\ ~(k < Len(u))
  BY <1>1
<1>4. QED BY <1>1, <1>2, <1>3 DEF Nested, u

\* The last is read for files, in a tree with the same directories.
LEMMA NestedFiles ==
  ASSUME NEW s, NEW t, NEW r, IsSequence(s), s # << >>, Nested(s, t, r),
         NEW u, \A d : IsDir(t, d) => IsDir(u, d), \A k \in 1 .. Len(s) - 1 : Subdirs(u, s[k].dir) = Subdirs(t, s[k].dir),
         NEW f, f.dir = s[Len(s)].dir, f.pass = "files", f.unread = Children(u, f.dir)
  PROVE  Nested(Append(Front(s), f), u, r)
<1> DEFINE n == Len(s)
           m == Append(Front(s), f)
<1>1. Len(m) = n /\ n \in Nat /\ n >= 1 /\ \A k \in 1 .. n : m[k] = IF k = n THEN f ELSE s[k]
  BY TopFacts
<1> HIDE DEF m
<1>2. IsDir(t, s[n].dir) /\ Len(s[n].dir) = Len(r) + n - 1
  BY NestedLast
<1>3. m[1].dir = r
  <2>1. s[1].dir = r
    BY DEF Nested
  <2>2. m[1] = IF 1 = n THEN f ELSE s[1]
    BY <1>1
  <2>3. QED BY <2>1, <2>2
<1>4. ASSUME NEW k \in 1 .. Len(m)
      PROVE  /\ IsDir(u, m[k].dir) /\ Len(m[k].dir) = Len(r) + k - 1
             /\ IF k < Len(m) THEN Subdirs(u, m[k].dir) = m[k].unread \cup {m[k + 1].dir} /\ m[k + 1].dir \notin m[k].unread
                ELSE IF m[k].pass = "files" THEN Children(u, m[k].dir) = m[k].unread
                ELSE Subdirs(u, m[k].dir) = m[k].unread
  <2>1. CASE k \in 1 .. n - 1
    <3>1. m[k] = s[k] /\ k < Len(s) /\ k \in 1 .. Len(s) /\ k < Len(m)
      BY <1>1, <2>1
    <3>2. m[k + 1].dir = s[k + 1].dir
      <4>1. k + 1 \in 1 .. n
        BY <1>1, <2>1
      <4>2. m[k + 1] = IF k + 1 = n THEN f ELSE s[k + 1]
        BY <1>1, <4>1
      <4>3. QED BY <4>2
    <3>3. /\ IsDir(t, s[k].dir) /\ Len(s[k].dir) = Len(r) + k - 1
          /\ Subdirs(t, s[k].dir) = s[k].unread \cup {s[k + 1].dir} /\ s[k + 1].dir \notin s[k].unread
      BY <3>1 DEF Nested
    <3>4. Subdirs(u, s[k].dir) = Subdirs(t, s[k].dir)
      BY <2>1
    <3>5. IsDir(u, s[k].dir)
      BY <3>3
    <3>6. QED BY <3>1, <3>2, <3>3, <3>4, <3>5
  <2>2. CASE k = n
    <3>1. m[k] = f /\ ~(k < Len(m))
      BY <1>1, <2>2
    <3>2. IsDir(u, f.dir)
      BY <1>2
    <3>3. QED BY <1>2, <2>2, <3>1, <3>2
  <2>3. QED BY <1>1, <2>1, <2>2
<1>5. QED BY <1>3, <1>4 DEF Nested, m

\* The last has been removed.
LEMMA NestedPopped ==
  ASSUME NEW s, NEW t, NEW r, IsSequence(r), WellFormed(t), IsSequence(s), Nested(s, t, r), Len(s) > 1,
         s[Len(s) - 1].pass # "files"
  PROVE  Nested(Front(s), Without(t, {s[Len(s)].dir}), r)
<1> DEFINE n == Len(s)
           m == Front(s)
           p == s[n].dir
           u == Without(t, {p})
<1>1. s # << >> /\ n \in Nat /\ Len(r) \in Nat
  BY SequenceFacts, NoContent
<1>2. Len(m) = n - 1 /\ \A k \in 1 .. n - 1 : m[k] = s[k]
  BY <1>1, FrontFacts
<1> HIDE DEF m
<1>3. \A d : Subdirs(u, d) = Subdirs(t, d) \ {p} /\ (IsDir(u, d) <=> IsDir(t, d) /\ d # p)
  <2> HIDE DEF p
  <2>1. ASSUME NEW d
        PROVE  Subdirs(u, d) = Subdirs(t, d) \ {p} /\ (IsDir(u, d) <=> IsDir(t, d) /\ d # p)
    BY Removal
  <2>2. QED BY <2>1
<1>4. Len(p) = Len(r) + n - 1
  BY <1>1, NestedLast
<1> HIDE DEF u, p
<1>5. ASSUME NEW k \in 1 .. n - 1
      PROVE  /\ IsDir(t, s[k].dir) /\ Len(s[k].dir) = Len(r) + k - 1 /\ s[k].dir # p
             /\ Subdirs(t, s[k].dir) = s[k].unread \cup {s[k + 1].dir} /\ s[k + 1].dir \notin s[k].unread
  <2>1. k \in 1 .. Len(s) /\ k < Len(s)
    BY <1>1
  <2>2. /\ IsDir(t, s[k].dir) /\ Len(s[k].dir) = Len(r) + k - 1
        /\ Subdirs(t, s[k].dir) = s[k].unread \cup {s[k + 1].dir} /\ s[k + 1].dir \notin s[k].unread
    BY <2>1 DEF Nested
  <2>3. Len(s[k].dir) # Len(p)
    BY <1>1, <1>4, <2>2
  <2>4. QED BY <2>2, <2>3
<1>6. m[1].dir = r
  BY <1>1, <1>2 DEF Nested
<1>7. ASSUME NEW k \in 1 .. Len(m)
      PROVE  /\ IsDir(u, m[k].dir) /\ Len(m[k].dir) = Len(r) + k - 1
             /\ IF k < Len(m) THEN Subdirs(u, m[k].dir) = m[k].unread \cup {m[k + 1].dir} /\ m[k + 1].dir \notin m[k].unread
                ELSE IF m[k].pass = "files" THEN Children(u, m[k].dir) = m[k].unread
                ELSE Subdirs(u, m[k].dir) = m[k].unread
  <2>1. k \in 1 .. n - 1 /\ m[k] = s[k] /\ IsDir(u, m[k].dir)
    BY <1>2, <1>3, <1>5
  <2>2. CASE k < Len(m)
    <3>1. m[k + 1] = s[k + 1] /\ k + 1 \in 1 .. n - 1
      BY <1>1, <1>2, <2>2
    <3>2. s[k + 1].dir # p
      BY <1>5, <3>1
    <3>3. p \notin Subdirs(t, s[k].dir)
      <4>1. \A q \in Subdirs(t, s[k].dir) : Len(q) = Len(s[k].dir) + 1
        BY ChildLonger DEF Subdirs
      <4>2. Len(s[k].dir) + 1 # Len(p)
        BY SMTT(40), <1>1, <1>4, <1>5, <2>1, <3>1
      <4>3. QED BY <4>1, <4>2
    <3>4. Subdirs(u, s[k].dir) = Subdirs(t, s[k].dir)
      BY <1>3, <3>3
    <3>5. QED BY <1>5, <2>1, <2>2, <3>1, <3>4
  <2>3. CASE ~(k < Len(m))
    <3>1. k = n - 1 /\ s[k + 1].dir = p
      BY <1>1, <1>2, <2>1, <2>3 DEF p
    <3>2. Subdirs(t, s[k].dir) = s[k].unread \cup {p} /\ p \notin s[k].unread
      BY <1>5, <2>1, <3>1
    <3>3. Subdirs(u, s[k].dir) = s[k].unread
      BY <1>3, <3>2
    <3>4. QED BY <1>5, <2>1, <2>3, <3>1, <3>3
  <2>4. QED BY <2>2, <2>3
<1>8. Nested(m, u, r)
  BY <1>6, <1>7 DEF Nested
<1>9. QED BY <1>8 DEF m, u, p

LEMMA SamePaths ==
  ASSUME cmd'.line = cmd.line, sh_pwd' = sh_pwd
  PROVE  \A k : PathOf(k)' = PathOf(k)
BY DEF PathOf, FullPath, Up, Line

\* rm goes on cleaning.
LEMMA RmCleans ==
  ASSUME PInv, Within, cmd.op = "rm", NEW v, Goes("clean", v), v.stack # << >>,
         "read" \notin faulted' => Nested(v.stack, tree', PathOf(1))
  PROVE  RmInv'
<1>1. CmdOK
  BY DEF PInv
<1>2. cmd'.op = "rm" /\ cmd'.line = cmd.line /\ cmd'.at = "clean" /\ cmd'.v = v
  BY <1>1, GoesIs
<1>3. PathOf(1)' = PathOf(1)
  BY <1>2, SamePaths DEF Within
<1>4. Frames' = v.stack
  BY <1>2 DEF Frames
<1>5. "read" \notin faulted' => Nested(v.stack, tree', PathOf(1)')
  BY <1>3
<1>6. "read" \notin faulted' => Nested(Frames, tree, PathOf(1))'
  BY <1>4, <1>5 DEF Nested, Subdirs, Children, IsDir, Exists
<1>7. QED BY <1>2, <1>4, <1>6 DEF RmInv, At

\* rm ends.
LEMMA RmEnds ==
  ASSUME PInv, Within, cmd.op = "rm", NEW said, Answers(said),
         "read" \notin faulted' =>
           IF said = "removed" THEN \A p \in DOMAIN tree' : ~Under(PathOf(1), p)
           ELSE faulted' # {} \/ PathOf(1) = Root \/ tree' = before
  PROVE  RmInv'
<1>1. CmdOK
  BY DEF PInv
<1>2. cmd'.op = "rm" /\ cmd'.line = cmd.line /\ cmd'.at = "done" /\ cmd'.said = said
  BY <1>1, AnswersIs
<1>3. PathOf(1)' = PathOf(1) /\ before' = before
  BY <1>2, SamePaths DEF Within
<1>4. "read" \notin faulted' =>
        IF said = "removed" THEN \A p \in DOMAIN tree' : ~Under(PathOf(1)', p)
        ELSE faulted' # {} \/ PathOf(1)' = Root \/ tree' = before'
  BY <1>3
<1>5. QED BY <1>2, <1>4 DEF RmInv, At

\* A stop on the way is a failed call, if the directories are those on the stack.
LEMMA RmGivesUp ==
  ASSUME PInv, Within, cmd.op = "rm", GiveUp, "read" \notin faulted' => faulted' # {} \/ PathOf(1) = Root \/ tree' = before
  PROVE  RmInv'
<1>1. Answers("gave up") /\ "gave up" # "removed"
  BY DEF GiveUp
<1>2. QED BY <1>1, RmEnds

\* What has been removed is not there any more, nor anything below it.
LEMMA Gone ==
  ASSUME NEW t, WellFormed(t), NEW p, IsSequence(p), CanRemove(t, p), NEW q \in DOMAIN Without(t, {p})
  PROVE  ~Under(p, q)
<1>1. q \in DOMAIN t /\ q # p /\ Children(t, p) = {} /\ IsSequence(q)
  BY DEF Without, CanRemove, WellFormed
<1>2. Len(p) \in Nat /\ Len(q) \in Nat
  BY <1>1, SequenceFacts
<1> SUFFICES ASSUME Under(p, q) PROVE FALSE
  OBVIOUS
<1>3. Len(p) <= Len(q) /\ \A k \in 1 .. Len(p) : p[k] = q[k]
  BY <1>1, PrefixFacts
<1>4. CASE Len(p) = Len(q)
  BY <1>1, <1>2, <1>3, <1>4, SameSequence
<1>5. CASE Len(p) < Len(q)
  <2>1. Len(p) \in 0 .. Len(q) - 1 /\ Len(p) \in 0 .. Len(q)
    BY <1>2, <1>5
  <2>2. SubSeq(q, 1, Len(p)) # p
    BY <1>1, <2>1, NothingBelow
  <2>3. IsSequence(SubSeq(q, 1, Len(p))) /\ Len(SubSeq(q, 1, Len(p))) = Len(p)
        /\ \A k \in 1 .. Len(p) : SubSeq(q, 1, Len(p))[k] = q[k]
    BY <1>1, <2>1, PrefixSeq
  <2>4. SubSeq(q, 1, Len(p)) = p
    BY <1>3, <2>3, SameSequence
  <2>5. QED BY <2>2, <2>4
<1>6. QED BY <1>2, <1>3, <1>4, <1>5

LEMMA RmPath ==
  ASSUME PInv, cmd.op = "rm"
  PROVE  IsSequence(PathOf(1)) /\ 1 \in DOMAIN Line.args /\ WellFormed(tree)
<1>1. cmd.op \in Commands /\ cmd.op # "cd"
  BY DEF Commands
<1>2. 1 \in 1 .. Len(Line.args)
  BY <1>1, Arguments DEF PInv
<1>3. IsSequence(PathOf(1))
  BY <1>1, <1>2, ArgumentIs DEF PInv
<1>4. IsSequence(Line.args)
  BY <1>1, Arguments DEF PInv
<1>5. QED BY <1>2, <1>3, <1>4, SequenceFacts DEF PInv, TypeOK

LEMMA RmFirstSteps ==
  ASSUME PInv, RmInv, RmStart \/ RmCount \/ RmRemove
  PROVE  RmInv'
<1>1. cmd.op = "rm" /\ Within /\ tree = before
  BY FileOps DEF RmStart, RmCount, RmRemove, RmInv, At
<1>2. IsSequence(PathOf(1)) /\ WellFormed(tree) /\ CmdOK
  BY <1>1, RmPath DEF PInv
<1>3. ASSUME UNCHANGED tree, NEW said, Answers(said), said # "removed"
      PROVE  RmInv'
  BY <1>1, <1>3, RmEnds
<1>4. ASSUME UNCHANGED tree, NEW at, at \in {"count", "remove", "spin", "clean"}, NEW v, Goes(at, v),
             at \in {"count", "clean"} => IsDir(tree, PathOf(1)), at = "clean" => v.stack = << >>
      PROVE  RmInv'
  <2>1. cmd'.op = "rm" /\ cmd'.line = cmd.line /\ cmd'.at = at /\ cmd'.v = v
    BY <1>1, <1>2, <1>4, GoesIs
  <2>2. PathOf(1)' = PathOf(1) /\ before' = before
    BY <1>1, <2>1, SamePaths DEF Within
  <2>3. at \in {"count", "clean"} => IsDir(tree', PathOf(1)')
    BY <1>4, <2>2
  <2>4. QED BY <1>1, <1>4, <2>1, <2>2, <2>3 DEF RmInv, At, Frames
<1>5. CASE RmStart
  <2>1. \/ UNCHANGED tree /\ Answers("not found")
        \/ UNCHANGED tree /\ IsDir(tree, PathOf(1)) /\ Goes("count", [stack |-> << >>])
        \/ UNCHANGED tree /\ Goes("remove", [stack |-> << >>])
    BY <1>5 DEF RmStart
  <2>2. QED BY <1>3, <1>4, <2>1
<1>6. CASE RmCount
  <2>1. IsDir(tree, PathOf(1)) /\ cmd.v.stack = << >> /\ tree' = tree
    BY <1>6 DEF RmCount, RmInv, PInv, CleanOK, Frames
  <2>2. Answers("not empty") \/ \E at \in {"spin", "remove", "clean"} : Goes(at, cmd.v)
    BY <1>6 DEF RmCount
  <2>3. QED BY <1>3, <1>4, <2>1, <2>2
<1>7. CASE RmRemove
  <2>1. \/ UNCHANGED tree /\ Answers("can't remove")
        \/ CanRemove(tree, PathOf(1)) /\ tree' = Without(tree, {PathOf(1)}) /\ Answers("removed")
    BY <1>7 DEF RmRemove
  <2>2. CASE CanRemove(tree, PathOf(1)) /\ tree' = Without(tree, {PathOf(1)}) /\ Answers("removed")
    <3>1. \A p \in DOMAIN tree' : ~Under(PathOf(1), p)
      BY <1>2, <2>2, Gone
    <3>2. QED BY <1>1, <2>2, <3>1, RmEnds
  <2>3. QED BY <1>3, <2>1, <2>2
<1>8. QED BY <1>5, <1>6, <1>7

\* What rm knows while it cleans.
LEMMA RmHas ==
  ASSUME PInv, RmInv, At("rm", "clean")
  PROVE  /\ cmd.op = "rm" /\ IsSequence(PathOf(1)) /\ WellFormed(tree) /\ DOMAIN cmd.v = {"stack"}
         /\ StackOK(Frames, tree) /\ IsSequence(Frames)
         /\ Frames = << >> => tree = before /\ IsDir(tree, PathOf(1))
         /\ Frames # << >> /\ "read" \notin faulted => Nested(Frames, tree, PathOf(1))
BY CleanHas DEF RmInv, StackOK

LEMMA SubdirsAre ==
  ASSUME WellFormed(tree), NEW p
  PROVE  /\ Of(Children(tree, p), TRUE) = Subdirs(tree, p)
         /\ Subdirs(tree, p) = {} => Of(Children(tree, p), FALSE) = Children(tree, p)
<1>1. \A q \in Children(tree, p) : tree[q].dir \in BOOLEAN
  BY DEF Children, WellFormed, IsNode
<1>2. QED BY <1>1 DEF Of, Subdirs

LEMMA RmOpens ==
  ASSUME PInv, RmInv, CleanOpen
  PROVE  RmInv'
<1>1. At("rm", "clean") /\ Within /\ UNCHANGED tree /\ (Frames = << >> \/ (Top.pass = "dirs" /\ Frames # << >>))
  BY DEF CleanOpen
<1>2. /\ cmd.op = "rm" /\ IsSequence(PathOf(1)) /\ WellFormed(tree) /\ StackOK(Frames, tree) /\ IsSequence(Frames)
      /\ Frames = << >> => tree = before /\ IsDir(tree, PathOf(1))
      /\ Frames # << >> /\ "read" \notin faulted => Nested(Frames, tree, PathOf(1))
  BY <1>1, RmHas
<1> DEFINE Above(p) == IF Frames = << >> THEN << >> ELSE Append(Front(Frames), [Top EXCEPT !.unread = @ \ {p}])
           Frame(p) == [dir |-> p, pass |-> "dirs", unread |-> Of(Children(tree, p), TRUE)]
<1>3. PICK p \in IF Frames = << >> THEN {PathOf(1)} ELSE Top.unread, r \in Outcomes :
        /\ Suffers(r, "open")
        /\ IF r = "bad" \/ ~IsDir(tree, p) THEN GiveUp ELSE Goes("clean", [stack |-> Append(Above(p), Frame(p))])
  BY DEF CleanOpen
<1>4. faulted \subseteq faulted' /\ (r # "ok" => "open" \in faulted') /\ r \in {"ok", "bad"}
  BY <1>3, SuffersOnly
<1>5. "read" \notin faulted' => IsDir(tree, p)
  <2>1. CASE Frames = << >>
    BY <1>2, <1>3, <2>1
  <2>2. CASE Frames # << >> /\ "read" \notin faulted
    <3>1. Subdirs(tree, Top.dir) = Top.unread
      BY <1>1, <1>2, <2>2, NestedLast DEF Top
    <3>2. p \in Subdirs(tree, Top.dir)
      BY <1>3, <2>2, <3>1
    <3>3. QED BY <3>2 DEF Subdirs, Children, IsDir, Exists
  <2>3. QED BY <1>4, <2>1, <2>2
<1>6. CASE r = "bad" \/ ~IsDir(tree, p)
  <2>1. GiveUp
    BY <1>3, <1>6
  <2>2. "read" \notin faulted' => faulted' # {}
    BY <1>4, <1>5, <1>6
  <2>3. QED BY <1>1, <1>2, <2>1, <2>2, RmGivesUp
<1>7. CASE ~(r = "bad" \/ ~IsDir(tree, p))
  <2> DEFINE s == Append(Above(p), Frame(p))
             v == [stack |-> s]
  <2>1. Goes("clean", v) /\ v.stack = s
    BY <1>3, <1>7
  <2>2. Frame(p).dir = p /\ Frame(p).pass = "dirs" /\ Frame(p).unread = Subdirs(tree, p)
    BY <1>2, SubdirsAre
  <2> HIDE DEF Frame
  <2>3. IsSequence(Above(p))
    BY <1>2, TopFacts, NoContent
  <2>4. s # << >>
    <3>1. Len(s) = Len(Above(p)) + 1 /\ Len(Above(p)) \in Nat
      BY <2>3, AppendFacts, SequenceFacts
    <3> HIDE DEF s
    <3>2. Len(<< >>) = 0
      OBVIOUS
    <3>3. QED BY <3>1, <3>2
  <2>5. "read" \notin faulted' => Nested(s, tree, PathOf(1))
    <3>1. CASE Frames = << >>
      <4>1. p = PathOf(1) /\ Above(p) = << >>
        BY <1>3, <3>1
      <4>2. QED BY <1>2, <1>7, <2>2, <4>1, NestedFirst
    <3>2. CASE Frames # << >> /\ "read" \notin faulted
      <4> DEFINE f == [Top EXCEPT !.unread = @ \ {p}]
      <4>1. f.dir = Top.dir /\ f.unread = Top.unread \ {p}
        <5>1. IsFrame(Top, tree)
          BY <1>1, <3>2, CleanHas
        <5>2. Top = [dir |-> Top.dir, pass |-> Top.pass, unread |-> Top.unread]
          BY <5>1 DEF IsFrame
        <5>3. DOMAIN Top = {"dir", "pass", "unread"}
          BY <5>2
        <5>4. QED BY <5>3
      <4>2. Above(p) = Append(Front(Frames), f)
        BY <3>2
      <4> HIDE DEF f, Above
      <4>3. Nested(Frames, tree, PathOf(1)) /\ Frames[Len(Frames)].pass = "dirs" /\ p \in Frames[Len(Frames)].unread
        BY <1>1, <1>2, <1>3, <3>2 DEF Top
      <4>4. f.dir = Frames[Len(Frames)].dir /\ f.unread = Frames[Len(Frames)].unread \ {p}
        BY <4>1 DEF Top
      <4>5. Nested(Append(Append(Front(Frames), f), Frame(p)), tree, PathOf(1))
        BY <1>2, <2>2, <3>2, <4>3, <4>4, NestedPushed
      <4>6. QED BY <4>2, <4>5
    <3>3. QED BY <1>4, <3>1, <3>2
  <2>6. tree' = tree
    BY <1>1
  <2> HIDE DEF s, v
  <2>7. QED BY <1>1, <1>2, <2>1, <2>4, <2>5, <2>6, RmCleans
<1>8. QED BY <1>6, <1>7

LEMMA RmRewinds ==
  ASSUME PInv, RmInv, CleanRewind
  PROVE  RmInv'
<1>1. At("rm", "clean") /\ Within /\ UNCHANGED tree /\ Frames # << >> /\ Top.pass = "dirs"
  BY DEF CleanRewind
<1>2. /\ cmd.op = "rm" /\ WellFormed(tree) /\ IsSequence(Frames) /\ DOMAIN cmd.v = {"stack"}
      /\ "read" \notin faulted => Nested(Frames, tree, PathOf(1))
  BY <1>1, RmHas
<1> DEFINE f == [Top EXCEPT !.pass = "files", !.unread = Files]
           s == Append(Front(Frames), f)
           v == WithTop(f)
<1>3. PICK r \in Outcomes : (r = "ok" => Top.unread = {}) /\ Suffers(r, "read") /\ Goes("clean", v)
  BY DEF CleanRewind
<1>4. faulted \subseteq faulted' /\ (r # "ok" => "read" \in faulted')
  BY <1>3, SuffersOnly
<1>5. f.dir = Frames[Len(Frames)].dir /\ f.pass = "files" /\ f.unread = Files
  <2>1. IsFrame(Top, tree)
    BY <1>1, CleanHas
  <2>2. Top = [dir |-> Top.dir, pass |-> Top.pass, unread |-> Top.unread]
    BY <2>1 DEF IsFrame
  <2>3. DOMAIN Top = {"dir", "pass", "unread"}
    BY <2>2
  <2>4. QED BY <2>3 DEF Top
<1>6. v.stack = s
  BY <1>2 DEF WithTop
<1>7. s # << >>
  <2> HIDE DEF f
  <2>1. Len(s) >= 1
    BY <1>1, <1>2, TopFacts
  <2>2. QED BY <2>1, NoContent
<1>8. "read" \notin faulted' => Nested(s, tree, PathOf(1))
  <2> SUFFICES ASSUME "read" \notin faulted' PROVE Nested(s, tree, PathOf(1))
    OBVIOUS
  <2>1. Nested(Frames, tree, PathOf(1)) /\ Top.unread = {}
    BY <1>2, <1>3, <1>4
  <2>2. Subdirs(tree, Top.dir) = {}
    BY <1>1, <1>2, <2>1, NestedLast DEF Top
  <2>3. Files = Children(tree, Top.dir)
    BY <1>2, <2>2, SubdirsAre DEF Files
  <2>4. f.unread = Children(tree, f.dir)
    BY <1>5, <2>3 DEF Top
  <2> HIDE DEF f
  <2>5. QED BY <1>1, <1>2, <1>5, <2>1, <2>4, NestedFiles
<1> HIDE DEF s, v
<1>9. tree' = tree
  BY <1>1
<1>10. QED BY <1>1, <1>2, <1>3, <1>6, <1>7, <1>8, <1>9, RmCleans

LEMMA RmFiles ==
  ASSUME PInv, RmInv, CleanFile
  PROVE  RmInv'
<1>1. At("rm", "clean") /\ Within /\ Frames # << >> /\ Top.pass = "files"
  BY DEF CleanFile
<1>2. /\ cmd.op = "rm" /\ WellFormed(tree) /\ IsSequence(Frames) /\ DOMAIN cmd.v = {"stack"}
      /\ "read" \notin faulted => Nested(Frames, tree, PathOf(1))
  BY <1>1, RmHas
<1>3. PICK p \in Top.unread, r \in Outcomes :
        /\ Suffers(r, "remove")
        /\ IF r = "bad" THEN GiveUp
           ELSE tree' = Without(tree, {p}) /\ Goes("clean", WithTop([Top EXCEPT !.unread = @ \ {p}]))
  BY DEF CleanFile
<1>4. faulted \subseteq faulted' /\ (r # "ok" => "remove" \in faulted')
  BY <1>3, SuffersOnly
<1>5. CASE r = "bad"
  <2>1. GiveUp /\ faulted' # {}
    BY <1>3, <1>4, <1>5
  <2>2. QED BY <1>1, <1>2, <2>1, RmGivesUp
<1>6. CASE r # "bad"
  <2> DEFINE f == [Top EXCEPT !.unread = @ \ {p}]
             s == Append(Front(Frames), f)
             v == WithTop(f)
  <2>1. tree' = Without(tree, {p}) /\ Goes("clean", v)
    BY <1>3, <1>6
  <2>2. IsFrame(Top, tree)
    BY <1>1, CleanHas
  <2>3. f.dir = Frames[Len(Frames)].dir /\ f.pass = "files" /\ f.unread = Top.unread \ {p}
    <3>1. Top = [dir |-> Top.dir, pass |-> Top.pass, unread |-> Top.unread]
      BY <2>2 DEF IsFrame
    <3>2. DOMAIN Top = {"dir", "pass", "unread"}
      BY <3>1
    <3>3. QED BY <1>1, <3>2 DEF Top
  <2>4. v.stack = s
    BY <1>2 DEF WithTop
  <2>5. IsFile(tree, p)
    BY <1>1, <2>2 DEF IsFrame
  <2> HIDE DEF f
  <2>6. s # << >>
    <3>1. Len(s) >= 1
      BY <1>1, <1>2, TopFacts
    <3>2. QED BY <3>1, NoContent
  <2>7. "read" \notin faulted' => Nested(s, tree', PathOf(1))
    <3> SUFFICES ASSUME "read" \notin faulted' PROVE Nested(s, tree', PathOf(1))
      OBVIOUS
    <3>1. Nested(Frames, tree, PathOf(1))
      BY <1>2, <1>4
    <3>2. \A d : Children(tree', d) = Children(tree, d) \ {p}
      <4>1. ASSUME NEW d
            PROVE  Children(tree', d) = Children(tree, d) \ {p}
        BY <2>1, Removal
      <4>2. QED BY <4>1
    <3>3. \A d : Subdirs(tree', d) = Subdirs(tree, d)
      <4>1. ASSUME NEW d
            PROVE  Subdirs(tree', d) = Subdirs(tree, d)
        <5>1. Subdirs(tree', d) = Subdirs(tree, d) \ {p}
          BY <2>1, Removal
        <5>2. p \notin Subdirs(tree, d)
          BY <2>5 DEF Subdirs, IsFile
        <5>3. QED BY <5>1, <5>2
      <4>2. QED BY <4>1
    <3>4. \A d : IsDir(tree, d) => IsDir(tree', d)
      <4>1. ASSUME NEW d, IsDir(tree, d)
            PROVE  IsDir(tree', d)
        <5>1. d # p
          BY <2>5, <4>1 DEF IsDir, IsFile
        <5>2. QED BY <2>1, <4>1, <5>1, Removal
      <4>2. QED BY <4>1
    <3>5. f.unread = Children(tree', f.dir)
      <4>1. Children(tree, Top.dir) = Top.unread
        BY <1>1, <1>2, <3>1, NestedLast DEF Top
      <4>2. QED BY <2>3, <3>2, <4>1 DEF Top
    <3>6. QED BY <1>1, <1>2, <2>3, <3>1, <3>3, <3>4, <3>5, NestedFiles
  <2> HIDE DEF s, v
  <2>8. QED BY <1>1, <1>2, <2>1, <2>4, <2>6, <2>7, RmCleans
<1>7. QED BY <1>5, <1>6

LEMMA OneLess ==
  ASSUME NEW n \in Nat, n >= 1, n # 1
  PROVE  n > 1 /\ n - 1 \in 1 .. n /\ n - 1 # n
OBVIOUS

LEMMA RmDirectory ==
  ASSUME PInv, RmInv, CleanEnd
  PROVE  RmInv'
<1>1. At("rm", "clean") /\ Within /\ Frames # << >> /\ Top.pass = "files"
  BY DEF CleanEnd
<1>2. /\ cmd.op = "rm" /\ WellFormed(tree) /\ IsSequence(Frames) /\ IsSequence(PathOf(1)) /\ StackOK(Frames, tree)
      /\ "read" \notin faulted => Nested(Frames, tree, PathOf(1))
  BY <1>1, RmHas
<1>3. PICK r \in Outcomes, call \in {"read", "remove"}, silent \in BOOLEAN :
        LET removed == CanRemove(tree, Top.dir) /\ ~(r = "bad" /\ call = "remove")
            failed == ~removed /\ (Top.dir = Root \/ ~silent \/ (r = "bad" /\ call = "remove"))
        IN /\ (r = "ok" \/ call = "remove") => Top.unread = {}
           /\ Suffers(r, call)
           /\ tree' = IF removed THEN Without(tree, {Top.dir}) ELSE tree
           /\ IF failed THEN GiveUp
              ELSE IF Len(Frames) = 1 THEN Answers("removed")
                   ELSE Goes("clean", [stack |-> Front(Frames)])
  BY DEF CleanEnd
<1> DEFINE removed == CanRemove(tree, Top.dir) /\ ~(r = "bad" /\ call = "remove")
           failed == ~removed /\ (Top.dir = Root \/ ~silent \/ (r = "bad" /\ call = "remove"))
<1>4. faulted \subseteq faulted' /\ (r # "ok" => call \in faulted') /\ r \in {"ok", "bad"}
  BY <1>3, SuffersOnly
<1>5. Len(Frames) \in Nat /\ Len(Frames) >= 1
  BY <1>1, <1>2, FrontFacts, SequenceFacts
\* Every read has told the truth: the directory is empty, and is removed but for the root.
<1>6. ASSUME "read" \notin faulted'
      PROVE  /\ Nested(Frames, tree, PathOf(1)) /\ Len(Top.dir) = Len(PathOf(1)) + Len(Frames) - 1
             /\ Top.dir # Root /\ ~(r = "bad" /\ call = "remove") => removed
  <2>1. Nested(Frames, tree, PathOf(1)) /\ (r = "ok" \/ call = "remove")
    BY <1>2, <1>4, <1>6
  <2>2. IsDir(tree, Top.dir) /\ Children(tree, Top.dir) = Top.unread /\ Len(Top.dir) = Len(PathOf(1)) + Len(Frames) - 1
    BY <1>1, <1>2, <2>1, NestedLast DEF Top
  <2>3. Top.unread = {}
    BY <1>3, <2>1
  <2>4. QED BY <2>1, <2>2, <2>3 DEF CanRemove, IsDir
<1>7. CASE failed
  <2>1. GiveUp
    BY <1>3, <1>7
  <2>2. "read" \notin faulted' => faulted' # {} \/ PathOf(1) = Root
    <3> SUFFICES ASSUME "read" \notin faulted', ~(r = "bad" /\ call = "remove") PROVE PathOf(1) = Root
      BY <1>4
    <3>1. Top.dir = Root
      BY <1>6, <1>7
    <3>2. Len(Top.dir) = 0 /\ Len(PathOf(1)) \in Nat
      BY <1>2, <3>1, SequenceFacts DEF Root
    <3>3. Len(PathOf(1)) = 0
      BY <1>5, <1>6, <3>2
    <3>4. PathOf(1) \in Seq(ToSet(PathOf(1)))
      BY <1>2 DEF IsSequence
    <3> DEFINE p == PathOf(1)
    <3> HIDE DEF p
    <3>5. p \in Seq(ToSet(p)) /\ Len(p) = 0
      BY <3>3, <3>4 DEF p
    <3>6. p = << >>
      BY <3>5
    <3>7. QED BY <3>6 DEF p, Root
  <2>3. QED BY <1>1, <1>2, <2>1, <2>2, RmGivesUp
<1>8. CASE ~failed /\ Len(Frames) = 1
  <2>1. Answers("removed")
    BY <1>3, <1>8
  <2>2. "read" \notin faulted' => \A p \in DOMAIN tree' : ~Under(PathOf(1), p)
    <3> SUFFICES ASSUME "read" \notin faulted' PROVE \A p \in DOMAIN tree' : ~Under(PathOf(1), p)
      OBVIOUS
    <3>1. removed
      BY <1>6, <1>8
    <3>2. Top.dir = PathOf(1)
      BY <1>6, <1>8 DEF Nested, Top
    <3>3. tree' = Without(tree, {PathOf(1)}) /\ CanRemove(tree, PathOf(1))
      BY <1>3, <3>1, <3>2
    <3>4. QED BY <1>2, <3>3, Gone
  <2>3. QED BY <1>1, <1>2, <2>1, <2>2, RmEnds
<1>9. CASE ~failed /\ Len(Frames) # 1
  <2> DEFINE s == Front(Frames)
             v == [stack |-> s]
  <2>1. Goes("clean", v) /\ v.stack = s
    BY <1>3, <1>9
  <2>2. s # << >>
    <3>1. Len(s) = Len(Frames) - 1
      BY <1>1, <1>2, FrontFacts
    <3> HIDE DEF s
    <3>2. Len(<< >>) = 0
      OBVIOUS
    <3>3. QED BY <1>5, <1>9, <3>1, <3>2
  <2>3. "read" \notin faulted' => Nested(s, tree', PathOf(1))
    <3> SUFFICES ASSUME "read" \notin faulted' PROVE Nested(s, tree', PathOf(1))
      OBVIOUS
    <3>1. removed
      BY <1>6, <1>9
    <3>2. tree' = Without(tree, {Frames[Len(Frames)].dir})
      BY <1>3, <3>1 DEF Top
    <3>3. Len(Frames) > 1 /\ Len(Frames) - 1 \in 1 .. Len(Frames) /\ Len(Frames) - 1 # Len(Frames)
      <4>1. Len(Frames) # 1
        BY <1>9
      <4>2. QED BY <1>5, <4>1, OneLess
    <3>4. Frames[Len(Frames) - 1].pass # "files"
      BY <1>2, <3>3 DEF StackOK
    <3>5. QED BY <1>2, <1>6, <3>2, <3>3, <3>4, NestedPopped
  <2> HIDE DEF s, v
  <2>4. QED BY <1>1, <1>2, <2>1, <2>2, <2>3, RmCleans
<1>10. QED BY <1>7, <1>8, <1>9

LEMMA RmStep ==
  ASSUME PInv, RmInv, [Next]_vars
  PROVE  RmInv'
<1> SUFFICES ASSUME cmd'.op = "rm" PROVE RmInv'
  BY DEF RmInv, At
<1>1. CASE UNCHANGED vars
  <2>1. UNCHANGED <<tree, before, faulted, cmd, sh_pwd>>
    BY <1>1 DEF vars
  <2>2. PathOf(1)' = PathOf(1)
    BY <2>1, SamePaths
  <2>3. (Nested(Frames, tree, PathOf(1)))' <=> Nested(Frames, tree, PathOf(1))
    BY SMTT(40), <2>1, <2>2 DEF Nested, Subdirs, Children, IsDir, Exists, Frames
  <2>4. QED BY <2>1, <2>2, <2>3 DEF RmInv, At, Frames, IsDir, Exists
<1>2. CASE Type
  BY <1>2, TypeBegins DEF Begins, RmInv, At
<1>3. CASE FileStep \/ TarStep \/ CcStep \/ UserStep
  <2>1. cmd.op = "rm" /\ FileStep
    BY <1>3, SameOp, OtherOps
  <2>2. RmStart \/ RmCount \/ RmRemove \/ CleanOpen \/ CleanRewind \/ CleanFile \/ CleanEnd
    BY <2>1, FileOps DEF FileStep
  <2>3. QED BY <2>2, RmFirstSteps, RmOpens, RmRewinds, RmFiles, RmDirectory
<1>4. QED BY <1>1, <1>2, <1>3, StepsOf

\* rm removes all it was asked to, or nothing: a part only when a call failed, or of the root.
THEOREM RmCorrect ==
  Spec => []RmAllOrNothing
<1>1. Init => RmInv
  BY StartsUp DEF RmInv, At
<1>2. PInv /\ RmInv /\ [Next]_vars => RmInv'
  BY RmStep
<1>3. PInv /\ RmInv => RmAllOrNothing
  <2> SUFFICES ASSUME PInv, RmInv, At("rm", "done"), "read" \notin faulted, \A k \in DOMAIN Line.args : TextLeadsUp(Line.args[k])
               PROVE  IF cmd.said = "removed" THEN \A p \in DOMAIN tree : ~Under(Named(1), p)
                      ELSE faulted # {} \/ Named(1) = Root \/ tree = before
    BY DEF RmAllOrNothing
  <2>1. cmd.op = "rm" /\ cmd.op \in Commands /\ cmd.op # "cd"
    BY DEF At, Commands
  <2>2. 1 \in DOMAIN Line.args
    BY <2>1, RmPath
  <2>3. PathOf(1) = Named(1)
    BY <2>1, <2>2, NamedIs
  <2>4. IF cmd.said = "removed" THEN \A p \in DOMAIN tree : ~Under(PathOf(1), p)
        ELSE faulted # {} \/ PathOf(1) = Root \/ tree = before
    BY DEF RmInv
  <2>5. QED BY <2>3, <2>4
<1>4. QED BY <1>1, <1>2, <1>3, Invariance, PTL DEF Spec

-----------------------------------------------------------------------------
(* Where a step changes the tree. *)

SameAt(t, u, q) == q \in DOMAIN t /\ q \in DOMAIN u /\ u[q] = t[q]
OnlyAt(t, u, p) == \A q \in DOMAIN t \cup DOMAIN u : q = p \/ SameAt(t, u, q)

\* What is done to one file or directory changes no other.
LEMMA OneIsChanged ==
  ASSUME NEW t, NEW p, NEW data
  PROVE  /\ OnlyAt(t, t, p) /\ OnlyAt(t, Created(t, p), p) /\ OnlyAt(t, Mkdir(t, p), p)
         /\ OnlyAt(t, Stored(t, p, data), p) /\ OnlyAt(t, Marked(t, p), p) /\ OnlyAt(t, Without(t, {p}), p)
<1>1. OnlyAt(t, t, p)
  BY DEF OnlyAt, SameAt
<1>2. ASSUME NEW node
      PROVE  OnlyAt(t, With(t, p, node), p)
  BY DEF OnlyAt, SameAt, With
<1>3. OnlyAt(t, Stored(t, p, data), p)
  <2>1. OnlyAt(t, [t EXCEPT ![p].data = data], p)
    BY DEF OnlyAt, SameAt
  <2>2. QED BY <1>1, <2>1 DEF Stored
<1>4. OnlyAt(t, Marked(t, p), p)
  <2>1. OnlyAt(t, [t EXCEPT ![p].exe = TRUE], p)
    BY DEF OnlyAt, SameAt
  <2>2. QED BY <1>1, <2>1 DEF Marked
<1>5. OnlyAt(t, Without(t, {p}), p)
  BY DEF OnlyAt, SameAt, Without
<1>6. QED BY <1>1, <1>2, <1>3, <1>4, <1>5 DEF Created, Mkdir

LEMMA StillOne ==
  ASSUME NEW t, NEW u, NEW w, NEW p, OnlyAt(t, u, p), OnlyAt(u, w, p)
  PROVE  OnlyAt(t, w, p)
<1> SUFFICES ASSUME NEW q \in DOMAIN t \cup DOMAIN w, q # p PROVE SameAt(t, w, q)
  BY DEF OnlyAt
<1>1. CASE q \in DOMAIN t
  BY <1>1 DEF OnlyAt, SameAt
<1>2. CASE q \in DOMAIN w
  BY <1>2 DEF OnlyAt, SameAt
<1>3. QED BY <1>1, <1>2

\* A file that is created, stored and marked.
LEMMA FileIsChanged ==
  ASSUME NEW t, NEW p, NEW data, NEW u, u \in {t, Created(t, p)}
  PROVE  /\ OnlyAt(t, u, p) /\ OnlyAt(t, Stored(u, p, data), p)
         /\ OnlyAt(t, Marked(u, p), p) /\ OnlyAt(t, Marked(Stored(u, p, data), p), p)
<1>1. OnlyAt(t, u, p)
  BY OneIsChanged
<1>2. OnlyAt(t, Stored(u, p, data), p)
  BY <1>1, OneIsChanged, StillOne
<1>3. OnlyAt(t, Marked(u, p), p)
  BY <1>1, OneIsChanged, StillOne
<1>4. OnlyAt(t, Marked(Stored(u, p, data), p), p)
  BY <1>2, OneIsChanged, StillOne
<1>5. QED BY <1>1, <1>2, <1>3, <1>4

\* A move changes what is under its two ends.
LEMMA MoveChanges ==
  ASSUME NEW t, WellFormed(t), NEW from, NEW to, IsSequence(from), IsSequence(to),
         NEW q \in DOMAIN t \cup DOMAIN Renamed(t, from, to)
  PROVE  Under(from, q) \/ Under(to, q) \/ SameAt(t, Renamed(t, from, to), q)
<1> DEFINE u == Renamed(t, from, to)
<1>1. /\ \A x : x \in DOMAIN u <=> \/ x \in DOMAIN t /\ ~Under(from, x)
                                   \/ \E y \in DOMAIN t : Under(from, y) /\ x = Moved(y, from, to)
      /\ \A x \in DOMAIN t : ~Under(from, x) /\ ~Under(to, x) => u[x] = t[x]
  BY RenamedIs
<1>2. ASSUME NEW y \in DOMAIN t, Under(from, y)
      PROVE  Under(to, Moved(y, from, to))
  <2>1. IsSequence(y)
    BY DEF WellFormed
  <2>2. QED BY <1>2, <2>1, MovedBack
<1> HIDE DEF u
<1>3. q \in DOMAIN t \cup DOMAIN u
  BY DEF u
<1>4. Under(from, q) \/ Under(to, q) \/ SameAt(t, u, q)
  BY <1>1, <1>2, <1>3 DEF SameAt
<1>5. QED BY <1>4 DEF u

-----------------------------------------------------------------------------
(* What the local variables of a command have to do with its line.         *)

Targets(t, to) == IF IsDir(t, to) THEN {to, to \o LastName} ELSE {to}
HasNames == At("mv", "rename") \/ At("cp", "open") \/ Copying
CleanNamed(s) == \A k \in 1 .. Len(s) : Under(PathOf(1), s[k].dir) /\ \A p \in s[k].unread : Under(PathOf(1), p)
NamesInv ==
  /\ cmd.op \in {"mv", "cp"} /\ cmd.at = "start" => tree = before
  /\ HasNames => cmd.v.from = PathOf(1) /\ cmd.v.to \in Targets(before, PathOf(2))
  /\ At("rm", "clean") => Recursive /\ CleanNamed(Frames)
  /\ Creating => cmd.v.file.names = PathOf(1)
  /\ At("tar", "dirs") => Line.flag = "x" /\ cmd.v.made >= 1
  /\ InSession /\ cmd.op = "cc" /\ (cmd.at = "write" \/ S.out # << >>) => HasOut /\ S.path = PathOf(2)

LEMMA SameLast ==
  ASSUME cmd'.line = cmd.line, sh_pwd' = sh_pwd
  PROVE  LastName' = LastName
<1>1. Line' = Line /\ PathOf(1)' = PathOf(1)
  BY SamePaths DEF Line
<1>2. Unslashed(Line.args[1])' = Unslashed(Line.args[1])
  BY <1>1 DEF Unslashed, FullPath, Up
<1>3. QED BY <1>1, <1>2 DEF LastName

\* The names of mv and cp once they are looked up.
LEMMA NamesKept ==
  ASSUME PInv, Within, cmd.op \in {"mv", "cp"}, cmd'.op = cmd.op, cmd'.line = cmd.line, cmd'.at # "start",
         HasNames' => cmd'.v.from = PathOf(1) /\ cmd'.v.to \in Targets(before, PathOf(2))
  PROVE  NamesInv'
<1>1. before' = before /\ \A k : PathOf(k)' = PathOf(k)
  BY SamePaths DEF Within
<1>2. HasNames' => cmd'.v.from = PathOf(1)' /\ cmd'.v.to \in Targets(before, PathOf(2))'
  <2>1. PathOf(1)' = PathOf(1) /\ PathOf(2)' = PathOf(2)
    BY <1>1
  <2>2. LastName' = LastName
    BY SameLast DEF Within
  <2>3. Targets(before, PathOf(2))' = Targets(before, PathOf(2))
    BY <1>1, <2>1, <2>2 DEF Targets, IsDir, Exists
  <2>4. QED BY <2>1, <2>3
<1>3. QED BY <1>2 DEF NamesInv, At, Creating, InSession

LEMMA NamesLookedUp ==
  ASSUME PInv, NamesInv, MvStart \/ CpStart
  PROVE  NamesInv'
<1>0. PICK at \in {"rename", "open"}, copy \in BOOLEAN : check_from_to_parms(at, copy)
  BY DEF MvStart, CpStart
<1>1. PICK r \in Outcomes :
        /\ cmd.op = (IF copy THEN "cp" ELSE "mv") /\ cmd.at = "start" /\ Within
        /\ \/ Answers("not found") \/ Answers("can't copy a directory")
           \/ Goes(at, [from |-> PathOf(1), to |-> IF r = "bad" THEN PathOf(2) ELSE Target(PathOf(2))])
  BY <1>0 DEF check_from_to_parms
<1>2. CmdOK /\ cmd.op \in {"mv", "cp"} /\ tree = before
  BY <1>1 DEF PInv, NamesInv
<1>3. ASSUME NEW said, Answers(said)
      PROVE  NamesInv'
  <2>1. cmd'.op = cmd.op /\ cmd'.line = cmd.line /\ cmd'.at = "done"
    BY <1>2, <1>3, AnswersIs
  <2>2. QED BY <1>1, <1>2, <2>1, NamesKept DEF HasNames, At, Copying
<1>4. ASSUME Goes(at, [from |-> PathOf(1), to |-> IF r = "bad" THEN PathOf(2) ELSE Target(PathOf(2))])
      PROVE  NamesInv'
  <2> DEFINE v == [from |-> PathOf(1), to |-> IF r = "bad" THEN PathOf(2) ELSE Target(PathOf(2))]
  <2>1. v.from = PathOf(1) /\ v.to \in {PathOf(2), Target(PathOf(2))}
    OBVIOUS
  <2>2. Goes(at, v)
    BY <1>4
  <2> HIDE DEF v
  <2>3. cmd'.op = cmd.op /\ cmd'.line = cmd.line /\ cmd'.at = at /\ cmd'.v = v
    BY <1>2, <2>2, GoesIs
  <2>4. v.to \in Targets(before, PathOf(2))
    BY <1>2, <2>1 DEF Targets, Target
  <2>5. QED BY <1>1, <1>2, <1>4, <2>1, <2>3, <2>4, NamesKept
<1>5. QED BY <1>1, <1>3, <1>4

LEMMA NamesUsed ==
  ASSUME PInv, NamesInv, Mv \/ CpOpen \/ CpBlock \/ CpEof \/ CpClose
  PROVE  NamesInv'
<1>1. CmdOK /\ Within /\ cmd.op \in {"mv", "cp"} /\ HasNames
  BY DEF PInv, HasNames, Mv, CpOpen, CpBlock, CpEof, CpClose, At, Copying
<1>2. cmd.v.from = PathOf(1) /\ cmd.v.to \in Targets(before, PathOf(2))
  BY <1>1 DEF NamesInv
<1>3. Copying => DOMAIN cmd.v = {"from", "to", "rest", "out", "error"}
  BY DEF PInv, CopyOK
<1>4. ASSUME NEW said, Answers(said)
      PROVE  NamesInv'
  <2>1. cmd'.op = cmd.op /\ cmd'.line = cmd.line /\ cmd'.at = "done"
    BY <1>1, <1>4, AnswersIs
  <2>2. QED BY <1>1, <2>1, NamesKept DEF HasNames, At, Copying
<1>5. ASSUME NEW at, at # "start", NEW v, Goes(at, v), v.from = cmd.v.from, v.to = cmd.v.to
      PROVE  NamesInv'
  <2>1. cmd'.op = cmd.op /\ cmd'.line = cmd.line /\ cmd'.at = at /\ cmd'.v = v
    BY <1>1, <1>5, GoesIs
  <2>2. QED BY <1>1, <1>2, <1>5, <2>1, NamesKept
<1>6. CASE Mv \/ CpClose
  <2>1. \E said : Answers(said)
    BY <1>6 DEF Mv, CpClose
  <2>2. QED BY SMTT(40), <1>4, <2>1
<1>7. CASE CpOpen
  <2> DEFINE v == [from |-> cmd.v.from, to |-> cmd.v.to, rest |-> tree[cmd.v.from].data, out |-> << >>, error |-> FALSE]
  <2>1. Answers("error opening") \/ Goes("copy", v)
    BY <1>7 DEF CpOpen
  <2>2. v.from = cmd.v.from /\ v.to = cmd.v.to
    OBVIOUS
  <2> HIDE DEF v
  <2>3. QED BY <1>4, <1>5, <2>1, <2>2
<1>8. CASE CpBlock \/ CpEof
  <2>1. DOMAIN cmd.v = {"from", "to", "rest", "out", "error"}
    BY <1>3, <1>8 DEF CpBlock, CpEof, At, Copying
  <2>2. \E at, v : at # "start" /\ Goes(at, v) /\ v.from = cmd.v.from /\ v.to = cmd.v.to
    <3>1. CASE CpEof
      BY <3>1 DEF CpEof
    <3>2. CASE CpBlock
      <4> DEFINE a == [cmd.v EXCEPT !.rest = Tail(@), !.out = Append(@, Head(cmd.v.rest))]
                 b(call) == [cmd.v EXCEPT !.error = Says(call)]
      <4>1. Goes("copy", a) \/ \E call : Goes("close", b(call))
        BY <3>2 DEF CpBlock
      <4>2. a.from = cmd.v.from /\ a.to = cmd.v.to /\ \A call : b(call).from = cmd.v.from /\ b(call).to = cmd.v.to
        BY <2>1
      <4> HIDE DEF a, b
      <4>3. QED BY <4>1, <4>2
    <3>3. QED BY <1>8, <3>1, <3>2
  <2>3. QED BY <1>5, <2>2
<1>9. QED BY <1>6, <1>7, <1>8

\* What is in a directory under p is under p.
LEMMA UnderEntry ==
  ASSUME NEW p, IsSequence(p), NEW t, WellFormed(t), NEW d, IsSequence(d), Under(p, d), NEW q \in Children(t, d)
  PROVE  Under(p, q)
<1>1. IsSequence(q) /\ q # << >> /\ Front(q) = d
  BY DEF Children, WellFormed, Root
<1>2. Len(q) \in Nat /\ Len(p) \in Nat /\ Len(d) = Len(q) - 1 /\ \A k \in 1 .. Len(q) - 1 : d[k] = q[k]
  BY <1>1, FrontFacts, SequenceFacts
<1>3. Len(p) <= Len(d) /\ \A k \in 1 .. Len(p) : p[k] = d[k]
  BY PrefixFacts
<1>4. Len(p) <= Len(q) /\ \A k \in 1 .. Len(p) : p[k] = q[k]
  <2>1. \A k \in 1 .. Len(p) : k \in 1 .. Len(q) - 1
    BY <1>2, <1>3
  <2>2. QED BY <1>2, <1>3, <2>1
<1>5. QED BY <1>1, <1>4, PrefixFacts

LEMMA UnderItself ==
  ASSUME NEW p, IsSequence(p)
  PROVE  Under(p, p)
<1>1. Len(p) \in Nat
  BY SequenceFacts
<1>2. QED BY <1>1, PrefixFacts

\* The stack of directories: replaced at its end, longer, shorter.
LEMMA CleanNamedSteps ==
  ASSUME NEW s, IsSequence(s), CleanNamed(s), NEW f, Under(PathOf(1), f.dir), \A p \in f.unread : Under(PathOf(1), p)
  PROVE  /\ CleanNamed(Append(s, f))
         /\ s # << >> => CleanNamed(Front(s)) /\ CleanNamed(Append(Front(s), f))
<1>1. ASSUME NEW u, IsSequence(u), CleanNamed(u)
      PROVE  CleanNamed(Append(u, f))
  <2>1. Len(u) \in Nat /\ Len(Append(u, f)) = Len(u) + 1 /\ Append(u, f)[Len(u) + 1] = f
        /\ \A k \in 1 .. Len(u) : Append(u, f)[k] = u[k]
    BY <1>1, AppendFacts, SequenceFacts
  <2> DEFINE w == Append(u, f)
  <2> HIDE DEF w
  <2>2. ASSUME NEW k \in 1 .. Len(w)
        PROVE  Under(PathOf(1), w[k].dir) /\ \A p \in w[k].unread : Under(PathOf(1), p)
    <3>1. CASE k = Len(u) + 1
      BY <2>1, <3>1 DEF w
    <3>2. CASE k # Len(u) + 1
      <4>1. k \in 1 .. Len(u)
        BY <2>1, <3>2 DEF w
      <4>2. w[k] = u[k]
        BY <2>1, <4>1 DEF w
      <4>3. QED BY <1>1, <4>1, <4>2 DEF CleanNamed
    <3>3. QED BY <3>1, <3>2
  <2>3. QED BY <2>2 DEF CleanNamed, w
<1>2. ASSUME s # << >>
      PROVE  IsSequence(Front(s)) /\ CleanNamed(Front(s))
  <2>1. IsSequence(Front(s)) /\ Len(Front(s)) = Len(s) - 1 /\ Len(s) \in Nat /\ \A k \in 1 .. Len(s) - 1 : Front(s)[k] = s[k]
    BY <1>2, FrontFacts, SequenceFacts
  <2>2. \A k \in 1 .. Len(Front(s)) : Front(s)[k] = s[k] /\ k \in 1 .. Len(s)
    BY <2>1
  <2>3. QED BY <2>1, <2>2 DEF CleanNamed
<1>3. QED BY <1>1, <1>2

LEMMA NothingNamed ==
  CleanNamed(<< >>)
BY DEF CleanNamed

LEMMA CleanKept ==
  ASSUME PInv, Within, cmd.op = "rm", cmd'.op = cmd.op, cmd'.line = cmd.line,
         cmd'.at = "clean" => Recursive /\ CleanNamed(cmd'.v.stack)
  PROVE  NamesInv'
<1>1. PathOf(1)' = PathOf(1) /\ (Recursive' <=> Recursive)
  BY SamePaths DEF Within, Recursive, Line
<1>2. cmd'.at = "clean" => Recursive' /\ CleanNamed(Frames)'
  BY <1>1 DEF CleanNamed, Frames
<1>3. QED BY <1>2 DEF NamesInv, At, HasNames, Copying, Creating, InSession

LEMMA NamesCleaned ==
  ASSUME PInv, NamesInv, RmStart \/ RmCount \/ RmRemove \/ CleanOpen \/ CleanRewind \/ CleanFile \/ CleanEnd
  PROVE  NamesInv'
<1>1. CmdOK /\ cmd.op = "rm" /\ Within
  BY FileOps DEF PInv, RmStart, RmCount, RmRemove, CleanOpen, CleanRewind, CleanFile, CleanEnd
<1>2. WellFormed(tree) /\ IsSequence(PathOf(1))
  BY <1>1, RmPath
<1>3. At("rm", "clean") => /\ Recursive /\ CleanNamed(Frames) /\ IsSequence(Frames) /\ DOMAIN cmd.v = {"stack"}
                           /\ Frames # << >> => IsFrame(Top, tree) /\ Len(Frames) \in 1 .. Len(Frames)
  BY CleanHas DEF NamesInv, StackOK
<1>4. ASSUME NEW said, Answers(said)
      PROVE  NamesInv'
  <2>1. cmd'.op = cmd.op /\ cmd'.line = cmd.line /\ cmd'.at = "done"
    BY <1>1, <1>4, AnswersIs
  <2>2. QED BY <1>1, <2>1, CleanKept
<1>5. ASSUME NEW at, NEW v, Goes(at, v), at = "clean" => Recursive /\ CleanNamed(v.stack)
      PROVE  NamesInv'
  <2>1. cmd'.op = cmd.op /\ cmd'.line = cmd.line /\ cmd'.at = at /\ cmd'.v = v
    BY <1>1, <1>5, GoesIs
  <2>2. QED BY <1>1, <1>5, <2>1, CleanKept
\* The last directory, with what is left to read of it.
<1>6. ASSUME At("rm", "clean"), Frames # << >>
      PROVE  /\ Under(PathOf(1), Top.dir) /\ IsSequence(Top.dir)
             /\ \A p \in Top.unread : Under(PathOf(1), p) /\ IsSequence(p)
             /\ DOMAIN Top = {"dir", "pass", "unread"}
  <2>1. IsFrame(Top, tree) /\ Top = Frames[Len(Frames)] /\ Len(Frames) \in 1 .. Len(Frames)
    BY <1>3, <1>6 DEF Top
  <2>2. Top = [dir |-> Top.dir, pass |-> Top.pass, unread |-> Top.unread]
    BY <2>1 DEF IsFrame
  <2>3. QED BY <1>3, <1>6, <2>1, <2>2 DEF CleanNamed, IsFrame
<1>7. CASE RmStart \/ RmRemove
  <2> DEFINE v == [stack |-> << >>]
  <2>1. \/ Answers("not found") \/ Answers("removed") \/ Answers("can't remove")
        \/ Goes("count", v) \/ Goes("remove", v)
    BY <1>7 DEF RmStart, RmRemove
  <2> HIDE DEF v
  <2>2. QED BY <1>4, <1>5, <2>1
<1>8. CASE RmCount
  <2>1. Frames = << >>
    BY <1>8 DEF RmCount, PInv, CleanOK
  <2>2. Answers("not empty") \/ Goes("spin", cmd.v) \/ Goes("remove", cmd.v) \/ (Goes("clean", cmd.v) /\ Recursive)
    BY <1>8 DEF RmCount
  <2>3. cmd.v.stack = << >>
    BY <2>1 DEF Frames
  <2>4. QED BY <1>4, <1>5, <2>2, <2>3, NothingNamed
<1>9. CASE CleanOpen
  <2>1. At("rm", "clean")
    BY <1>9 DEF CleanOpen
  <2> DEFINE Above(p) == IF Frames = << >> THEN << >> ELSE Append(Front(Frames), [Top EXCEPT !.unread = @ \ {p}])
             Frame(p) == [dir |-> p, pass |-> "dirs", unread |-> Of(Children(tree, p), TRUE)]
  <2>2. PICK p \in IF Frames = << >> THEN {PathOf(1)} ELSE Top.unread :
          (\E said : Answers(said)) \/ Goes("clean", [stack |-> Append(Above(p), Frame(p))])
    BY <1>9 DEF CleanOpen, GiveUp
  <2>3. Under(PathOf(1), p) /\ IsSequence(p)
    BY <1>2, <1>6, <2>1, <2>2, UnderItself
  <2> DEFINE a == Above(p)
             f == Frame(p)
             v == [stack |-> Append(a, f)]
  <2>4. (\E said : Answers(said)) \/ Goes("clean", v)
    BY <2>2
  <2>5. v.stack = Append(a, f)
    OBVIOUS
  <2> HIDE DEF v
  <2>6. f.dir = p /\ f.unread \subseteq Children(tree, p)
    BY DEF Of
  <2> HIDE DEF f
  <2>7. \A q \in f.unread : Under(PathOf(1), q)
    BY <1>2, <2>3, <2>6, UnderEntry
  <2>8. IsSequence(a) /\ CleanNamed(a)
    <3>1. CASE Frames = << >>
      BY <3>1, NothingNamed, NoContent
    <3>2. CASE Frames # << >>
      <4> DEFINE g == [Top EXCEPT !.unread = @ \ {p}]
      <4>1. g.dir = Top.dir /\ g.unread = Top.unread \ {p}
        BY <1>6, <2>1, <3>2
      <4>2. a = Append(Front(Frames), g)
        BY <3>2
      <4> HIDE DEF g, a
      <4>3. QED BY <1>3, <1>6, <2>1, <3>2, <4>1, <4>2, CleanNamedSteps, TopFacts
    <3>3. QED BY <3>1, <3>2
  <2> HIDE DEF a
  <2>9. CleanNamed(v.stack)
    BY <2>3, <2>5, <2>6, <2>7, <2>8, CleanNamedSteps
  <2>10. QED BY <1>3, <1>4, <1>5, <2>1, <2>4, <2>9
<1>10. CASE CleanRewind
  <2>1. At("rm", "clean") /\ Frames # << >>
    BY <1>10 DEF CleanRewind
  <2> DEFINE f == [Top EXCEPT !.pass = "files", !.unread = Files]
             v == WithTop(f)
  <2>2. Goes("clean", v)
    BY <1>10 DEF CleanRewind
  <2>3. f.dir = Top.dir /\ f.unread \subseteq Children(tree, Top.dir)
    BY <1>6, <2>1 DEF Files, Of
  <2> HIDE DEF f
  <2>4. v.stack = Append(Front(Frames), f)
    BY <1>3, <2>1 DEF WithTop
  <2> HIDE DEF v
  <2>5. \A q \in f.unread : Under(PathOf(1), q)
    BY <1>2, <1>6, <2>1, <2>3, UnderEntry
  <2>6. CleanNamed(v.stack)
    BY <1>3, <1>6, <2>1, <2>3, <2>4, <2>5, CleanNamedSteps
  <2>7. QED BY <1>3, <1>5, <2>1, <2>2, <2>6
<1>11. CASE CleanFile
  <2>1. At("rm", "clean") /\ Frames # << >>
    BY <1>11 DEF CleanFile
  <2> DEFINE f(p) == [Top EXCEPT !.unread = @ \ {p}]
             v(p) == WithTop(f(p))
  <2>2. (\E said : Answers(said)) \/ \E p : Goes("clean", v(p))
    BY <1>11 DEF CleanFile, GiveUp
  <2>3. ASSUME NEW p
        PROVE  CleanNamed(v(p).stack)
    <3>1. f(p).dir = Top.dir /\ f(p).unread = Top.unread \ {p}
      BY <1>6, <2>1
    <3> HIDE DEF f
    <3>2. v(p).stack = Append(Front(Frames), f(p))
      BY <1>3, <2>1 DEF WithTop
    <3> HIDE DEF v
    <3>3. QED BY <1>3, <1>6, <2>1, <3>1, <3>2, CleanNamedSteps
  <2> HIDE DEF v
  <2>4. QED BY <1>3, <1>4, <1>5, <2>1, <2>2, <2>3
<1>12. CASE CleanEnd
  <2>1. At("rm", "clean") /\ Frames # << >>
    BY <1>12 DEF CleanEnd
  <2> DEFINE v == [stack |-> Front(Frames)]
  <2>2. (\E said : Answers(said)) \/ Goes("clean", v)
    BY <1>12 DEF CleanEnd, GiveUp
  <2>3. v.stack = Front(Frames)
    OBVIOUS
  <2> HIDE DEF v
  <2>4. CleanNamed(v.stack)
    BY <1>3, <1>6, <2>1, <2>3, CleanNamedSteps
  <2>5. QED BY <1>3, <1>4, <1>5, <2>1, <2>2, <2>4
<1>13. QED BY <1>7, <1>8, <1>9, <1>10, <1>11, <1>12

\* tar goes on, or ends.
LEMMA TarKept ==
  ASSUME PInv, Within, cmd.op = "tar", NEW at, NEW v, Goes(at, v),
         Line.flag = "c" => v.file.names = PathOf(1), at = "dirs" => Line.flag = "x" /\ v.made >= 1
  PROVE  NamesInv'
<1>1. CmdOK
  BY DEF PInv
<1>2. cmd'.op = cmd.op /\ cmd'.line = cmd.line /\ cmd'.at = at /\ cmd'.v = v
  BY <1>1, GoesIs
<1>3. PathOf(1)' = PathOf(1) /\ Line' = Line
  BY <1>2, SamePaths DEF Within, Line
<1>4. /\ Creating' => cmd'.v.file.names = PathOf(1)'
      /\ cmd'.at = "dirs" => Line'.flag = "x" /\ cmd'.v.made >= 1
  BY <1>2, <1>3 DEF Creating
<1>5. QED BY <1>2, <1>4 DEF NamesInv, At, HasNames, Copying, InSession

LEMMA TarOver ==
  ASSUME PInv, cmd.op = "tar", NEW said, Answers(said)
  PROVE  NamesInv'
<1>1. CmdOK
  BY DEF PInv
<1>2. cmd'.op = cmd.op /\ cmd'.at = "done"
  BY <1>1, AnswersIs
<1>3. QED BY <1>2 DEF NamesInv, At, HasNames, Copying, Creating, InSession

LEMMA NamesArchived ==
  ASSUME PInv, NamesInv, TarArgument \/ TarEntry \/ TarDirEnd \/ TarEnd
  PROVE  NamesInv'
<1>1. cmd.op = "tar" /\ Within /\ At("tar", "create")
  BY DEF TarArgument, TarEntry, TarDirEnd, TarEnd, TarGoes, At
<1>2. Line.flag = "c" /\ CreateOK(cmd.v, tree) /\ Creating
  BY <1>1 DEF PInv, TarOK, Creating, At
<1>3. DOMAIN cmd.v = {"file", "arg", "stack", "out"} /\ cmd.v.file.names = PathOf(1)
  BY <1>2 DEF CreateOK, NamesInv
<1>4. ASSUME NEW at, at # "dirs", NEW v, Goes(at, v), v.file = cmd.v.file
      PROVE  NamesInv'
  BY <1>1, <1>3, <1>4, TarKept
<1>5. ASSUME NEW p, NEW size, NEW v, DOMAIN v = DOMAIN cmd.v, v.file = cmd.v.file, tar_file(p, size, v)
      PROVE  NamesInv'
  <2> DEFINE w(out) == [v EXCEPT !.out = out]
  <2>1. Goes("create", v) \/ Goes("bail", v) \/ \E out : Goes("create", w(out)) \/ Goes("bail", w(out))
    BY <1>5 DEF tar_file
  <2>2. \A out : w(out).file = cmd.v.file
    BY <1>3, <1>5
  <2> HIDE DEF w
  <2>3. QED BY <1>4, <1>5, <2>1, <2>2
<1>6. ASSUME NEW p, NEW v, DOMAIN v = DOMAIN cmd.v, v.file = cmd.v.file, tar_dir(p, v)
      PROVE  NamesInv'
  <2> DEFINE w(stack) == [v EXCEPT !.stack = stack]
  <2>1. Goes("bail", v) \/ \E stack : Goes("create", w(stack))
    BY <1>6 DEF tar_dir
  <2>2. \A stack : w(stack).file = cmd.v.file
    BY <1>3, <1>6
  <2> HIDE DEF w
  <2>3. QED BY <1>4, <1>6, <2>1, <2>2
<1>7. CASE TarArgument
  <2> DEFINE v == [cmd.v EXCEPT !.arg = @ + 1]
  <2>1. (\E p, size : tar_file(p, size, v)) \/ (\E p : tar_dir(p, v)) \/ Goes("bail", v)
    BY <1>7 DEF TarArgument
  <2>2. DOMAIN v = DOMAIN cmd.v /\ v.file = cmd.v.file
    BY <1>3
  <2> HIDE DEF v
  <2>3. QED BY <1>4, <1>5, <1>6, <2>1, <2>2
<1>8. CASE TarEntry
  <2> DEFINE w(stack) == [cmd.v EXCEPT !.stack = stack]
  <2>1. \E stack : (\E p, size : tar_file(p, size, w(stack))) \/ (\E p : tar_dir(p, w(stack)))
    BY <1>8 DEF TarEntry
  <2>2. \A stack : DOMAIN w(stack) = DOMAIN cmd.v /\ w(stack).file = cmd.v.file
    BY <1>3
  <2> HIDE DEF w
  <2>3. QED BY <1>5, <1>6, <2>1, <2>2
<1>9. CASE TarDirEnd
  <2> DEFINE v == [cmd.v EXCEPT !.stack = Front(@)]
  <2>1. Goes("create", v)
    BY <1>9 DEF TarDirEnd
  <2>2. v.file = cmd.v.file
    BY <1>3
  <2> HIDE DEF v
  <2>3. QED BY <1>4, <2>1, <2>2
<1>10. CASE TarEnd
  <2> DEFINE w(out) == [cmd.v EXCEPT !.out = out]
  <2>1. \E out : Goes("close", w(out))
    BY <1>10 DEF TarEnd, TarGoes
  <2>2. \A out : w(out).file = cmd.v.file
    BY <1>3
  <2> HIDE DEF w
  <2>3. QED BY <1>4, <2>1, <2>2
<1>11. QED BY <1>7, <1>8, <1>9, <1>10

LEMMA NamesRead ==
  ASSUME PInv, NamesInv, TarHeader \/ TarMkdirs \/ TarExtract
  PROVE  NamesInv'
<1>1. cmd.op = "tar" /\ Within /\ (At("tar", "header") \/ At("tar", "dirs"))
  BY DEF TarHeader, TarMkdirs, TarExtract, At
<1>2. Line.flag # "c" /\ ReadOK(cmd.v)
  BY <1>1 DEF PInv, TarOK, Creating, Reading, At
<1>3. DOMAIN cmd.v = {"file", "rest", "hdr", "made"} /\ cmd.v.made \in Nat
  BY <1>2 DEF ReadOK
<1>4. ASSUME NEW at, NEW v, Goes(at, v), at = "dirs" => Line.flag = "x" /\ v.made >= 1
      PROVE  NamesInv'
  BY <1>1, <1>2, <1>4, TarKept
<1>5. ASSUME NEW said, Answers(said)
      PROVE  NamesInv'
  BY <1>1, <1>5, TarOver
<1>6. CASE TarHeader
  <2>1. Line.flag \in {"c", "t", "x"}
    BY <1>1 DEF PInv, CmdOK, Commands, IsLine
  <2> DEFINE v == [cmd.v EXCEPT !.hdr = NextBlock, !.rest = Past(1)]
             w == [v EXCEPT !.made = 1]
  <2>2. DOMAIN v = DOMAIN cmd.v
    BY <1>3
  <2> HIDE DEF v
  <2>3. w.made = 1
    BY <1>3, <2>2
  <2>4. \/ Answers("error reading") \/ Goes("shut", cmd.v) \/ Goes("header", v)
        \/ \E rest : Goes("header", [v EXCEPT !.rest = rest])
        \/ Line.flag # "t" /\ Goes("dirs", w)
    BY <1>6 DEF TarHeader, v
  <2> HIDE DEF w
  <2>5. w.made >= 1
    BY <2>3
  <2>6. CASE Goes("header", v) \/ Goes("shut", cmd.v) \/ \E rest : Goes("header", [v EXCEPT !.rest = rest])
    BY <1>4, <2>6
  <2>7. CASE Line.flag # "t" /\ Goes("dirs", w)
    <3>1. Line.flag = "x"
      BY <1>2, <2>1, <2>7
    <3>2. QED BY <1>4, <2>5, <2>7, <3>1
  <2>8. QED BY <1>5, <2>4, <2>6, <2>7
<1>7. CASE TarMkdirs
  <2> DEFINE w == [cmd.v EXCEPT !.made = @ + 1]
  <2>1. Line.flag = "x" /\ cmd.v.made >= 1
    BY <1>7 DEF TarMkdirs, NamesInv
  <2>2. Goes("bail", cmd.v) \/ Goes("dirs", w)
    BY <1>7 DEF TarMkdirs
  <2>3. w.made = cmd.v.made + 1
    BY <1>3
  <2> HIDE DEF w
  <2>4. w.made >= 1
    BY <1>3, <2>1, <2>3
  <2>5. QED BY <1>4, <2>1, <2>2, <2>4
<1>8. CASE TarExtract
  <2>1. \E at, v : at # "dirs" /\ Goes(at, v)
    <3>1. Goes("bail", cmd.v) \/ \E v : Goes("header", v)
      BY <1>8 DEF TarExtract
    <3>2. QED BY <3>1
  <2>2. QED BY <1>4, <2>1
<1>9. QED BY <1>6, <1>7, <1>8

LEMMA NamesOfTar ==
  ASSUME PInv, NamesInv, TarStep
  PROVE  NamesInv'
<1>1. cmd.op = "tar" /\ Within
  BY OtherOps, TarMoves
<1>2. CASE TarStart
  <2> DEFINE c == [file |-> FullPath(Line.args[1]), arg |-> 2, stack |-> << >>, out |-> << >>]
  <2>1. \/ Answers("can't open")
        \/ Goes("create", c)
        \/ Line.flag # "c" /\ \E v : Goes("header", v)
    BY <1>2 DEF TarStart
  <2>2. c.file.names = PathOf(1)
    BY DEF PathOf
  <2> HIDE DEF c
  <2>3. QED BY <1>1, <2>1, <2>2, TarKept, TarOver
<1>3. CASE TarCreated \/ TarShut
  <2>1. \E said : Answers(said)
    BY <1>3 DEF TarCreated, TarClose, TarShut
  <2>2. QED BY <1>1, <2>1, TarOver
<1>4. QED BY <1>2, <1>3, NamesArchived, NamesRead DEF TarStep

\* cc goes on with its way out or with the program, or to write its file.
LEMMA CcKept ==
  ASSUME PInv, Within, cmd.op \in {"cc", "run"}, NEW at, NEW v, Goes(at, v) \/ fatal(v),
         Goes(at, v) /\ cmd.op = "cc" /\ (at = "write" \/ v.out # << >>) => HasOut /\ v.path = PathOf(2),
         fatal(v) /\ cmd.op = "cc" /\ v.out # << >> => HasOut /\ v.path = PathOf(2)
  PROVE  NamesInv'
<1>1. CmdOK
  BY DEF PInv
<1>2. PICK a : Goes(a, v) /\ (cmd.op = "cc" /\ (a = "write" \/ v.out # << >>) => HasOut /\ v.path = PathOf(2))
  <2>1. CASE fatal(v)
    <3>1. Goes("leave", v) /\ "leave" # "write"
      BY <2>1 DEF fatal
    <3>2. QED BY <2>1, <3>1
  <2>2. QED BY <2>1
<1>3. cmd'.op = cmd.op /\ cmd'.line = cmd.line /\ cmd'.at = a /\ cmd'.v = v
  BY <1>1, <1>2, GoesIs
<1>4. PathOf(2)' = PathOf(2) /\ (HasOut' <=> HasOut)
  BY <1>3, SamePaths DEF Within, HasOut, Line
<1>5. cmd'.op = "cc" /\ (cmd'.at = "write" \/ S'.out # << >>) => HasOut' /\ S'.path = PathOf(2)'
  BY <1>2, <1>3, <1>4 DEF S
<1>6. QED BY <1>3, <1>5 DEF NamesInv, At, HasNames, Copying, Creating

LEMMA CcOver ==
  ASSUME cmd'.op = "off" \/ (cmd'.op \in {"cc", "run"} /\ cmd'.at = "done")
  PROVE  NamesInv'
BY DEF NamesInv, At, HasNames, Copying, Creating, InSession

\* Most steps leave the output and its place as they are.
LEMMA NamesOfCc ==
  ASSUME PInv, NamesInv, SlipInv, CcStep \/ UserStep
  PROVE  NamesInv'
<1>1. cmd.op \in {"cc", "run"} /\ Within /\ CmdOK
  BY OtherOps, CcMoves DEF PInv
<1>2. InSession => /\ DOMAIN S = {"op", "fd", "path", "mem", "list", "freed", "lines", "base", "source", "out", "data"}
                   /\ cmd.at = "create" => HasOut
                   /\ cmd.at \in {"open", "load"} => cmd.op = "run"
                   /\ cmd.op = "cc" /\ (cmd.at = "write" \/ S.out # << >>) => HasOut /\ S.path = PathOf(2)
  BY DEF PInv, CcOK, SessionOK, PlaceOK, SlipInv, SlipOK, NamesInv
<1>3. ASSUME InSession, NEW at, at # "write", NEW v, Goes(at, v) \/ fatal(v), v.out = S.out, v.path = S.path
      PROVE  NamesInv'
  BY <1>1, <1>2, <1>3, CcKept
<1>4. ASSUME NEW at, at # "write", NEW v, Goes(at, v) \/ fatal(v), v.out = << >>
      PROVE  NamesInv'
  BY <1>1, <1>4, CcKept
<1>5. CASE CcStart
  <2> DEFINE v == [Session("cc") EXCEPT !.mem = {"tables"}, !.path = PathOf(1)]
             a == [v EXCEPT !.mem = @ \cup {"name"}]
             b == [v EXCEPT !.mem = @ \cup {"fd"}, !.fd = "open"]
  <2>1. fatal(a) \/ Goes("read", b)
    BY <1>5 DEF CcStart
  <2>2. a.out = << >> /\ b.out = << >>
    BY DEF Session
  <2> HIDE DEF v, a, b
  <2>3. CASE fatal(a)
    <3>1. Goes("leave", a)
      BY <2>3 DEF fatal
    <3>2. QED BY <1>4, <2>2, <3>1
  <2>4. CASE Goes("read", b)
    BY <1>4, <2>2, <2>4
  <2>5. QED BY <2>1, <2>3, <2>4
<1>6. CASE CcRead
  <2>1. InSession
    BY <1>6 DEF CcRead, CcAt, InSession
  <2> DEFINE a == [S EXCEPT !.mem = @ \cup {"source"}]
             b == [S EXCEPT !.mem = (@ \ {"fd"}) \cup {"source"}, !.fd = "null", !.base = TRUE,
                            !.source = {s \in ToSet(tree[S.path].data) : IsSource(s)}]
  <2>2. fatal(a) \/ Goes("compile", b)
    BY <1>6 DEF CcRead
  <2>3. a.out = S.out /\ a.path = S.path /\ b.out = S.out /\ b.path = S.path
    BY <1>2, <2>1
  <2> HIDE DEF a, b
  <2>4. QED BY <1>3, <2>1, <2>2, <2>3
<1>7. CASE CcCompile
  <2>1. InSession
    BY <1>7 DEF CcCompile, CcAt, InSession
  <2> DEFINE v == [S EXCEPT !.lines = TRUE]
             bare == [v EXCEPT !.mem = {}, !.base = FALSE]
  <2>2. fatal(v) \/ fatal(bare) \/ Goes("create", bare) \/ Goes("user", bare)
    BY <1>7 DEF CcCompile
  <2>3. v.out = S.out /\ v.path = S.path /\ bare.out = S.out /\ bare.path = S.path
    BY <1>2, <2>1
  <2> HIDE DEF v, bare
  <2>4. QED BY <1>3, <2>1, <2>2, <2>3
<1>8. CASE CcCreate
  <2>1. InSession /\ cmd.at = "create"
    BY <1>8 DEF CcCreate, CcAt, InSession
  <2> DEFINE v == [S EXCEPT !.fd = "open", !.path = PathOf(2), !.mem = @ \cup {"fd"}]
  <2>2. fatal(S) \/ Goes("write", v)
    BY <1>8 DEF CcCreate
  <2>3. v.path = PathOf(2)
    BY <1>2, <2>1
  <2> HIDE DEF v
  <2>4. CASE fatal(S)
    BY <1>3, <2>1, <2>4
  <2>5. CASE Goes("write", v) /\ ~fatal(S)
    <3>1. HasOut
      BY <1>2, <2>1
    <3>2. QED BY <1>1, <2>3, <2>5, <3>1, CcKept
  <2>6. QED BY <2>2, <2>4, <2>5
<1>9. CASE CcWrite
  <2>1. InSession /\ cmd.at = "write"
    BY <1>9 DEF CcWrite, CcAt, InSession
  <2> DEFINE v == [S EXCEPT !.out = Append(@, Segment(Program, Len(S.out) + 1))]
             lost == [S EXCEPT !.fd = "closed"]
  <2>2. fatal(lost) \/ Goes("write", v) \/ Goes("leave", v) \/ cmd' = Does("off", "off")
    BY <1>9 DEF CcWrite
  <2>3. v.path = S.path /\ lost.path = S.path /\ lost.out = S.out
    BY <1>2, <2>1
  <2> HIDE DEF v, lost
  <2>4. CASE fatal(lost)
    BY <1>3, <2>1, <2>3, <2>4
  <2>5. ASSUME NEW at, Goes(at, v)
        PROVE  NamesInv'
    BY <1>1, <1>2, <2>1, <2>3, <2>5, CcKept
  <2>6. CASE cmd' = Does("off", "off")
    BY <2>6, DoesIs, CcOver
  <2>7. QED BY <2>2, <2>4, <2>5, <2>6
<1>10. CASE CcSeal
  <2>1. InSession
    BY <1>10 DEF CcSeal, CcAt, InSession
  <2> DEFINE v == [S EXCEPT !.fd = "null", !.mem = {}]
  <2>2. fatal(v) \/ Goes("leave", v)
    BY <1>10 DEF CcSeal
  <2>3. v.out = S.out /\ v.path = S.path
    BY <1>2, <2>1
  <2> HIDE DEF v
  <2>4. QED BY <1>3, <2>1, <2>2, <2>3
<1>11. CASE RunAsCmd
  <2> DEFINE v(p) == [Session("run") EXCEPT !.path = p]
  <2>1. Answers("unknown command") \/ \E p : Goes("open", v(p))
    BY <1>11 DEF RunAsCmd
  <2>2. \A p : v(p).out = << >>
    BY DEF Session
  <2> HIDE DEF v
  <2>3. ASSUME Answers("unknown command")
        PROVE  NamesInv'
    <3>1. cmd'.op = cmd.op /\ cmd'.at = "done"
      BY <1>1, <2>3, AnswersIs
    <3>2. QED BY <1>1, <3>1, CcOver
  <2>4. QED BY <1>4, <2>1, <2>2, <2>3
\* The loader's steps are not cc's.
<1>12. CASE LdOpen \/ LdRead
  <2>1. InSession /\ cmd.at \in {"open", "load"}
    BY <1>12 DEF LdOpen, LdRead, CcAt, InSession
  <2>2. cmd.op # "cc"
    BY <1>2, <2>1
  <2>3. \E at, v : Goes(at, v) \/ fatal(v)
    BY <1>12 DEF LdOpen, LdRead
  <2>4. QED BY <1>1, <2>2, <2>3, CcKept
<1>13. CASE LdDone \/ UserOpen \/ UserClose \/ UserFree \/ UserLeaves
  <2>1. InSession
    BY <1>13 DEF LdDone, UserOpen, UserClose, UserFree, UserLeaves, CcAt, InSession
  <2> DEFINE a == [S EXCEPT !.fd = "null", !.mem = {}]
             b(h) == [S EXCEPT !.list = <<h>> \o @, !.mem = @ \cup {h}]
             c(k) == [S EXCEPT !.list = RemoveAt(@, k), !.mem = @ \ {S.list[k]}]
             d(h) == [S EXCEPT !.mem = @ \ {h}, !.freed = @ \cup {h}]
  <2>2. /\ a.out = S.out /\ a.path = S.path
        /\ \A h : b(h).out = S.out /\ b(h).path = S.path /\ c(h).out = S.out /\ c(h).path = S.path
                  /\ d(h).out = S.out /\ d(h).path = S.path
    BY SMTT(40), <1>2, <2>1
  <2>3. \/ UNCHANGED cmd
        \/ Goes("user", a) \/ Goes("leave", S) \/ fatal(S)
        \/ \E h : Goes("user", b(h)) \/ Goes("user", c(h)) \/ Goes("leave", c(h)) \/ Goes("user", d(h))
    <3>1. CASE LdDone
      BY ZenonT(60), <3>1 DEF LdDone
    <3>2. CASE UserOpen
      BY ZenonT(60), <3>2 DEF UserOpen
    <3>3. CASE UserClose
      BY ZenonT(60), <3>3 DEF UserClose
    <3>4. CASE UserFree
      BY ZenonT(60), <3>4 DEF UserFree
    <3>5. CASE UserLeaves
      BY <3>5 DEF UserLeaves
    <3>6. QED BY ZenonT(60), <1>13, <3>1, <3>2, <3>3, <3>4, <3>5
  <2> HIDE DEF a, b, c, d
  <2>4. CASE UNCHANGED cmd
    <3>1. Line' = Line /\ S' = S /\ (InSession' <=> InSession) /\ (HasOut' <=> HasOut)
      BY <2>4 DEF Line, S, InSession, HasOut
    <3>2. PathOf(2)' = PathOf(2)
      BY <1>1, <2>4, SamePaths DEF Within
    <3>3. InSession' /\ cmd'.op = "cc" /\ (cmd'.at = "write" \/ S'.out # << >>) => HasOut' /\ S'.path = PathOf(2)'
      BY <1>2, <2>4, <3>1, <3>2
    <3>4. QED BY <1>1, <2>4, <3>3 DEF NamesInv, At, HasNames, Copying, Creating
  <2>5. QED BY <1>3, <2>1, <2>2, <2>3, <2>4
<1>14. CASE CcLeave
  <2>1. cmd' = [cmd EXCEPT !.at = "done", !.said = "left", !.v = [@ EXCEPT !.mem = {}]]
    BY <1>14 DEF CcLeave
  <2>2. cmd'.op = cmd.op /\ cmd'.at = "done"
    BY <1>1, <2>1 DEF CmdOK
  <2>3. QED BY <1>1, <2>2, CcOver
<1>15. QED BY <1>5, <1>6, <1>7, <1>8, <1>9, <1>10, <1>11, <1>12, <1>13, <1>14 DEF CcStep, UserStep

LEMMA NamesStep ==
  ASSUME PInv, SlipInv, NamesInv, [Next]_vars
  PROVE  NamesInv'
<1> SUFFICES ASSUME cmd'.op \in {"mv", "cp", "rm", "tar", "cc"} PROVE NamesInv'
  BY DEF NamesInv, At, HasNames, Copying, Creating
<1>1. CASE UNCHANGED vars
  <2>1. UNCHANGED <<tree, before, cmd, sh_pwd>>
    BY <1>1 DEF vars
  <2>2. PathOf(1)' = PathOf(1) /\ PathOf(2)' = PathOf(2)
    BY <2>1, SamePaths
  <2>a. LastName' = LastName
    BY <2>1, SameLast
  <2>3. /\ Targets(before, PathOf(2))' = Targets(before, PathOf(2))
        /\ CleanNamed(Frames)' <=> CleanNamed(Frames)
    BY <2>1, <2>2, <2>a DEF Targets, CleanNamed, Frames, IsDir, Exists
  <2>4. QED BY <2>1, <2>2, <2>3 DEF NamesInv, At, HasNames, Copying, Creating, InSession, Recursive, HasOut, Line, S
<1>2. CASE Type
  BY <1>2, TypeBegins DEF Begins, NamesInv, At, HasNames, Copying, Creating, InSession
<1>3. CASE FileStep
  <2>1. CASE MkdirCmd
    BY <1>3, <2>1, FileOps, SameOp
  <2>2. QED BY <1>3, <2>1, NamesLookedUp, NamesUsed, NamesCleaned DEF FileStep
<1>4. CASE TarStep \/ CcStep \/ UserStep
  BY <1>4, NamesOfTar, NamesOfCc
<1>5. QED BY <1>1, <1>2, <1>3, <1>4, StepsOf

-----------------------------------------------------------------------------
(* The steps that change the tree. *)

LeadUp == \A k \in DOMAIN Line.args : TextLeadsUp(Line.args[k])
\* What a copy whose name is lost may make.
Lost(q) == NameLost /\ Under(Named(2), q) /\ q # Named(2)
NamedChange == LeadUp => \A q \in DOMAIN tree \cup DOMAIN tree' : SameAt(tree, tree', q) \/ MayChange(q) \/ Lost(q)

LEMMA OneNamed ==
  ASSUME NEW p, OnlyAt(tree, tree', p), LeadUp => MayChange(p) \/ Lost(p)
  PROVE  NamedChange
BY DEF OnlyAt, NamedChange

LEMMA NoneNamed ==
  ASSUME tree' = tree
  PROVE  NamedChange
BY DEF NamedChange, SameAt

\* A line without names that lead astray names what the command works on.
LEMMA LineNames ==
  ASSUME PInv, LeadUp
  PROVE  /\ cmd.op \in {"mkdir", "rm", "tar", "mv", "cp"} => PathOf(1) = Named(1)
         /\ cmd.op \in {"mv", "cp"} =>
              IsSequence(Named(2)) /\ \A to \in Targets(before, PathOf(2)) : IsSequence(to) /\ (to \in Inside(before, Named(2)) \/ Lost(to))
         /\ cmd.op = "cc" /\ HasOut => PathOf(2) = Named(2)
<1>1. ASSUME cmd.op \in {"mkdir", "rm", "tar", "mv", "cp", "cc"}
      PROVE  /\ cmd.op \in Commands /\ cmd.op # "cd" /\ 1 \in DOMAIN Line.args
             /\ cmd.op \in {"mv", "cp"} \/ HasOut => 2 \in DOMAIN Line.args
  <2>1. cmd.op \in Commands /\ cmd.op # "cd"
    BY <1>1 DEF Commands
  <2>2. IsSequence(Line.args) /\ Len(Line.args) \in Nat /\ 1 \in 1 .. Len(Line.args)
        /\ (cmd.op \in {"mv", "cp"} => 2 \in 1 .. Len(Line.args))
    BY <1>1, <2>1, Arguments DEF PInv
  <2>3. HasOut => 2 \in 1 .. Len(Line.args)
    BY <2>2 DEF HasOut
  <2>4. QED BY <2>1, <2>2, <2>3, SequenceFacts
<1>2. \A k \in DOMAIN Line.args : TextLeadsUp(Line.args[k])
  BY DEF LeadUp
<1>3. cmd.op \in {"mkdir", "rm", "tar", "mv", "cp"} => PathOf(1) = Named(1)
  BY <1>1, <1>2, NamedIs
<1>4. cmd.op \in {"mv", "cp"} \/ (cmd.op = "cc" /\ HasOut) => PathOf(2) = Named(2) /\ IsSequence(PathOf(2))
  BY <1>1, <1>2, NamedIs
<1>5. ASSUME cmd.op \in {"mv", "cp"}, NEW to \in Targets(before, PathOf(2))
      PROVE  IsSequence(to) /\ (to \in Inside(before, Named(2)) \/ Lost(to))
  <2> DEFINE q == PathOf(2)
  <2>1. IsSequence(q) /\ q = Named(2) /\ PathOf(1) = Named(1) /\ Len(q) \in Nat
    BY <1>3, <1>4, <1>5, SequenceFacts
  <2> HIDE DEF q
  <2>2. CASE to = q
    BY <2>1, <2>2 DEF Inside
  <2>3. ASSUME IsDir(before, q), NEW e, to = q \o <<e>>
        PROVE  IsSequence(to) /\ to = Append(q, e) /\ Under(q, to) /\ to # q
    <3>1. to = Append(q, e)
      <4>1. q \in Seq(ToSet(q) \cup {e})
        <5>1. q \in Seq(ToSet(q)) /\ ToSet(q) \subseteq ToSet(q) \cup {e}
          BY <2>1 DEF IsSequence
        <5>2. QED BY <5>1
      <4>2. QED BY <2>3, <4>1
    <3>2. IsSequence(to) /\ Len(to) = Len(q) + 1 /\ \A k \in 1 .. Len(q) : to[k] = q[k]
      BY <2>1, <3>1, AppendFacts
    <3>3. Under(q, to)
      BY <2>1, <3>2, PrefixFacts
    <3>4. QED BY <2>1, <3>1, <3>2, <3>3
  <2>4. CASE to # q
    <3>1. IsDir(before, q) /\ to = q \o LastName
      BY <1>5, <2>4 DEF Targets, q
    <3>2. CASE Line.args[1].names = << >>
      <4>1. LastName = << >>
        BY <3>2 DEF LastName, Unslashed
      <4>2. q \o << >> = q
        BY <2>1, CatNothing
      <4>3. QED BY <2>4, <3>1, <4>1, <4>2
    <3>3. CASE Line.args[1].names # << >> /\ Unslashed(Line.args[1])
      <4>1. LastName = <<Memory>>
        BY <3>3 DEF LastName
      <4>2. IsSequence(to) /\ Under(q, to) /\ to # q
        BY <2>3, <3>1, <4>1
      <4>3. QED BY <1>5, <2>1, <3>1, <3>3, <4>2 DEF Lost, NameLost
    <3>4. CASE Line.args[1].names # << >> /\ ~Unslashed(Line.args[1])
      <4>1. LastName = <<Last(Named(1))>>
        BY <2>1, <3>4 DEF LastName
      <4>2. IsSequence(to) /\ to = Append(q, Last(Named(1)))
        BY <2>3, <3>1, <4>1
      <4>3. QED BY <2>1, <3>1, <4>2 DEF Inside
    <3>5. QED BY <3>2, <3>3, <3>4
  <2>5. QED BY <2>2, <2>4
<1>6. QED BY <1>3, <1>4, <1>5

LEMMA MvNamed ==
  ASSUME PInv, NamesInv, Mv
  PROVE  NamedChange
<1>1. cmd.op = "mv" /\ cmd.v.from = PathOf(1) /\ cmd.v.to \in Targets(before, PathOf(2))
  BY DEF Mv, NamesInv, HasNames, At
<1>2. IsSequence(cmd.v.from) /\ IsSequence(cmd.v.to) /\ WellFormed(tree)
  BY DEF PInv, CopyOK, Mv, TypeOK
<1>3. tree' = tree \/ tree' = Renamed(tree, cmd.v.from, cmd.v.to)
  BY DEF Mv
<1>4. CASE tree' = Renamed(tree, cmd.v.from, cmd.v.to)
  <2> SUFFICES ASSUME LeadUp, NEW q \in DOMAIN tree \cup DOMAIN tree'
               PROVE  SameAt(tree, tree', q) \/ MayChange(q) \/ Lost(q)
    BY DEF NamedChange
  <2>1. Under(cmd.v.from, q) \/ Under(cmd.v.to, q) \/ SameAt(tree, tree', q)
    BY <1>2, <1>4, MoveChanges
  <2>2. cmd.v.from = Named(1) /\ (cmd.v.to \in Inside(before, Named(2)) \/ Lost(cmd.v.to)) /\ IsSequence(Named(2))
    BY <1>1, LineNames
  <2>3. CASE Lost(cmd.v.to) /\ Under(cmd.v.to, q) /\ ~SameAt(tree, tree', q)
    <3>1. IsSequence(q)
      <4>1. q \in DOMAIN tree \/ \E r : q = cmd.v.to \o SubSeq(r, Len(cmd.v.from) + 1, Len(r)) /\ r \in DOMAIN tree
        BY <1>4 DEF Renamed
      <4>2. \A r \in DOMAIN tree : IsSequence(r)
        BY <1>2 DEF WellFormed
      <4>3. Len(cmd.v.from) \in Nat
        BY <1>2, SequenceFacts
      <4>4. ASSUME NEW r \in DOMAIN tree
            PROVE  IsSequence(cmd.v.to \o SubSeq(r, Len(cmd.v.from) + 1, Len(r)))
        BY <1>2, <4>2, <4>3, RestFacts, CatFacts
      <4>5. QED BY <4>1, <4>2, <4>4
    <3>2. Under(Named(2), q) /\ q # Named(2)
      <4> DEFINE a == Named(2)
                 b == cmd.v.to
      <4>1. IsSequence(a) /\ IsSequence(b) /\ Under(a, b) /\ a # b /\ Under(b, q)
        BY <1>2, <2>2, <2>3 DEF Lost
      <4> HIDE DEF a, b
      <4>2. Len(a) \in Nat /\ Len(b) \in Nat /\ Len(q) \in Nat
        BY <3>1, <4>1, SequenceFacts
      <4>3. Len(a) <= Len(b) /\ \A k \in 1 .. Len(a) : a[k] = b[k]
        BY <4>1, PrefixFacts
      <4>4. Len(b) <= Len(q) /\ \A k \in 1 .. Len(b) : b[k] = q[k]
        BY <3>1, <4>1, PrefixFacts
      <4>5. \A k \in 1 .. Len(a) : k \in 1 .. Len(b)
        BY <4>2, <4>3
      <4>6. Len(a) <= Len(q) /\ \A k \in 1 .. Len(a) : a[k] = q[k]
        BY <4>2, <4>3, <4>4, <4>5
      <4>7. Under(a, q)
        BY <3>1, <4>1, <4>6, PrefixFacts
      <4>8. Len(a) # Len(b)
        <5>1. ASSUME Len(a) = Len(b)
              PROVE  FALSE
          <6>1. a = b
            BY <4>1, <4>3, <5>1, SameSequence
          <6>2. QED BY <4>1, <6>1
        <5>2. QED BY <5>1
      <4>9. Len(a) # Len(q)
        BY <4>2, <4>3, <4>4, <4>8
      <4>10. QED BY <4>7, <4>9 DEF a
    <3>3. QED BY <2>3, <3>2 DEF Lost
  <2>4. QED BY <1>1, <2>1, <2>2, <2>3 DEF MayChange
<1>5. QED BY <1>3, <1>4, NoneNamed

LEMMA CpNamed ==
  ASSUME PInv, NamesInv, CpOpen \/ CpClose
  PROVE  NamedChange
<1>1. cmd.op = "cp" /\ cmd.v.to \in Targets(before, PathOf(2))
  BY DEF CpOpen, CpClose, NamesInv, HasNames, At, Copying
<1>2. LeadUp => MayChange(cmd.v.to) \/ Lost(cmd.v.to)
  BY <1>1, LineNames DEF MayChange
<1>3. OnlyAt(tree, tree', cmd.v.to)
  <2>1. CASE CpOpen
    <3>1. tree' = tree \/ tree' = Created(tree, cmd.v.to)
      BY <2>1 DEF CpOpen
    <3>2. QED BY <3>1, OneIsChanged
  <2>2. CASE CpClose
    <3> DEFINE stored == Stored(tree, cmd.v.to, cmd.v.out)
    <3>1. PICK t \in {tree, stored} : tree' = t \/ tree' = Marked(t, cmd.v.to)
      BY <2>2 DEF CpClose
    <3>2. OnlyAt(tree, t, cmd.v.to)
      BY <3>1, OneIsChanged
    <3>3. OnlyAt(t, tree', cmd.v.to)
      BY <3>1, OneIsChanged
    <3>4. QED BY <3>2, <3>3, StillOne
  <2>3. QED BY <2>1, <2>2
<1>4. QED BY <1>2, <1>3, OneNamed

LEMMA RmNamed ==
  ASSUME PInv, NamesInv, MkdirCmd \/ RmRemove \/ CleanFile \/ CleanEnd
  PROVE  NamedChange
<1>1. CASE MkdirCmd \/ RmRemove
  <2>1. cmd.op \in {"mkdir", "rm"}
    BY <1>1, FileOps
  <2>2. OnlyAt(tree, tree', PathOf(1))
    BY <1>1, OneIsChanged DEF MkdirCmd, RmRemove
  <2>3. LeadUp => MayChange(PathOf(1))
    BY <2>1, LineNames DEF MayChange
  <2>4. QED BY <2>2, <2>3, OneNamed
<1>2. CASE CleanFile \/ CleanEnd
  <2>1. At("rm", "clean") /\ Frames # << >>
    BY <1>2 DEF CleanFile, CleanEnd
  <2>2. cmd.op = "rm" /\ Recursive /\ CleanNamed(Frames)
    BY <2>1 DEF NamesInv, At
  <2>3. Len(Frames) \in 1 .. Len(Frames) /\ Top = Frames[Len(Frames)]
    BY <2>1, CleanHas DEF Top
  <2>4. Under(PathOf(1), Top.dir) /\ \A p \in Top.unread : Under(PathOf(1), p)
    BY <2>2, <2>3 DEF CleanNamed
  <2>5. tree' = tree \/ \E p : Under(PathOf(1), p) /\ tree' = Without(tree, {p})
    <3>1. CASE CleanFile
      BY <2>4, <3>1 DEF CleanFile
    <3>2. CASE CleanEnd
      BY <2>4, <3>2 DEF CleanEnd
    <3>3. QED BY <1>2, <3>1, <3>2
  <2>6. ASSUME NEW p, Under(PathOf(1), p), tree' = Without(tree, {p})
        PROVE  NamedChange
    <3>1. OnlyAt(tree, tree', p)
      BY <2>6, OneIsChanged
    <3>2. LeadUp => MayChange(p)
      BY <2>2, <2>6, LineNames DEF MayChange
    <3>3. QED BY <3>1, <3>2, OneNamed
  <2>7. QED BY <2>5, <2>6, NoneNamed
<1>3. QED BY <1>1, <1>2

\* What tar extracts is below the working directory.
LEMMA BelowCwd ==
  ASSUME PInv, NEW name, IsSequence(name), name # << >>, NEW n \in 1 .. Len(name), NEW p, p = Cwd \o SubSeq(name, 1, n)
  PROVE  Under(sh_pwd.names, p) /\ p # sh_pwd.names
<1>1. IsSequence(Cwd) /\ Len(Cwd) \in Nat /\ Len(name) \in Nat
  BY SequenceFacts DEF PInv, PwdOK, Cwd
<1> DEFINE s == SubSeq(name, 1, n)
<1>2. IsSequence(s) /\ Len(s) = n
  <2>1. n \in 0 .. Len(name)
    BY <1>1
  <2>2. QED BY <2>1, PrefixSeq
<1> HIDE DEF s
<1>3. p = Cwd \o s
  BY DEF s
<1>4. IsSequence(p) /\ Len(p) = Len(Cwd) + n /\ \A k \in 1 .. Len(Cwd) : p[k] = Cwd[k]
  <2>1. IsSequence(Cwd \o s) /\ Len(Cwd \o s) = Len(Cwd) + Len(s) /\ \A k \in 1 .. Len(Cwd) : (Cwd \o s)[k] = Cwd[k]
    BY <1>1, <1>2, CatFacts
  <2>2. QED BY <1>2, <1>3, <2>1
<1>5. Len(Cwd) <= Len(p) /\ Len(p) # Len(Cwd)
  BY <1>1, <1>4
<1>6. QED BY <1>1, <1>4, <1>5, PrefixFacts DEF Cwd

LEMMA TarNamed ==
  ASSUME PInv, NamesInv, TarStep
  PROVE  NamedChange
<1>1. cmd.op = "tar"
  BY OtherOps
<1>2. ASSUME Line.flag = "c", OnlyAt(tree, tree', PathOf(1))
      PROVE  NamedChange
  <2>1. LeadUp => MayChange(PathOf(1))
    BY <1>1, <1>2, LineNames DEF MayChange
  <2>2. QED BY <1>2, <2>1, OneNamed
<1>3. CASE TarStart
  <2>1. tree' = tree \/ (Line.flag = "c" /\ tree' = Created(tree, PathOf(1)))
    BY <1>3 DEF TarStart, PathOf
  <2>2. QED BY <1>2, <2>1, OneIsChanged, NoneNamed
<1>4. CASE TarCreated
  <2>1. Creating
    BY <1>4 DEF TarCreated, Creating
  <2>2. cmd.v.file.names = PathOf(1) /\ Line.flag = "c"
    BY <2>1 DEF NamesInv, Creating
  <2>3. tree' = tree \/ tree' = Stored(tree, PathOf(1), cmd.v.out)
    BY <1>4, <2>2 DEF TarCreated, TarClose
  <2>4. QED BY <1>2, <2>2, <2>3, OneIsChanged
<1>5. CASE TarMkdirs \/ TarExtract
  <2>1. At("tar", "dirs")
    BY <1>5 DEF TarMkdirs, TarExtract
  <2>2. Line.flag = "x" /\ cmd.v.made >= 1 /\ ReadOK(cmd.v)
    BY <2>1 DEF NamesInv, PInv, TarOK, Creating, Reading, At
  <2>3. IsSequence(Entry.name) /\ Entry.name # << >> /\ Len(Entry.name) \in Nat /\ Len(Entry.name) >= 1
    BY <2>2, AsHeaderIs, SequenceFacts, FrontFacts DEF Entry, ReadOK
  <2>4. ASSUME NEW n \in 1 .. Len(Entry.name), OnlyAt(tree, tree', Cwd \o SubSeq(Entry.name, 1, n))
        PROVE  NamedChange
    <3> DEFINE p == Cwd \o SubSeq(Entry.name, 1, n)
    <3>1. Under(sh_pwd.names, p) /\ p # sh_pwd.names
      BY <2>3, BelowCwd
    <3>2. OnlyAt(tree, tree', p)
      BY <2>4
    <3> HIDE DEF p
    <3>3. LeadUp => MayChange(p)
      BY <1>1, <2>2, <3>1 DEF MayChange
    <3>4. QED BY <3>2, <3>3, OneNamed
  <2>5. CASE TarMkdirs
    <3> DEFINE p == Cwd \o SubSeq(Entry.name, 1, cmd.v.made)
    <3>1. cmd.v.made \in 1 .. Len(Entry.name)
      <4>1. cmd.v.made < Len(Entry.name) /\ cmd.v.made \in Nat
        BY <2>2, <2>5 DEF TarMkdirs, ReadOK
      <4>2. QED BY <2>2, <2>3, <4>1
    <3>2. tree' = tree \/ tree' = Mkdir(tree, p)
      BY <2>5 DEF TarMkdirs
    <3>3. OnlyAt(tree, tree', p)
      BY <3>2, OneIsChanged
    <3>4. QED BY <2>4, <3>1, <3>3
  <2>6. CASE TarExtract
    <3>1. Place = Cwd \o SubSeq(Entry.name, 1, Len(Entry.name)) /\ Len(Entry.name) \in 1 .. Len(Entry.name)
      BY <2>3, WholePrefix DEF Place
    <3>2. OnlyAt(tree, tree', Place)
      <4> DEFINE created == Created(tree, Place)
                 blocks == Reads(Rest, Entry.size, cmd.v.hdr)
                 whole == Stored(created, Place, blocks)
      <4>1. \/ tree' = tree
            \/ tree' = created
            \/ \E data : tree' = Stored(created, Place, data)
            \/ \E t \in {created, whole} : tree' = Marked(t, Place)
        BY <2>6 DEF TarExtract
      <4>2. OnlyAt(tree, created, Place) /\ OnlyAt(tree, Marked(created, Place), Place)
            /\ \A data : /\ OnlyAt(tree, Stored(created, Place, data), Place)
                         /\ OnlyAt(tree, Marked(Stored(created, Place, data), Place), Place)
        <5>1. ASSUME NEW data
              PROVE  /\ OnlyAt(tree, created, Place) /\ OnlyAt(tree, Marked(created, Place), Place)
                     /\ OnlyAt(tree, Stored(created, Place, data), Place)
                     /\ OnlyAt(tree, Marked(Stored(created, Place, data), Place), Place)
          BY FileIsChanged
        <5>2. QED BY <5>1
      <4> HIDE DEF created
      <4>3. QED BY <4>1, <4>2, OneIsChanged
    <3>3. QED BY <2>4, <3>1, <3>2
  <2>7. QED BY <1>5, <2>5, <2>6
<1>6. CASE TarArgument \/ TarEntry \/ TarDirEnd \/ TarEnd \/ TarHeader \/ TarShut
  <2>1. tree' = tree
    BY <1>6 DEF TarArgument, TarEntry, TarDirEnd, TarEnd, TarGoes, TarHeader, TarShut
  <2>2. QED BY <2>1, NoneNamed
<1>7. QED BY <1>3, <1>4, <1>5, <1>6 DEF TarStep

LEMMA CcNamed ==
  ASSUME PInv, NamesInv, CcStep \/ UserStep
  PROVE  NamedChange
<1>1. CASE CcCreate \/ CcWrite \/ CcSeal \/ CcLeave
  <2>1. InSession
    BY <1>1 DEF CcCreate, CcWrite, CcSeal, CcLeave, CcAt, InSession
  <2>2. PlaceOK(cmd.op, cmd.at, S)
    BY <2>1 DEF PInv, CcOK
  <2>3. ASSUME cmd.op = "cc", HasOut, OnlyAt(tree, tree', PathOf(2))
        PROVE  NamedChange
    <3>1. LeadUp => MayChange(PathOf(2))
      BY <2>3, LineNames DEF MayChange
    <3>2. QED BY <2>3, <3>1, OneNamed
  <2>4. CASE CcCreate
    <3>1. cmd.op = "cc" /\ HasOut
      BY <2>2, <2>4 DEF CcCreate, CcAt, PlaceOK
    <3>2. tree' = tree \/ tree' = Created(tree, PathOf(2))
      BY <2>4 DEF CcCreate
    <3>3. QED BY <2>3, <3>1, <3>2, OneIsChanged
  <2>5. CASE CcWrite \/ CcSeal
    <3>1. cmd.op = "cc" /\ cmd.at = "write"
      BY <2>2, <2>5 DEF CcWrite, CcSeal, CcAt, PlaceOK
    <3>2. HasOut /\ S.path = PathOf(2)
      BY <2>1, <3>1 DEF NamesInv
    <3>3. PICK t \in {tree, Stored(tree, PathOf(2), S.out)} : tree' = t \/ tree' = Marked(t, PathOf(2))
      BY <2>5, <3>2 DEF CcWrite, CcSeal
    <3>4. OnlyAt(tree, tree', PathOf(2))
      <4>1. OnlyAt(tree, t, PathOf(2))
        BY <3>3, OneIsChanged
      <4>2. OnlyAt(t, tree', PathOf(2))
        BY <3>3, OneIsChanged
      <4>3. QED BY <4>1, <4>2, StillOne
    <3>5. QED BY <2>3, <3>1, <3>2, <3>4
  <2>6. CASE CcLeave
    <3>1. \/ tree' = tree
          \/ cmd.op = "cc" /\ S.out # << >> /\ tree' = Stored(tree, S.path, S.out)
      BY <2>6 DEF CcLeave
    <3>2. CASE cmd.op = "cc" /\ S.out # << >> /\ tree' = Stored(tree, S.path, S.out)
      <4>1. HasOut /\ S.path = PathOf(2)
        BY <2>1, <3>2 DEF NamesInv
      <4>2. OnlyAt(tree, tree', PathOf(2))
        BY <3>2, <4>1, OneIsChanged
      <4>3. QED BY <2>3, <3>2, <4>1, <4>2
    <3>3. QED BY <3>1, <3>2, NoneNamed
  <2>7. QED BY <1>1, <2>4, <2>5, <2>6
<1>2. CASE CcStart \/ CcRead \/ CcCompile \/ RunAsCmd \/ LdOpen \/ LdRead \/ LdDone \/ UserStep
  <2>1. tree' = tree
    BY <1>2 DEF CcStart, CcRead, CcCompile, RunAsCmd, LdOpen, LdRead, LdDone, UserStep, UserOpen, UserClose, UserFree, UserLeaves
  <2>2. QED BY <2>1, NoneNamed
<1>3. QED BY <1>1, <1>2 DEF CcStep

LEMMA ShellNamed ==
  ASSUME ShellStep \/ BootMount \/ BootAnswer \/ Reset \/ Type
  PROVE  NamedChange
<1>1. CASE Format \/ BootAnswer
  <2>1. cmd.op \in {"boot", "format"}
    BY <1>1 DEF Format, BootAnswer, At
  <2>2. \A q : MayChange(q)
    BY <2>1 DEF MayChange
  <2>3. QED BY <2>2 DEF NamedChange
<1>2. CASE Stop
  <2>1. cmd.op \in {"quit", "reboot"}
    BY <1>2 DEF Stop
  <2>2. tree' = tree \/ tree' = Stored(Created(tree, HistoryFile), HistoryFile, <<History>>)
    BY <1>2 DEF Stop
  <2>3. OnlyAt(tree, tree', HistoryFile)
    BY <2>2, FileIsChanged
  <2>4. MayChange(HistoryFile)
    BY <2>1 DEF MayChange
  <2>5. QED BY <2>3, <2>4, OneNamed
<1>3. CASE Return \/ Cd \/ Mount \/ Unmount \/ BootMount \/ Reset \/ Type
  <2>1. tree' = tree
    BY <1>3 DEF Return, Cd, Mount, Unmount, BootMount, Reset, Type, Enter
  <2>2. QED BY <2>1, NoneNamed
<1>4. QED BY <1>1, <1>2, <1>3 DEF ShellStep

\* A command changes nothing but what its line names, whatever fails and wherever it is cut off; and the whole
\* device only when it is formatted.
THEOREM NamedCorrect ==
  Spec => OnlyTheNamed
<1> DEFINE Change == \A p \in DOMAIN tree \cup DOMAIN tree' :
                       \/ p \in DOMAIN tree /\ p \in DOMAIN tree' /\ tree'[p] = tree[p]
                       \/ MayChange(p)
                       \/ NameLost /\ Under(Named(2), p) /\ p # Named(2)
                       \/ \E k \in DOMAIN Line.args : ~TextLeadsUp(Line.args[k])
<1>1. Init => SlipInv /\ DeadOK /\ NamesInv
  BY StartsUp DEF SlipInv, NamesInv, InSession, At, HasNames, Copying, Creating, Init, DeadOK
<1>2. PInv /\ SlipInv /\ DeadOK /\ NamesInv /\ [Next]_vars => SlipInv' /\ DeadOK' /\ NamesInv'
  BY SlipStep, DeadStep, NamesStep
<1>3. PInv /\ SlipInv /\ NamesInv /\ [Next]_vars => [Change]_tree
  <2> SUFFICES ASSUME PInv, SlipInv, NamesInv, [Next]_vars, tree' # tree PROVE Change
    OBVIOUS
  <2>1. ASSUME FileStep
        PROVE  NamedChange
    <3>1. MvStart \/ CpStart \/ CpBlock \/ CpEof \/ RmStart \/ RmCount \/ CleanOpen \/ CleanRewind => tree' = tree
      BY DEF MvStart, CpStart, check_from_to_parms, CpBlock, CpEof, RmStart, RmCount, CleanOpen, CleanRewind
    <3>2. QED BY <2>1, <3>1, NoneNamed, MvNamed, CpNamed, RmNamed DEF FileStep
  <2>2. NamedChange
    <3>1. CASE UNCHANGED vars
      BY <3>1, NoneNamed DEF vars
    <3>2. QED BY <2>1, <3>1, TarNamed, CcNamed, ShellNamed DEF Next, Work
  <2>3. QED BY <2>2 DEF NamedChange, SameAt, LeadUp, Lost
<1>4. QED BY <1>1, <1>2, <1>3, Invariance, PTL DEF Spec, OnlyTheNamed

-----------------------------------------------------------------------------

(* Where the entries of an archive start: the smallest set that has the    *)
(* first place and, with a place, the one after its entry.                 *)

\* Where no entry starts; a set closed under going on to the next entry; the smallest such set from k.
Ends(data, k) == k > Len(data) \/ data[k] = Zero
Closed(data, C) == C \subseteq 1 .. Len(data) + 1 /\ \A k \in C : ~Ends(data, k) => After(data, k) \in C
From(data, k) == {j \in 1 .. Len(data) + 1 : \A C : Closed(data, C) /\ k \in C => j \in C}

LEMMA AfterIs ==
  ASSUME NEW data, IsContent(data), NEW k \in 1 .. Len(data)
  PROVE  /\ Follows(data[k]) \in Nat
         /\ After(data, k) \in k + 1 .. Len(data) + 1
         /\ k + 1 + Follows(data[k]) <= Len(data) + 1 => After(data, k) = k + 1 + Follows(data[k])
<1>1. Len(data) \in Nat /\ IsBlock(data[k])
  BY SequenceFacts DEF IsContent
<1>2. Follows(data[k]) \in Nat
  BY <1>1, AsHeaderIs DEF Follows
<1>3. QED BY <1>1, <1>2 DEF After

LEMMA FromIs ==
  ASSUME NEW data, IsContent(data), NEW k \in 1 .. Len(data) + 1
  PROVE  From(data, k) = IF Ends(data, k) THEN {k} ELSE {k} \cup From(data, After(data, k))
<1>1. Len(data) \in Nat
  BY SequenceFacts DEF IsContent
<1>2. k \in From(data, k)
  BY DEF From
<1>3. CASE Ends(data, k)
  <2>1. Closed(data, {k})
    BY <1>3 DEF Closed
  <2>2. \A j \in From(data, k) : j = k
    BY <2>1 DEF From
  <2>3. QED BY <1>2, <1>3, <2>2
<1>4. CASE ~Ends(data, k)
  <2> DEFINE a == After(data, k)
  <2>1. k \in 1 .. Len(data) /\ a \in 1 .. Len(data) + 1
    <3>1. k \in 1 .. Len(data)
      BY <1>1, <1>4 DEF Ends
    <3>2. a \in k + 1 .. Len(data) + 1
      BY <3>1, AfterIs
    <3>3. QED BY <1>1, <3>1, <3>2
  <2> HIDE DEF a
  <2>2. \A C : Closed(data, C) /\ k \in C => a \in C
    BY <1>4 DEF Closed, a
  <2>3. From(data, a) \subseteq From(data, k)
    BY <2>2 DEF From
  <2>4. a \in From(data, a)
    BY <2>1 DEF From
  <2>5. Closed(data, {k} \cup From(data, a))
    <3>1. {k} \cup From(data, a) \subseteq 1 .. Len(data) + 1
      BY DEF From
    <3>2. ASSUME NEW j \in From(data, a), ~Ends(data, j)
          PROVE  After(data, j) \in From(data, a)
      <4>1. j \in 1 .. Len(data)
        BY <1>1, <3>2 DEF Ends, From
      <4>2. After(data, j) \in 1 .. Len(data) + 1
        BY <1>1, <4>1, AfterIs
      <4>3. \A C : Closed(data, C) /\ a \in C => After(data, j) \in C
        BY <3>2 DEF Closed, From
      <4>4. QED BY <4>2, <4>3 DEF From
    <3>3. QED BY <2>4, <3>1, <3>2 DEF Closed, a
  <2>6. From(data, k) \subseteq {k} \cup From(data, a)
    BY <2>5 DEF From
  <2>7. QED BY <1>2, <1>4, <2>3, <2>6 DEF a
<1>5. QED BY <1>3, <1>4

LEMMA StartsAre ==
  ASSUME NEW data, IsContent(data)
  PROVE  Starts(data) = From(data, 1)
<1> DEFINE n == Len(data)
           D == 1 .. n + 1
           g == CHOOSE f : f = [k \in D |-> IF k > n \/ data[k] = Zero THEN {k} ELSE {k} \cup f[After(data, k)]]
           F == [k \in D |-> From(data, k)]
<1>1. Len(data) \in Nat
  BY SequenceFacts DEF IsContent
<1>2. \A k \in D : ~Ends(data, k) => After(data, k) \in D /\ After(data, k) > k
  <2>1. ASSUME NEW k \in D, ~Ends(data, k)
        PROVE  After(data, k) \in D /\ After(data, k) > k
    <3>1. k \in 1 .. Len(data)
      BY <1>1, <2>1 DEF Ends
    <3>2. QED BY <1>1, <3>1, AfterIs
  <2>2. QED BY <2>1
<1>3. F = [k \in D |-> IF k > n \/ data[k] = Zero THEN {k} ELSE {k} \cup F[After(data, k)]]
  <2>1. ASSUME NEW k \in D
        PROVE  From(data, k) = IF k > n \/ data[k] = Zero THEN {k} ELSE {k} \cup F[After(data, k)]
    BY <1>2, FromIs DEF Ends
  <2>2. QED BY <2>1
<1> HIDE DEF F
<1>4. g = [k \in D |-> IF k > n \/ data[k] = Zero THEN {k} ELSE {k} \cup g[After(data, k)]]
  BY <1>3
<1>5. Starts(data) = g[1]
  BY DEF Starts
<1> HIDE DEF g
<1> DEFINE T == {m \in Nat : \A k \in D : n + 1 - k <= m => g[k] = From(data, k)}
<1>6. ASSUME NEW k \in D, ~Ends(data, k) => g[After(data, k)] = From(data, After(data, k))
      PROVE  g[k] = From(data, k)
  <2>1. g[k] = IF Ends(data, k) THEN {k} ELSE {k} \cup g[After(data, k)]
    BY <1>4 DEF Ends
  <2>2. QED BY <1>6, <2>1, FromIs
<1>7. 0 \in T
  <2>1. ASSUME NEW k \in D, n + 1 - k <= 0
        PROVE  Ends(data, k)
    BY <1>1, <2>1 DEF Ends
  <2>2. QED BY <1>6, <2>1
<1>8. ASSUME NEW m \in Nat, m \in T
      PROVE  m + 1 \in T
  <2>1. ASSUME NEW k \in D, n + 1 - k <= m + 1
        PROVE  g[k] = From(data, k)
    <3>1. ASSUME ~Ends(data, k)
          PROVE  g[After(data, k)] = From(data, After(data, k))
      <4>1. After(data, k) \in D /\ After(data, k) > k
        BY <1>2, <3>1
      <4>2. n + 1 - After(data, k) <= m
        BY <1>1, <2>1, <4>1
      <4>3. QED BY <1>8, <4>1, <4>2
    <3>2. QED BY <1>6, <3>1
  <2>2. m + 1 \in Nat
    OBVIOUS
  <2>3. QED BY <2>1, <2>2
<1>9. n + 1 \in T
  <2> HIDE DEF T
  <2>1. \A m \in Nat : m \in T
    BY <1>7, <1>8, SetInduction
  <2>2. QED BY <1>1, <2>1
<1>10. g[1] = From(data, 1)
  BY <1>1, <1>9
<1>11. QED BY <1>5, <1>10

\* The starts are found one after the other, and nothing starts behind the end.
LEMMA StartsFacts ==
  ASSUME NEW data, IsContent(data)
  PROVE  /\ 1 \in Starts(data) /\ Closed(data, Starts(data))
         /\ \A C : Closed(data, C) /\ 1 \in C => Starts(data) \subseteq C
         /\ \A i, j \in Starts(data) : i < j => ~Ends(data, i) /\ After(data, i) <= j
<1>1. Len(data) \in Nat /\ Starts(data) = From(data, 1)
  BY StartsAre, SequenceFacts DEF IsContent
<1>2. 1 \in From(data, 1) /\ From(data, 1) \subseteq 1 .. Len(data) + 1
  BY <1>1 DEF From
<1>3. \A C : Closed(data, C) /\ 1 \in C => From(data, 1) \subseteq C
  BY DEF From
<1>4. Closed(data, From(data, 1))
  <2>1. ASSUME NEW k \in From(data, 1), ~Ends(data, k)
        PROVE  After(data, k) \in From(data, 1)
    <3>1. k \in 1 .. Len(data)
      BY <1>1, <1>2, <2>1 DEF Ends
    <3>2. After(data, k) \in 1 .. Len(data) + 1
      BY <1>1, <3>1, AfterIs
    <3>3. \A C : Closed(data, C) /\ 1 \in C => After(data, k) \in C
      BY <2>1 DEF Closed, From
    <3>4. QED BY <3>2, <3>3 DEF From
  <2>2. QED BY <1>2, <2>1 DEF Closed
<1>5. ASSUME NEW i \in 1 .. Len(data) + 1, ~Ends(data, i)
      PROVE  i \in 1 .. Len(data) /\ After(data, i) \in 1 .. Len(data) + 1 /\ After(data, i) > i
  <2>1. i \in 1 .. Len(data)
    BY <1>1, <1>5 DEF Ends
  <2>2. QED BY <1>1, <2>1, AfterIs
<1>6. ASSUME NEW i \in 1 .. Len(data) + 1, NEW j \in From(data, i)
      PROVE  j >= i
  <2> DEFINE C == i .. Len(data) + 1
  <2>1. Closed(data, C)
    <3>1. ASSUME NEW k \in C, ~Ends(data, k)
          PROVE  After(data, k) \in C
      <4>1. k \in 1 .. Len(data) + 1
        BY <1>1
      <4>2. QED BY <1>1, <1>5, <3>1, <4>1
    <3>2. QED BY <1>1, <3>1 DEF Closed
  <2>2. i \in C
    BY <1>1
  <2> HIDE DEF C
  <2>3. j \in C
    BY <1>6, <2>1, <2>2 DEF From
  <2>4. QED BY <1>1, <2>3 DEF C
<1>7. ASSUME NEW j \in From(data, 1), NEW i \in From(data, 1), i < j
      PROVE  ~Ends(data, i) /\ After(data, i) <= j
  <2> DEFINE Q == {k \in 1 .. Len(data) + 1 : k > j \/ j \in From(data, k)}
  <2>1. 1 \in Q
    BY <1>1
  <2>2. ASSUME NEW k \in Q, ~Ends(data, k)
        PROVE  After(data, k) \in Q
    <3>1. After(data, k) \in 1 .. Len(data) + 1 /\ After(data, k) > k
      BY <1>5, <2>2
    <3>2. CASE k >= j
      BY <1>2, <3>1, <3>2
    <3>3. CASE ~(k >= j)
      <4>1. j \in From(data, k) /\ j # k
        BY <1>1, <1>2, <3>3
      <4>2. j \in From(data, After(data, k))
        BY <2>2, <4>1, FromIs
      <4>3. QED BY <3>1, <4>2
    <3>4. QED BY <3>2, <3>3
  <2>3. i \in Q
    <3>1. Closed(data, Q)
      BY <2>2 DEF Closed
    <3> HIDE DEF Q
    <3>2. QED BY <1>3, <2>1, <3>1
  <2>4. j \in From(data, i) /\ j # i /\ i \in 1 .. Len(data) + 1
    BY <1>1, <1>2, <1>7, <2>3
  <2> HIDE DEF Q
  <2>5. ~Ends(data, i) /\ j \in From(data, After(data, i))
    BY <2>4, FromIs
  <2>6. QED BY <1>5, <1>6, <2>4, <2>5
<1>8. QED BY <1>1, <1>2, <1>3, <1>4, <1>7

-----------------------------------------------------------------------------
(* An archive in the making: entries one behind the other, at the places   *)
(* of H and up to the place e.                                             *)

\* The starts are H and then e: each follows the first or an entry, and each entry is followed by one.
Laid(data, H, e) ==
  /\ e \in 1 .. Len(data) + 1 /\ H \subseteq 1 .. e - 1 /\ 1 \in H \cup {e}
  /\ \A k \in H : data[k] # Zero /\ k + 1 + Follows(data[k]) \in H \cup {e}
  /\ \A k \in (H \cup {e}) \ {1} : \E j \in H : k = j + 1 + Follows(data[j])

LEMMA LaidStarts ==
  ASSUME NEW data, IsContent(data), NEW H, NEW e, Laid(data, H, e), Ends(data, e)
  PROVE  Starts(data) = H \cup {e}
<1>1. Len(data) \in Nat
  BY SequenceFacts DEF IsContent
<1>2. e \in 1 .. Len(data) + 1 /\ H \subseteq 1 .. e - 1 /\ 1 \in H \cup {e}
  BY DEF Laid
<1>3. ASSUME NEW k \in H
      PROVE  ~Ends(data, k) /\ After(data, k) = k + 1 + Follows(data[k]) /\ After(data, k) \in H \cup {e}
             /\ Follows(data[k]) \in Nat
  <2>1. k \in 1 .. Len(data) /\ data[k] # Zero
    BY <1>1, <1>2 DEF Laid
  <2>2. k + 1 + Follows(data[k]) \in H \cup {e}
    BY DEF Laid
  <2>3. Follows(data[k]) \in Nat
    BY <2>1, AfterIs
  <2>4. k + 1 + Follows(data[k]) <= Len(data) + 1
    BY <1>1, <1>2, <2>1, <2>2, <2>3
  <2>5. QED BY <1>1, <2>1, <2>2, <2>3, <2>4, AfterIs DEF Ends
<1>4. Starts(data) \subseteq H \cup {e}
  <2>1. Closed(data, H \cup {e})
    BY <1>1, <1>2, <1>3 DEF Closed
  <2>2. QED BY <1>2, <2>1, StartsFacts
<1>5. H \cup {e} \subseteq Starts(data)
  <2> DEFINE T == (H \cup {e}) \ Starts(data)
  <2> SUFFICES ASSUME T # {} PROVE FALSE
    OBVIOUS
  <2>1. T \subseteq Nat
    <3>1. \A k \in H : k \in Nat
      BY <1>2
    <3>2. e \in Nat
      BY <1>2
    <3>3. QED BY <3>1, <3>2
  <2> HIDE DEF T
  <2>2. PICK x \in T : \A y \in T : x <= y
    BY <2>1, Smallest
  <2>3. x \in (H \cup {e}) \ {1}
    BY StartsFacts DEF T
  <2>4. PICK j \in H : x = j + 1 + Follows(data[j])
    BY <2>3 DEF Laid
  <2>5. j \in Starts(data)
    <3>1. j \notin T
      BY <1>1, <1>2, <1>3, <2>2, <2>4
    <3>2. QED BY <3>1 DEF T
  <2>6. x \in Starts(data)
    BY <1>3, <2>4, <2>5, StartsFacts DEF Closed
  <2>7. QED BY <2>2, <2>6 DEF T
<1>6. QED BY <1>4, <1>5

\* What is put behind changes nothing of it.
LEMMA LaidLonger ==
  ASSUME NEW data, IsContent(data), NEW more, IsContent(more), Len(data) <= Len(more), \A k \in 1 .. Len(data) : more[k] = data[k],
         NEW H, NEW e, Laid(data, H, e)
  PROVE  Laid(more, H, e)
<1>1. Len(data) \in Nat /\ Len(more) \in Nat
  BY SequenceFacts DEF IsContent
<1>2. e \in 1 .. Len(data) + 1 /\ H \subseteq 1 .. e - 1 /\ 1 \in H \cup {e}
  BY DEF Laid
<1>3. \A k \in H : more[k] = data[k]
  BY <1>1, <1>2
<1>4. e \in 1 .. Len(more) + 1
  BY <1>1, <1>2
<1>5. QED BY <1>2, <1>3, <1>4 DEF Laid

\* An entry more.
LEMMA LaidMore ==
  ASSUME NEW data, IsContent(data), NEW H, Laid(data, H, Len(data) + 1), NEW more, IsContent(more),
         NEW b, IsBlock(b), b # Zero,
         Len(more) = Len(data) + 1 + Follows(b), \A k \in 1 .. Len(data) : more[k] = data[k], more[Len(data) + 1] = b
  PROVE  Laid(more, H \cup {Len(data) + 1}, Len(more) + 1)
<1> DEFINE e == Len(data) + 1
           G == H \cup {e}
           z == Len(more) + 1
<1>1. Len(data) \in Nat /\ Len(more) \in Nat /\ Follows(b) \in Nat
  BY SequenceFacts, AsHeaderIs DEF IsContent, Follows
<1>2. H \subseteq 1 .. e - 1 /\ 1 \in H \cup {e}
  BY DEF Laid
<1>3. \A k \in H : more[k] = data[k]
  BY <1>1, <1>2
<1>4. e \in Nat /\ e >= 1 /\ z = e + 1 + Follows(b) /\ more[e] = b
  BY <1>1
<1>5. z \in 1 .. Len(more) + 1 /\ G \subseteq 1 .. z - 1 /\ 1 \in G \cup {z}
  <2>1. \A k \in H : k \in Nat /\ k >= 1 /\ k <= e - 1
    BY <1>2
  <2> HIDE DEF e
  <2>2. z \in Nat /\ z > e
    BY <1>1, <1>4
  <2>3. z = Len(more) + 1
    OBVIOUS
  <2> HIDE DEF z
  <2>4. \A k \in H : k \in 1 .. z - 1
    BY <1>4, <2>1, <2>2
  <2>5. e \in 1 .. z - 1
    BY <1>4, <2>2
  <2>6. z \in 1 .. Len(more) + 1
    BY <1>4, <2>2, <2>3
  <2>7. QED BY <1>2, <2>4, <2>5, <2>6
<1>6. /\ \A k \in H : data[k] # Zero /\ k + 1 + Follows(data[k]) \in H \cup {e}
      /\ \A k \in (H \cup {e}) \ {1} : \E j \in H : k = j + 1 + Follows(data[j])
  BY DEF Laid
<1> HIDE DEF e, z
<1>7. \A k \in G : more[k] # Zero /\ k + 1 + Follows(more[k]) \in G \cup {z}
  BY <1>3, <1>4, <1>6
<1>8. \A k \in (G \cup {z}) \ {1} : \E j \in G : k = j + 1 + Follows(more[j])
  BY <1>3, <1>4, <1>6
<1>9. Laid(more, G, z)
  BY <1>5, <1>7, <1>8 DEF Laid
<1>10. QED BY <1>9 DEF e, z

-----------------------------------------------------------------------------
(* The files that are in it, and those still to come.  b is the tree the   *)
(* command found, t the same with the archive.                             *)

\* The entry of a file of the tree b, and that it is in the archive at the place k.
EntryOf(p, b, cwd) == [name |-> SubSeq(p, Len(cwd) + 1, Len(p)), exe |-> b[p].exe, data |-> b[p].data]
Lies(data, k, p, b, cwd) ==
  /\ k \in 1 .. Len(data) /\ k + Len(b[p].data) <= Len(data)
  /\ data[k] = Header(SubSeq(p, Len(cwd) + 1, Len(p)), Len(b[p].data), b[p].exe)
  /\ \A i \in 1 .. Len(b[p].data) : data[k + i] = b[p].data[i]
\* The entries at the places of H are those of the files of P.
Held(data, H, P, b, cwd) ==
  /\ \A k \in H : \E p \in P : Lies(data, k, p, b, cwd)
  /\ \A p \in P : \E k \in H : Lies(data, k, p, b, cwd)
\* The files that are asked for.
Wanted(b, asked, archive) == {p \in DOMAIN b : IsFile(b, p) /\ p # archive /\ \E q \in asked : Under(q, p)}

\* A header is what it says.
LEMMA HeaderBlock ==
  ASSUME NEW name, NEW size, NEW exe, NEW h, h = Header(name, size, exe)
  PROVE  /\ h # Zero /\ AsHeader(h) = h /\ Follows(h) = size
         /\ h.name = name /\ h.size = size /\ h.exe = exe /\ ~h.slash
<1>1. DOMAIN h = {"name", "size", "exe", "slash"} /\ h.name = name /\ h.size = size /\ h.exe = exe /\ h.slash = FALSE
  BY DEF Header
<1>2. DOMAIN Zero = {"zero"}
  BY DEF Zero
<1>3. AsHeader(h) = h
  BY <1>1 DEF AsHeader, IsHeader
<1>4. h # Zero
  BY <1>1, <1>2
<1>5. Follows(h) = size
  BY <1>1, <1>3 DEF Follows
<1>6. QED BY <1>1, <1>3, <1>4, <1>5

LEMMA LiesEntry ==
  ASSUME NEW data, IsContent(data), NEW b, WellFormed(b), NEW cwd, NEW p \in DOMAIN b, NEW k, Lies(data, k, p, b, cwd)
  PROVE  IsEntry(data, k) /\ EntryAt(data, k) = EntryOf(p, b, cwd)
<1> DEFINE n == Len(b[p].data)
           name == SubSeq(p, Len(cwd) + 1, Len(p))
<1>1. IsSequence(b[p].data) /\ n \in Nat /\ IsSequence(data) /\ Len(data) \in Nat
  BY SequenceFacts DEF WellFormed, IsNode, IsContent
<1>2. k \in 1 .. Len(data) /\ k + n <= Len(data) /\ data[k] = Header(name, n, b[p].exe)
      /\ \A i \in 1 .. n : data[k + i] = b[p].data[i]
  BY DEF Lies
<1> HIDE DEF name
<1>3. /\ data[k] # Zero /\ AsHeader(data[k]) = data[k]
      /\ data[k].name = name /\ data[k].size = n /\ data[k].exe = b[p].exe /\ ~data[k].slash
  <2> DEFINE h == data[k]
             exe == b[p].exe
  <2>1. h = Header(name, n, exe)
    BY <1>2
  <2> HIDE DEF h, n, exe
  <2>2. /\ h # Zero /\ AsHeader(h) = h
        /\ h.name = name /\ h.size = n /\ h.exe = exe /\ ~h.slash
    BY <2>1, HeaderBlock
  <2>3. QED BY <2>2 DEF h, exe
<1>4. IsEntry(data, k)
  BY <1>2, <1>3 DEF IsEntry
<1>5. SubSeq(data, k + 1, k + n) = b[p].data
  <2> HIDE DEF n
  <2>1. k + 1 \in 1 .. Len(data) + 1 /\ k + n \in (k + 1) - 1 .. Len(data)
    BY <1>1, <1>2
  <2>2. IsSequence(SubSeq(data, k + 1, k + n)) /\ Len(SubSeq(data, k + 1, k + n)) = (k + n) - (k + 1) + 1
        /\ \A i \in 1 .. (k + n) - (k + 1) + 1 : SubSeq(data, k + 1, k + n)[i] = data[k + 1 + i - 1]
    BY <1>1, <2>1, SubFacts
  <2>3. (k + n) - (k + 1) + 1 = n /\ \A i \in 1 .. n : k + 1 + i - 1 = k + i
    BY <1>1, <1>2
  <2>4. IsSequence(SubSeq(data, k + 1, k + n)) /\ Len(SubSeq(data, k + 1, k + n)) = n
        /\ \A i \in 1 .. n : SubSeq(data, k + 1, k + n)[i] = b[p].data[i]
    BY <1>2, <2>2, <2>3
  <2>5. QED BY <1>1, <2>4, SameSequence DEF n
<1>6. QED BY <1>3, <1>4, <1>5 DEF EntryAt, EntryOf, name

\* The entries of a finished archive are those of the files it holds.
LEMMA HeldEntries ==
  ASSUME NEW data, IsContent(data), NEW b, WellFormed(b), NEW cwd, NEW H, NEW e, Laid(data, H, e), Ends(data, e),
         NEW P, P \subseteq DOMAIN b, Held(data, H, P, b, cwd)
  PROVE  Entries(data) = {EntryOf(p, b, cwd) : p \in P}
<1>1. Starts(data) = H \cup {e}
  BY LaidStarts
<1>2. ~IsEntry(data, e)
  <2>1. e \in Nat /\ Len(data) \in Nat
    BY SequenceFacts DEF Laid, IsContent
  <2>2. QED BY <2>1 DEF IsEntry, Ends
<1>3. \A k \in H : \E p \in P : EntryAt(data, k) = EntryOf(p, b, cwd)
  BY LiesEntry DEF Held
<1>4. \A p \in P : \E k \in H : IsEntry(data, k) /\ EntryAt(data, k) = EntryOf(p, b, cwd)
  BY LiesEntry DEF Held
<1>5. Entries(data) = {EntryAt(data, k) : k \in {j \in H \cup {e} : IsEntry(data, j)}}
  BY <1>1 DEF Entries
<1>6. QED BY <1>2, <1>3, <1>4, <1>5

LEMMA LiesLonger ==
  ASSUME NEW data, IsSequence(data), NEW more, IsSequence(more), Len(data) <= Len(more), \A k \in 1 .. Len(data) : more[k] = data[k],
         NEW b, WellFormed(b), NEW cwd, NEW p \in DOMAIN b, NEW k, Lies(data, k, p, b, cwd)
  PROVE  Lies(more, k, p, b, cwd)
<1> DEFINE n == Len(b[p].data)
<1>1. n \in Nat /\ Len(data) \in Nat /\ Len(more) \in Nat
  BY SequenceFacts DEF WellFormed, IsNode, IsContent
<1>2. k \in 1 .. Len(data) /\ k + n <= Len(data)
  BY DEF Lies
<1> HIDE DEF n
<1>3. k \in 1 .. Len(more) /\ k + n <= Len(more) /\ more[k] = data[k]
  BY <1>1, <1>2
<1>4. \A i \in 1 .. n : more[k + i] = data[k + i]
  <2>1. \A i \in 1 .. n : k + i \in 1 .. Len(data)
    BY <1>1, <1>2
  <2>2. QED BY <2>1
<1>5. QED BY <1>3, <1>4 DEF Lies, n

\* Below a file there is nothing.
LEMMA FileAlone ==
  ASSUME NEW t, WellFormed(t), NEW p, IsFile(t, p), NEW f \in DOMAIN t, Under(p, f)
  PROVE  f = p
<1>1. IsSequence(p) /\ IsSequence(f) /\ Len(p) \in Nat /\ Len(f) \in Nat
  BY SequenceFacts DEF WellFormed, IsFile, Exists
<1>2. Len(p) <= Len(f) /\ p = SubSeq(f, 1, Len(p))
  BY <1>1, PrefixFacts, WholePrefix DEF Under, IsPrefix
<1>3. CASE Len(p) = Len(f)
  BY <1>1, <1>2, <1>3, WholePrefix
<1>4. CASE Len(p) # Len(f)
  <2>1. Len(p) \in 0 .. Len(f) - 1
    BY <1>1, <1>2, <1>4
  <2>2. QED BY <1>1, <1>2, <2>1, NothingBelow
<1>5. QED BY <1>3, <1>4

\* What is below a directory is below one of its entries.
LEMMA BelowEntry ==
  ASSUME NEW t, WellFormed(t), NEW p, IsDir(t, p), NEW f \in DOMAIN t, Under(p, f), f # p
  PROVE  \E q \in Children(t, p) : Under(q, f)
<1> DEFINE k == Len(p)
           c == SubSeq(f, 1, k + 1)
<1>1. IsSequence(p) /\ IsSequence(f) /\ k \in Nat /\ Len(f) \in Nat
  BY SequenceFacts DEF WellFormed, IsDir, Exists
<1>2. k <= Len(f) /\ p = SubSeq(f, 1, k)
  BY <1>1, PrefixFacts, WholePrefix DEF Under, IsPrefix
<1>3. k # Len(f)
  BY <1>1, <1>2, WholePrefix
<1> HIDE DEF k
<1>4. k + 1 \in 0 .. Len(f) /\ k \in 0 .. k + 1
  BY <1>1, <1>2, <1>3
<1>5. IsSequence(c) /\ Len(c) = k + 1 /\ \A i \in 1 .. k + 1 : c[i] = f[i]
  BY <1>1, <1>4, PrefixSeq
<1>6. SubSeq(c, 1, k) = p
  BY <1>1, <1>2, <1>4, PrefixOfPrefix
<1>7. c \in DOMAIN t
  <2>1. CASE k + 1 = Len(f)
    BY <1>1, <2>1, WholePrefix
  <2>2. CASE k + 1 # Len(f)
    <3>1. k + 1 \in 0 .. Len(f) - 1
      BY <1>1, <1>4, <2>2
    <3>2. QED BY <3>1 DEF WellFormed, IsDir, Exists
  <2>3. QED BY <2>1, <2>2
<1> HIDE DEF c
<1>8. Front(c) = p /\ c # Root
  <2>1. Len(c) - 1 = k /\ Len(c) # 0
    BY <1>1, <1>5
  <2>2. Len(Root) = 0
    BY DEF Root
  <2>3. QED BY <1>6, <2>1, <2>2 DEF Front
<1>9. Under(c, f)
  <2>1. Len(c) <= Len(f) /\ \A i \in 1 .. Len(c) : c[i] = f[i]
    BY <1>1, <1>4, <1>5
  <2>2. QED BY <1>1, <1>5, <2>1, PrefixFacts
<1>10. QED BY <1>7, <1>8, <1>9 DEF Children

\* Every file wanted is in the archive or below something that is not read yet, and nothing else is in it.
Kept(out, unread, b, cwd, asked, archive) ==
  \E H, P :
    /\ Laid(out, H, Len(out) + 1) /\ Held(out, H, P, b, cwd)
    /\ P \subseteq Wanted(b, asked, archive)
    /\ \A p \in Wanted(b, asked, archive) : p \in P \/ \E q \in unread : Under(q, p)
    /\ \A q \in unread : IsSequence(q) /\ \E a \in asked : Under(a, q)

LEMMA KeptNothing ==
  ASSUME NEW b, NEW cwd, NEW archive
  PROVE  Kept(<< >>, {}, b, cwd, {}, archive)
<1>1. Laid(<< >>, {}, 1)
  BY DEF Laid
<1>2. Held(<< >>, {}, {}, b, cwd)
  BY DEF Held
<1>3. Wanted(b, {}, archive) = {}
  BY DEF Wanted
<1>4. Len(<< >>) + 1 = 1
  OBVIOUS
<1>5. QED BY <1>1, <1>2, <1>3, <1>4 DEF Kept

\* An argument is taken up.
LEMMA KeptAsked ==
  ASSUME NEW out, NEW b, NEW cwd, NEW asked, NEW archive, Kept(out, {}, b, cwd, asked, archive),
         NEW a, IsSequence(a)
  PROVE  Kept(out, {a}, b, cwd, asked \cup {a}, archive)
<1>1. PICK H, P :
        /\ Laid(out, H, Len(out) + 1) /\ Held(out, H, P, b, cwd)
        /\ P \subseteq Wanted(b, asked, archive)
        /\ \A p \in Wanted(b, asked, archive) : p \in P
  BY DEF Kept
<1>2. P \subseteq Wanted(b, asked \cup {a}, archive)
  BY <1>1 DEF Wanted
<1>3. \A p \in Wanted(b, asked \cup {a}, archive) : p \in P \/ Under(a, p)
  BY <1>1 DEF Wanted
<1>4. Under(a, a)
  BY UnderItself
<1>5. QED BY <1>1, <1>2, <1>3, <1>4 DEF Kept

\* A file that is wanted comes in.
LEMMA KeptFile ==
  ASSUME NEW out, IsContent(out), NEW b, WellFormed(b), NEW cwd, NEW asked, NEW archive, NEW U, NEW p, IsFile(b, p), p # archive,
         Kept(out, U \cup {p}, b, cwd, asked, archive),
         NEW header, header = Header(SubSeq(p, Len(cwd) + 1, Len(p)), Len(b[p].data), b[p].exe),
         NEW more, IsContent(more), more = Append(out, header) \o b[p].data
  PROVE  Kept(more, U, b, cwd, asked, archive)
<1> DEFINE n == Len(b[p].data)
           e == Len(out) + 1
<1>1. p \in DOMAIN b /\ IsSequence(b[p].data) /\ n \in Nat /\ IsSequence(out) /\ Len(out) \in Nat
  BY SequenceFacts DEF WellFormed, IsNode, IsContent, IsFile, Exists
<1>2. PICK H, P :
        /\ Laid(out, H, Len(out) + 1) /\ Held(out, H, P, b, cwd)
        /\ P \subseteq Wanted(b, asked, archive)
        /\ \A f \in Wanted(b, asked, archive) : f \in P \/ \E q \in U \cup {p} : Under(q, f)
        /\ \A q \in U \cup {p} : IsSequence(q) /\ \E a \in asked : Under(a, q)
  BY DEF Kept
<1>3. header # Zero /\ Follows(header) = n
  BY HeaderBlock
<1>4. IsSequence(Append(out, header)) /\ Len(Append(out, header)) = Len(out) + 1
      /\ (\A k \in 1 .. Len(out) : Append(out, header)[k] = out[k]) /\ Append(out, header)[Len(out) + 1] = header
  BY <1>1, AppendFacts
<1>5. Len(more) = e + n /\ (\A k \in 1 .. e : more[k] = Append(out, header)[k]) /\ \A i \in 1 .. n : more[e + i] = b[p].data[i]
  <2> DEFINE a == Append(out, header)
             c == b[p].data
  <2>1. IsSequence(a) /\ IsSequence(c) /\ more = a \o c /\ Len(a) = e /\ Len(c) = n
    BY <1>1, <1>4
  <2> HIDE DEF a, c, n, e
  <2>2. Len(more) = e + n /\ (\A k \in 1 .. e : more[k] = a[k]) /\ \A i \in 1 .. n : more[e + i] = c[i]
    <3>1. /\ Len(a \o c) = Len(a) + Len(c)
          /\ \A k \in 1 .. Len(a) : (a \o c)[k] = a[k]
          /\ \A k \in 1 .. Len(c) : (a \o c)[Len(a) + k] = c[k]
      BY SMTT(40), <2>1, CatFacts
    <3>2. QED BY ONLY <2>1, <3>1
  <2>3. QED BY <2>2 DEF a, c
<1>6. IsSequence(more) /\ Len(out) <= Len(more) /\ (\A k \in 1 .. Len(out) : more[k] = out[k]) /\ more[e] = header
  <2> HIDE DEF n
  <2>1. \A k \in 1 .. Len(out) : k \in 1 .. e
    BY <1>1
  <2>2. e \in 1 .. e /\ Len(out) <= e + n
    BY <1>1
  <2>3. QED BY <1>4, <1>5, <2>1, <2>2 DEF IsContent
<1>7. Laid(more, H \cup {e}, Len(more) + 1)
  <2>1. Len(more) = Len(out) + 1 + Follows(header)
    BY <1>3, <1>5
  <2>2. IsBlock(header)
    <3>1. IsBlock(more[e])
      <4>1. e \in 1 .. Len(more)
        <5>1. Len(out) \in Nat /\ Len(more) \in Nat /\ Len(more) = Len(out) + 1 + n /\ n \in Nat
          BY <1>1, <1>3, <1>6, <2>1, SequenceFacts
        <5> DEFINE m == Len(more)
                   l == Len(out)
        <5> HIDE DEF m, n, l
        <5>2. l \in Nat /\ m \in Nat /\ m = l + 1 + n /\ n \in Nat
          BY <5>1 DEF m, l
        <5>3. l + 1 \in 1 .. m
          BY ONLY <5>2
        <5>4. QED BY <5>3 DEF m, l
      <4>2. QED BY <4>1 DEF IsContent
    <3>2. QED BY <1>6, <3>1
  <2>3. QED BY <1>2, <1>3, <1>6, <2>1, <2>2, LaidMore
<1>8. Lies(more, e, p, b, cwd)
  <2>1. e \in 1 .. Len(more) /\ e + n <= Len(more)
    <3>1. e \in Nat /\ e >= 1 /\ n \in Nat /\ Len(more) = e + n
      BY <1>1, <1>5
    <3> DEFINE m == Len(more)
    <3> HIDE DEF e, n, m
    <3>2. e \in Nat /\ e >= 1 /\ n \in Nat /\ m = e + n
      BY <3>1 DEF m
    <3>3. e \in 1 .. m /\ e + n <= m
      BY ONLY <3>2
    <3>4. QED BY <3>3 DEF m
  <2> HIDE DEF n
  <2> HIDE DEF e
  <2>2. QED BY <1>5, <1>6, <2>1 DEF Lies, n
<1>9. Held(more, H \cup {e}, P \cup {p}, b, cwd)
  <2>1. \A k, f : f \in P /\ Lies(out, k, f, b, cwd) => Lies(more, k, f, b, cwd)
    BY <1>1, <1>2, <1>6, LiesLonger DEF Wanted
  <2> HIDE DEF e
  <2>2. QED BY <1>2, <1>8, <2>1 DEF Held
<1>10. p \in Wanted(b, asked, archive)
  BY <1>1, <1>2 DEF Wanted
<1>11. \A f \in Wanted(b, asked, archive) : Under(p, f) => f = p
  BY FileAlone DEF Wanted
<1> HIDE DEF e
<1>12. P \cup {p} \subseteq Wanted(b, asked, archive)
  BY <1>2, <1>10
<1>13. \A f \in Wanted(b, asked, archive) : f \in P \cup {p} \/ \E q \in U : Under(q, f)
  BY <1>2, <1>11
<1>14. \A q \in U : IsSequence(q) /\ \E a \in asked : Under(a, q)
  BY <1>2
<1>15. QED BY <1>7, <1>9, <1>12, <1>13, <1>14 DEF Kept

\* The archive itself does not, nor what is below it.
LEMMA KeptSkip ==
  ASSUME NEW out, NEW b, NEW t, WellFormed(t), NEW cwd, NEW asked, NEW archive, NEW U, IsFile(t, archive), DOMAIN b \subseteq DOMAIN t,
         Kept(out, U \cup {archive}, b, cwd, asked, archive)
  PROVE  Kept(out, U, b, cwd, asked, archive)
<1>1. PICK H, P :
        /\ Laid(out, H, Len(out) + 1) /\ Held(out, H, P, b, cwd)
        /\ P \subseteq Wanted(b, asked, archive)
        /\ \A f \in Wanted(b, asked, archive) : f \in P \/ \E q \in U \cup {archive} : Under(q, f)
        /\ \A q \in U \cup {archive} : IsSequence(q) /\ \E a \in asked : Under(a, q)
  BY DEF Kept
<1>2. \A f \in Wanted(b, asked, archive) : ~Under(archive, f)
  BY FileAlone DEF Wanted
<1>3. QED BY <1>1, <1>2 DEF Kept

\* A directory is opened.
LEMMA KeptDir ==
  ASSUME NEW out, NEW b, NEW t, WellFormed(t), NEW cwd, NEW asked, NEW archive, NEW U, NEW p, IsDir(t, p),
         \A f \in DOMAIN b : f \in DOMAIN t /\ t[f] = b[f], \A a \in asked : IsSequence(a),
         Kept(out, U \cup {p}, b, cwd, asked, archive)
  PROVE  Kept(out, U \cup Children(t, p), b, cwd, asked, archive)
<1>1. PICK H, P :
        /\ Laid(out, H, Len(out) + 1) /\ Held(out, H, P, b, cwd)
        /\ P \subseteq Wanted(b, asked, archive)
        /\ \A f \in Wanted(b, asked, archive) : f \in P \/ \E q \in U \cup {p} : Under(q, f)
        /\ \A q \in U \cup {p} : IsSequence(q) /\ \E a \in asked : Under(a, q)
  BY DEF Kept
<1>2. ASSUME NEW f \in Wanted(b, asked, archive), Under(p, f)
      PROVE  \E q \in Children(t, p) : Under(q, f)
  <2>1. f \in DOMAIN t /\ f # p
    BY DEF Wanted, IsFile, IsDir, Exists
  <2>2. QED BY <1>2, <2>1, BelowEntry
<1>3. \A q \in Children(t, p) : IsSequence(q) /\ \E a \in asked : Under(a, q)
  <2>1. PICK a \in asked : Under(a, p)
    BY <1>1
  <2>2. IsSequence(p)
    BY <1>1
  <2>3. \A q \in Children(t, p) : Under(a, q)
    BY <2>1, <2>2, UnderEntry
  <2>4. QED BY <2>3 DEF Children, WellFormed
<1>4. \A f \in Wanted(b, asked, archive) : f \in P \/ \E q \in U \cup Children(t, p) : Under(q, f)
  BY <1>1, <1>2
<1>5. \A q \in U \cup Children(t, p) : IsSequence(q) /\ \E a \in asked : Under(a, q)
  BY <1>1, <1>3
<1>6. QED BY <1>1, <1>4, <1>5 DEF Kept

\* The whole archive: what it holds when nothing is to come any more, with the two blocks at its end.
\* What an archive of the files wanted is.
Finished(data, b, cwd, asked, archive) ==
  Last(data) = Zero /\ Entries(data) = {EntryOf(p, b, cwd) : p \in Wanted(b, asked, archive)}
LEMMA KeptAll ==
  ASSUME NEW out, IsContent(out), NEW b, WellFormed(b), NEW cwd, NEW asked, NEW archive, Kept(out, {}, b, cwd, asked, archive),
         NEW data, IsContent(data), data = out \o <<Zero, Zero>>
  PROVE  Finished(data, b, cwd, asked, archive)
<1> DEFINE zeros == <<Zero, Zero>>
           e == Len(out) + 1
<1>1. PICK H, P :
        /\ Laid(out, H, Len(out) + 1) /\ Held(out, H, P, b, cwd)
        /\ P \subseteq Wanted(b, asked, archive)
        /\ \A p \in Wanted(b, asked, archive) : p \in P
  BY DEF Kept
<1>2. P = Wanted(b, asked, archive) /\ P \subseteq DOMAIN b
  BY <1>1 DEF Wanted
<1>3. IsSequence(zeros) /\ Len(zeros) = 2 /\ zeros[1] = Zero /\ zeros[2] = Zero
  <2>1. zeros = Append(<<Zero>>, Zero)
    OBVIOUS
  <2>2. IsSequence(<<Zero>>)
    BY OneFacts
  <2>3. IsSequence(Append(<<Zero>>, Zero))
    BY <2>2, AppendFacts
  <2>4. Len(zeros) = 2 /\ zeros[1] = Zero /\ zeros[2] = Zero
    OBVIOUS
  <2>5. QED BY <2>1, <2>3, <2>4
<1>4. IsSequence(out) /\ IsSequence(data) /\ Len(out) \in Nat
  BY SequenceFacts DEF IsContent
<1>5. Len(data) = Len(out) + 2 /\ (\A k \in 1 .. Len(out) : data[k] = out[k]) /\ \A k \in 1 .. 2 : data[Len(out) + k] = Zero
  <2> HIDE DEF zeros
  <2>1. data = out \o zeros
    BY DEF zeros
  <2>2. Len(data) = Len(out) + Len(zeros) /\ (\A k \in 1 .. Len(out) : data[k] = out[k])
        /\ \A k \in 1 .. Len(zeros) : data[Len(out) + k] = zeros[k]
    BY <1>3, <1>4, <2>1, CatFacts
  <2>3. \A k \in 1 .. 2 : zeros[k] = Zero
    BY <1>3
  <2>4. QED BY <1>3, <2>2, <2>3
<1>6. Last(data) = Zero
  <2>1. Last(data) = data[Len(out) + 2]
    BY <1>5 DEF Last
  <2>2. QED BY <1>5, <2>1
<1>7. Laid(data, H, e) /\ Ends(data, e)
  <2>1. Len(out) <= Len(data)
    BY <1>4, <1>5
  <2>2. Laid(data, H, e)
    BY <1>1, <1>5, <2>1, LaidLonger
  <2>3. QED BY <1>5, <2>2 DEF Ends
<1>8. Held(data, H, P, b, cwd)
  <2>1. Len(out) <= Len(data)
    BY <1>4, <1>5
  <2>2. \A k, p : p \in P /\ Lies(out, k, p, b, cwd) => Lies(data, k, p, b, cwd)
    BY <1>2, <1>4, <1>5, <2>1, LiesLonger
  <2>3. QED BY <1>1, <2>2 DEF Held
<1>9. Entries(data) = {EntryOf(p, b, cwd) : p \in P}
  BY <1>2, <1>7, <1>8, HeldEntries
<1>10. QED BY <1>2, <1>6, <1>9 DEF Finished

\* What is unread in the directories that are open.
\* What the directories on the stack have still to read.
Unread(s) == UNION {s[k].unread : k \in 1 .. Len(s)}
LEMMA UnreadIs ==
  ASSUME NEW s, IsSequence(s)
  PROVE  /\ \A f : Unread(Append(s, f)) = Unread(s) \cup f.unread
         /\ s # << >> => Unread(s) = Unread(Front(s)) \cup s[Len(s)].unread
<1>1. Len(s) \in Nat
  BY SequenceFacts
<1>2. ASSUME NEW u, IsSequence(u), NEW f
      PROVE  Unread(Append(u, f)) = Unread(u) \cup f.unread
  <2>1. Len(u) \in Nat /\ Len(Append(u, f)) = Len(u) + 1
        /\ (\A k \in 1 .. Len(u) : Append(u, f)[k] = u[k]) /\ Append(u, f)[Len(u) + 1] = f
    BY <1>2, SequenceFacts, AppendFacts
  <2>2. 1 .. Len(u) + 1 = 1 .. Len(u) \cup {Len(u) + 1}
    BY <2>1
  <2> DEFINE w == Append(u, f)
             n == Len(u)
  <2>3. Len(w) = n + 1 /\ (\A k \in 1 .. n : w[k] = u[k]) /\ w[n + 1] = f /\ 1 .. n + 1 = 1 .. n \cup {n + 1}
    BY <2>1, <2>2
  <2>4. Unread(u) = UNION {u[k].unread : k \in 1 .. n}
    BY DEF Unread
  <2> HIDE DEF w, n
  <2>5. Unread(w) = Unread(u) \cup f.unread
    <3>1. ASSUME NEW x
          PROVE  x \in Unread(w) <=> x \in Unread(u) \/ x \in f.unread
      <4>1. x \in Unread(w) <=> \E k \in 1 .. n \cup {n + 1} : x \in w[k].unread
        BY <2>3 DEF Unread
      <4>2. x \in Unread(u) <=> \E k \in 1 .. n : x \in u[k].unread
        BY <2>4
      <4>3. QED BY <2>3, <4>1, <4>2
    <3>2. QED BY <3>1
  <2>6. QED BY <2>5 DEF w
<1>3. ASSUME s # << >>
      PROVE  Unread(s) = Unread(Front(s)) \cup s[Len(s)].unread
  <2>1. IsSequence(Front(s)) /\ s = Append(Front(s), s[Len(s)])
    BY <1>3, FrontFacts
  <2>2. QED BY <1>2, <2>1
<1>4. QED BY <1>2, <1>3

-----------------------------------------------------------------------------
(* tar c: what is in the archive and what is still to be read are the      *)
(* files the line asks for.                                                *)

\* The lines the property is about: names in the working directory, the archive's where it looks to be.
Simple(a) == ~a.abs /\ ~a.up /\ Len(a.names) = 1
Asks == /\ Line.flag = "c" /\ TextLeadsUp(Line.args[1]) /\ sh_pwd.slash = FullPath(Line.args[1]).slash
        /\ \A k \in 2 .. Len(Line.args) : Simple(Line.args[k])
Archiving(at) == At("tar", at) /\ Asks /\ faulted = {}
ArchiveInv ==
  /\ At("tar", "start") => tree = before
  /\ Archiving("create") \/ Archiving("close") =>
       cmd.v.file = FullPath(Line.args[1]) /\ CanCreate(before, PathOf(1)) /\ tree = Created(before, PathOf(1))
  /\ Archiving("create") =>
       /\ cmd.v.arg \in 2 .. Len(Line.args) + 1
       /\ Kept(cmd.v.out, Unread(cmd.v.stack), before, Cwd, {PathOf(k) : k \in 2 .. cmd.v.arg - 1}, PathOf(1))
  /\ Archiving("close") =>
       Finished(cmd.v.out, before, Cwd, {PathOf(k) : k \in 2 .. Len(Line.args)}, PathOf(1))
  /\ At("tar", "done") /\ cmd.said = "created" =>
       /\ Line.flag = "c"
       /\ Asks /\ faulted = {} =>
            Finished(tree[PathOf(1)].data, before, Cwd, {PathOf(k) : k \in 2 .. Len(Line.args)}, PathOf(1))

LEMMA SameAsks ==
  ASSUME Within, cmd'.line = cmd.line
  PROVE  /\ (Asks' <=> Asks) /\ Cwd' = Cwd /\ before' = before /\ Line' = Line
         /\ FullPath(Line.args[1])' = FullPath(Line.args[1]) /\ \A k : PathOf(k)' = PathOf(k)
<1>1. sh_pwd' = sh_pwd /\ before' = before /\ Line' = Line
  BY DEF Within, Line
<1>2. \A k : PathOf(k)' = PathOf(k)
  BY <1>1, SamePaths
<1>3. FullPath(Line.args[1])' = FullPath(Line.args[1])
  BY <1>1 DEF FullPath, Up
<1>4. Asks' <=> Asks
  BY <1>1, <1>3 DEF Asks, TextLeadsUp, Simple
<1>5. QED BY <1>1, <1>2, <1>3, <1>4 DEF Cwd

LEMMA ArchiveGoes ==
  ASSUME PInv, Within, cmd.op = "tar", NEW at \in {"create", "close", "bail", "header", "dirs", "shut"}, NEW v, Goes(at, v),
         Asks /\ faulted' = {} /\ at \in {"create", "close"} =>
           v.file = FullPath(Line.args[1]) /\ CanCreate(before, PathOf(1)) /\ tree' = Created(before, PathOf(1)),
         Asks /\ faulted' = {} /\ at = "create" =>
           /\ v.arg \in 2 .. Len(Line.args) + 1
           /\ Kept(v.out, Unread(v.stack), before, Cwd, {PathOf(k) : k \in 2 .. v.arg - 1}, PathOf(1)),
         Asks /\ faulted' = {} /\ at = "close" =>
           Finished(v.out, before, Cwd, {PathOf(k) : k \in 2 .. Len(Line.args)}, PathOf(1))
  PROVE  ArchiveInv'
<1>1. CmdOK
  BY DEF PInv
<1>2. cmd'.line = cmd.line /\ cmd'.at = at /\ cmd'.v = v
  BY <1>1, GoesIs
<1>3. /\ (Asks' <=> Asks) /\ Cwd' = Cwd /\ before' = before /\ Line' = Line
      /\ FullPath(Line.args[1])' = FullPath(Line.args[1]) /\ \A k : PathOf(k)' = PathOf(k)
  BY <1>2, SameAsks
<1>4. ~At("tar", "start")' /\ ~At("tar", "done")'
  BY <1>2 DEF At
<1>5. Archiving("create")' \/ Archiving("close")' =>
       cmd'.v.file = FullPath(Line.args[1])' /\ CanCreate(before', PathOf(1)') /\ tree' = Created(before', PathOf(1)')
  BY <1>2, <1>3 DEF Archiving, At
<1>6. Archiving("create")' =>
       /\ cmd'.v.arg \in 2 .. Len(Line'.args) + 1
       /\ Kept(cmd'.v.out, Unread(cmd'.v.stack), before', Cwd', {PathOf(k)' : k \in 2 .. cmd'.v.arg - 1}, PathOf(1)')
  BY <1>2, <1>3 DEF Archiving, At
<1>7. Archiving("close")' =>
       Finished(cmd'.v.out, before', Cwd', {PathOf(k)' : k \in 2 .. Len(Line'.args)}, PathOf(1)')
  BY <1>2, <1>3 DEF Archiving, At
<1>8. QED BY <1>4, <1>5, <1>6, <1>7 DEF ArchiveInv

LEMMA ArchiveOver ==
  ASSUME PInv, Within, cmd.op = "tar", NEW said, said # "created", Answers(said)
  PROVE  ArchiveInv'
<1>1. CmdOK
  BY DEF PInv
<1>2. cmd'.at = "done" /\ cmd'.said = said
  BY <1>1, AnswersIs
<1>3. QED BY <1>2 DEF ArchiveInv, Archiving, At

\* Reading a file to its end gives its content.
LEMMA ReadsAll ==
  ASSUME NEW data, IsContent(data), NEW stale
  PROVE  Reads(data, Len(data), stale) = data
<1>1. IsSequence(data) /\ Len(data) \in Nat
  BY SequenceFacts DEF IsContent
<1> DEFINE n == Len(data)
           r == Reads(data, n, stale)
<1>2. r = [k \in 1 .. n |-> r[k]] /\ DOMAIN r = 1 .. n /\ \A k \in 1 .. n : r[k] = data[k]
  BY <1>1 DEF Reads
<1> HIDE DEF r
<1>3. IsSequence(r) /\ Len(r) = n
  BY <1>1, <1>2, OfFunction
<1>4. r = data
  BY <1>1, <1>2, <1>3, SameSequence
<1>5. QED BY <1>4 DEF r

\* The tree while the archive is made.
LEMMA ArchiveTree ==
  ASSUME PInv, cmd.op = "tar", CanCreate(before, PathOf(1)), tree = Created(before, PathOf(1))
  PROVE  /\ WellFormed(tree) /\ WellFormed(before) /\ IsFile(tree, PathOf(1)) /\ IsSequence(PathOf(1))
         /\ \A p \in DOMAIN before : p \in DOMAIN tree /\ tree[p] = before[p]
         /\ \A p \in DOMAIN tree : p # PathOf(1) => p \in DOMAIN before
<1>1. WellFormed(tree) /\ WellFormed(before)
  BY DEF PInv, TypeOK
<1>2. IsSequence(PathOf(1))
  <2>1. cmd.op \in Commands /\ cmd.op # "cd"
    BY DEF Commands
  <2>2. 1 \in 1 .. Len(Line.args)
    BY <2>1, Arguments DEF PInv
  <2>3. 1 \in DOMAIN Line.args
    BY <2>1, <2>2, Arguments, SequenceFacts DEF PInv
  <2>4. QED BY <2>1, <2>2, ArgumentIs DEF PInv, IsDotDot, IsArgument
<1>3. IsFile(tree, PathOf(1))
  BY <1>1, <1>2, CreatedOK
<1>4. QED BY <1>1, <1>2, <1>3 DEF Created, With, Exists

\* The arguments from the second on.
LEMMA AskedPaths ==
  ASSUME PInv, cmd.op = "tar", Asks, NEW k \in 2 .. Len(Line.args)
  PROVE  /\ PathOf(k) = Named(k) /\ IsSequence(PathOf(k)) /\ PathOf(k) # Root /\ PathOf(k) = Append(Cwd, Last(PathOf(k)))
<1> DEFINE a == Line.args[k]
<1>1. cmd.op \in Commands /\ cmd.op # "cd"
  BY DEF Commands
<1>2. IsSequence(Line.args) /\ Len(Line.args) \in Nat
  BY <1>1, Arguments DEF PInv
<1>3. k \in DOMAIN Line.args /\ k \in 1 .. Len(Line.args)
  BY <1>2, SequenceFacts
<1>4. ~a.abs /\ ~a.up /\ Len(a.names) = 1
  BY DEF Asks, Simple
<1>5. PathOf(k) = Named(k) /\ IsSequence(PathOf(k))
  BY <1>1, <1>3, <1>4, NamedIs DEF TextLeadsUp
<1>6. Named(k) = Cwd \o a.names
  BY <1>4 DEF Named, Resolve, Cwd
<1>7. IsSequence(Cwd) /\ IsSequence(a.names) /\ Len(Cwd) \in Nat
  BY <1>1, <1>3, ArgumentIs, SequenceFacts DEF PInv, PwdOK, Cwd, IsArgument
<1> DEFINE p == PathOf(k)
           n == Len(Cwd)
           x == Last(p)
           q == Append(Cwd, x)
<1>8. p = Cwd \o a.names
  BY <1>5, <1>6
<1>9. Len(p) = n + 1 /\ \A i \in 1 .. n : p[i] = Cwd[i]
  <2> DEFINE c == a.names
  <2> HIDE DEF c, p
  <2>1. p = Cwd \o c /\ IsSequence(c) /\ Len(c) = 1
    BY <1>4, <1>7, <1>8 DEF c
  <2>2. Len(Cwd \o c) = n + Len(c) /\ \A i \in 1 .. n : (Cwd \o c)[i] = Cwd[i]
    BY <1>7, <2>1, CatFacts
  <2>3. QED BY <2>1, <2>2
<1>10. IsSequence(q) /\ Len(q) = n + 1 /\ (\A i \in 1 .. n : q[i] = Cwd[i]) /\ q[n + 1] = x
  BY <1>7, AppendFacts
<1>11. x = p[n + 1] /\ n \in Nat /\ IsSequence(p)
  BY <1>5, <1>7, <1>9 DEF Last
<1> HIDE DEF p, n, x, q
<1>12. \A i \in 1 .. n + 1 : p[i] = q[i]
  <2>1. \A i \in 1 .. n + 1 : i \in 1 .. n \/ i = n + 1
    BY <1>11
  <2>2. QED BY <1>9, <1>10, <1>11, <2>1
<1>13. p = q
  BY <1>9, <1>10, <1>11, <1>12, SameSequence
<1>14. p # Root
  <2>1. Len(p) # 0
    BY <1>9, <1>11
  <2>2. Len(Root) = 0
    BY DEF Root
  <2>3. QED BY <2>1, <2>2
<1>15. QED BY <1>5, <1>13, <1>14 DEF p, q, x

\* A file is put into the archive, or passed over when it is the archive.
LEMMA ArchiveFile ==
  ASSUME PInv, PInv', ArchiveInv, Within, UNCHANGED tree, At("tar", "create"),
         NEW p \in DOMAIN tree, NEW v, DOMAIN v = DOMAIN cmd.v, v.file = cmd.v.file, v.out = cmd.v.out,
         tar_file(p, Len(tree[p].data), v), v.arg \in 2 .. Len(Line.args) + 1,
         Asks /\ faulted = {} => Kept(v.out, Unread(v.stack) \cup {p}, before, Cwd, {PathOf(k) : k \in 2 .. v.arg - 1}, PathOf(1))
  PROVE  ArchiveInv'
<1>1. cmd.op = "tar" /\ CmdOK /\ DOMAIN v = {"file", "arg", "stack", "out"}
  BY DEF PInv, At, TarOK, Creating, CreateOK
<1> DEFINE asked == {PathOf(k) : k \in 2 .. v.arg - 1}
<1>2. faulted' = {} => faulted = {}
  BY DEF tar_file, Suffers, Quietly
<1>3. CASE ~(Asks /\ faulted' = {})
  <2> DEFINE w(out) == [v EXCEPT !.out = out]
  <2>1. Goes("create", v) \/ Goes("bail", v) \/ \E out : Goes("create", w(out)) \/ Goes("bail", w(out))
    BY DEF tar_file
  <2> HIDE DEF w
  <2>2. QED BY <1>1, <1>3, <2>1, ArchiveGoes
<1>4. CASE Asks /\ faulted' = {}
  <2>1. /\ cmd.v.file = FullPath(Line.args[1]) /\ CanCreate(before, PathOf(1)) /\ tree = Created(before, PathOf(1))
        /\ Kept(v.out, Unread(v.stack) \cup {p}, before, Cwd, asked, PathOf(1))
    BY <1>2, <1>4 DEF ArchiveInv, Archiving
  <2>2. /\ WellFormed(tree) /\ WellFormed(before) /\ IsFile(tree, PathOf(1)) /\ IsSequence(PathOf(1))
        /\ \A q \in DOMAIN before : q \in DOMAIN tree /\ tree[q] = before[q]
        /\ \A q \in DOMAIN tree : q # PathOf(1) => q \in DOMAIN before
    BY <1>1, <2>1, ArchiveTree
  <2>3. v.file.names = PathOf(1) /\ v.file.slash = sh_pwd.slash
    BY <1>4, <2>1 DEF PathOf, Asks
  <2>4. IsArchive(p, v) <=> p = PathOf(1)
    BY <2>3 DEF IsArchive
  <2> HIDE DEF asked
  <2>5. CASE p = PathOf(1)
    <3>1. Goes("create", v)
      BY <2>4, <2>5 DEF tar_file
    <3>2. DOMAIN before \subseteq DOMAIN tree
      BY <2>2
    <3>3. Kept(v.out, Unread(v.stack), before, Cwd, asked, PathOf(1))
      BY <2>1, <2>2, <2>5, <3>2, KeptSkip
    <3>4. QED BY <1>1, <2>1, <3>1, <3>3, ArchiveGoes DEF asked
  <2>6. CASE p # PathOf(1)
    <3>1. \/ Goes("bail", v)
          \/ \E r \in Outcomes, call \in {"open", "getattr", "write", "read"} :
               LET exe == tree[p].exe /\ ~(r = "bad" /\ call = "getattr")
                   header == Header(SubSeq(p, Len(Cwd) + 1, Len(p)), Len(tree[p].data), exe)
                   archived == [v EXCEPT !.out = Append(@, header) \o Reads(tree[p].data, Len(tree[p].data), header)]
               IN /\ IsFile(tree, p)
                  /\ Suffers(r, call)
                  /\ ~(r = "bad") => Goes("create", archived)
      BY ZenonT(60), <2>4, <2>6 DEF tar_file
    <3>2. CASE Goes("bail", v)
      BY <1>1, <3>2, ArchiveGoes
    <3>3. CASE ~Goes("bail", v)
      <4>1. PICK r \in Outcomes, call \in {"open", "getattr", "write", "read"} :
               LET exe == tree[p].exe /\ ~(r = "bad" /\ call = "getattr")
                   header == Header(SubSeq(p, Len(Cwd) + 1, Len(p)), Len(tree[p].data), exe)
                   archived == [v EXCEPT !.out = Append(@, header) \o Reads(tree[p].data, Len(tree[p].data), header)]
               IN /\ IsFile(tree, p)
                  /\ Suffers(r, call)
                  /\ ~(r = "bad") => Goes("create", archived)
        BY <3>1, <3>3
      <4>2. r # "bad"
        <5>1. Suffers(r, call)
          BY <4>1
        <5>2. QED BY <1>4, <5>1 DEF Suffers
      <4>3. IsFile(tree, p) /\ p \in DOMAIN before /\ tree[p] = before[p] /\ IsFile(before, p)
        BY <2>2, <2>6, <4>1 DEF IsFile, Exists
      <4>4. IsContent(tree[p].data) /\ tree[p].exe \in BOOLEAN
        BY <2>2 DEF WellFormed, IsNode
      <4> DEFINE header == Header(SubSeq(p, Len(Cwd) + 1, Len(p)), Len(before[p].data), before[p].exe)
                 more == Append(v.out, header) \o before[p].data
                 w == [v EXCEPT !.out = more]
      <4>5. (tree[p].exe /\ ~(r = "bad" /\ call = "getattr")) = before[p].exe
        BY <4>2, <4>3, <4>4
      <4>6. Goes("create", w)
        <5>1. Goes("create", [v EXCEPT !.out = Append(v.out, header) \o Reads(before[p].data, Len(before[p].data), header)])
          BY <4>1, <4>2, <4>3, <4>5
        <5>2. Reads(before[p].data, Len(before[p].data), header) = before[p].data
          BY <4>3, <4>4, ReadsAll
        <5>3. QED BY <5>1, <5>2
      <4>7. w.file = v.file /\ w.arg = v.arg /\ w.stack = v.stack /\ w.out = more
        BY <1>1
      <4> HIDE DEF w, more
      <4>8. cmd'.v = w /\ cmd'.at = "create" /\ cmd'.op = "tar"
        BY <1>1, <4>6, GoesIs
      <4>9. IsContent(more) /\ IsContent(v.out)
        <5>1. IsContent(cmd.v.out)
          BY DEF PInv, TarOK, At, Creating, CreateOK
        <5>2. TarOK'
          BY DEF PInv
        <5>3. IsContent(cmd'.v.out)
          BY <4>8, <5>2 DEF TarOK, At, Creating, CreateOK
        <5>4. QED BY <4>7, <4>8, <5>1, <5>3
      <4>10. Kept(more, Unread(v.stack), before, Cwd, asked, PathOf(1))
        BY <2>1, <2>2, <2>6, <4>3, <4>9, KeptFile DEF more
      <4>11. QED BY <1>1, <2>1, <4>6, <4>7, <4>10, ArchiveGoes DEF asked
    <3>4. QED BY <3>2, <3>3
  <2>7. QED BY <2>5, <2>6
<1>5. QED BY <1>3, <1>4

\* A directory is opened.
LEMMA ArchiveDir ==
  ASSUME PInv, ArchiveInv, Within, UNCHANGED tree, At("tar", "create"),
         NEW p, NEW v, DOMAIN v = DOMAIN cmd.v, v.file = cmd.v.file, v.out = cmd.v.out, IsSequence(v.stack),
         tar_dir(p, v), v.arg \in 2 .. Len(Line.args) + 1,
         Asks /\ faulted = {} => Kept(v.out, Unread(v.stack) \cup {p}, before, Cwd, {PathOf(k) : k \in 2 .. v.arg - 1}, PathOf(1))
  PROVE  ArchiveInv'
<1>1. cmd.op = "tar" /\ CmdOK /\ DOMAIN v = {"file", "arg", "stack", "out"}
  BY DEF PInv, At, TarOK, Creating, CreateOK
<1> DEFINE asked == {PathOf(k) : k \in 2 .. v.arg - 1}
           f == [dir |-> p, unread |-> Children(tree, p)]
           w == [v EXCEPT !.stack = Append(v.stack, f)]
<1>2. faulted' = {} => faulted = {}
  BY DEF tar_dir, Suffers
<1>3. Goes("bail", v) \/ (IsDir(tree, p) /\ Goes("create", w))
  BY DEF tar_dir
<1>4. w.file = v.file /\ w.arg = v.arg /\ w.out = v.out /\ w.stack = Append(v.stack, f)
  BY <1>1
<1>5. f.unread = Children(tree, p)
  OBVIOUS
<1> HIDE DEF w, f
<1>6. CASE Goes("bail", v)
  BY <1>1, <1>6, ArchiveGoes
<1>7. CASE Goes("create", w) /\ ~(Asks /\ faulted' = {})
  BY <1>1, <1>7, ArchiveGoes
<1>8. CASE IsDir(tree, p) /\ Goes("create", w) /\ Asks /\ faulted' = {}
  <2>1. /\ cmd.v.file = FullPath(Line.args[1]) /\ CanCreate(before, PathOf(1)) /\ tree = Created(before, PathOf(1))
        /\ Kept(v.out, Unread(v.stack) \cup {p}, before, Cwd, asked, PathOf(1))
    BY <1>2, <1>8 DEF ArchiveInv, Archiving
  <2>2. WellFormed(tree) /\ \A q \in DOMAIN before : q \in DOMAIN tree /\ tree[q] = before[q]
    BY <1>1, <2>1, ArchiveTree
  <2>3. \A a \in asked : IsSequence(a)
    <3>1. IsSequence(Line.args) /\ Len(Line.args) \in Nat
      BY <1>1, Arguments DEF PInv, Commands
    <3>2. \A k \in 2 .. v.arg - 1 : k \in 2 .. Len(Line.args)
      BY <3>1
    <3>3. QED BY <1>1, <1>8, <3>2, AskedPaths
  <2> HIDE DEF asked
  <2>4. Kept(v.out, Unread(v.stack) \cup Children(tree, p), before, Cwd, asked, PathOf(1))
    BY <1>8, <2>1, <2>2, <2>3, KeptDir
  <2>5. Unread(w.stack) = Unread(v.stack) \cup Children(tree, p)
    BY <1>4, <1>5, UnreadIs
  <2>6. Kept(w.out, Unread(w.stack), before, Cwd, asked, PathOf(1))
    BY <1>4, <2>4, <2>5
  <2>7. QED BY <1>1, <1>4, <1>8, <2>1, <2>6, ArchiveGoes DEF asked
<1>9. QED BY <1>3, <1>6, <1>7, <1>8

\* What every step of tar c has before it.
LEMMA ArchiveHas ==
  ASSUME PInv, At("tar", "create")
  PROVE  /\ cmd.op = "tar" /\ CmdOK /\ DOMAIN cmd.v = {"file", "arg", "stack", "out"} /\ IsSequence(cmd.v.stack)
         /\ cmd.v.arg \in Nat \ {0} /\ IsSequence(Line.args) /\ Len(Line.args) \in Nat
         /\ \A k \in 1 .. Len(cmd.v.stack) : /\ DOMAIN cmd.v.stack[k] = {"dir", "unread"}
                                              /\ \A p \in cmd.v.stack[k].unread : p \in DOMAIN tree
<1>1. cmd.op = "tar" /\ cmd.op \in Commands
  BY DEF At, Commands
<1>2. CreateOK(cmd.v, tree) /\ CmdOK
  BY DEF PInv, TarOK, Creating, At
<1>3. IsSequence(Line.args) /\ Len(Line.args) \in Nat
  BY <1>1, <1>2, Arguments
<1>4. QED BY <1>1, <1>2, <1>3 DEF CreateOK

LEMMA ArchiveArgument ==
  ASSUME PInv, PInv', ArchiveInv, TarArgument
  PROVE  ArchiveInv'
<1> DEFINE k == cmd.v.arg
           p == PathOf(k)
           place == IF p = Root THEN Cwd ELSE Append(Cwd, Last(p))
           v == [cmd.v EXCEPT !.arg = @ + 1]
<1>1. At("tar", "create") /\ Within /\ UNCHANGED tree /\ cmd.v.stack = << >> /\ k <= Len(Line.args)
  BY DEF TarArgument, TarFrames
<1>2. /\ cmd.op = "tar" /\ CmdOK /\ DOMAIN cmd.v = {"file", "arg", "stack", "out"} /\ IsSequence(cmd.v.stack)
      /\ k \in Nat \ {0} /\ IsSequence(Line.args) /\ Len(Line.args) \in Nat
  BY <1>1, ArchiveHas
<1>3. DOMAIN v = DOMAIN cmd.v /\ v.file = cmd.v.file /\ v.out = cmd.v.out /\ v.stack = cmd.v.stack /\ v.arg = k + 1
  BY <1>2
<1>4. \/ Exists(tree, p) /\ (tar_dir(place, v) \/ tar_file(place, Len(tree[p].data), v))
      \/ Goes("bail", v)
  BY SMTT(40) DEF TarArgument
<1>5. faulted' = {} => faulted = {}
  BY DEF TarArgument, tar_dir, tar_file, Suffers, Quietly
<1> HIDE DEF v, place, p
<1>6. CASE Goes("bail", v)
  BY <1>1, <1>2, <1>6, ArchiveGoes
<1>7. CASE ~(Asks /\ faulted' = {}) /\ ~Goes("bail", v)
  <2> DEFINE w(out) == [v EXCEPT !.out = out]
             u(stack) == [v EXCEPT !.stack = stack]
  <2>1. \E q, n : tar_dir(q, v) \/ tar_file(q, n, v)
    BY <1>4, <1>7
  <2>2. ASSUME NEW q, NEW n, tar_file(q, n, v)
        PROVE  Goes("create", v) \/ Goes("bail", v) \/ \E out : Goes("create", w(out)) \/ Goes("bail", w(out))
    BY <2>2 DEF tar_file
  <2>3. ASSUME NEW q, tar_dir(q, v)
        PROVE  Goes("bail", v) \/ \E stack : Goes("create", u(stack))
    BY <2>3 DEF tar_dir
  <2>4. \/ Goes("create", v) \/ Goes("bail", v)
        \/ \E out : Goes("create", w(out)) \/ Goes("bail", w(out))
        \/ \E stack : Goes("create", u(stack))
    BY <2>1, <2>2, <2>3
  <2> HIDE DEF w, u
  <2>5. QED BY <1>1, <1>2, <1>7, <2>4, ArchiveGoes
<1>8. CASE Asks /\ faulted' = {} /\ ~Goes("bail", v)
  <2>1. /\ k \in 2 .. Len(Line.args) + 1
        /\ Kept(cmd.v.out, Unread(cmd.v.stack), before, Cwd, {PathOf(j) : j \in 2 .. k - 1}, PathOf(1))
    BY <1>1, <1>5, <1>8 DEF ArchiveInv, Archiving
  <2>2. k \in 2 .. Len(Line.args)
    BY <1>1, <1>2, <2>1
  <2>3. IsSequence(p) /\ p # Root /\ p = Append(Cwd, Last(p))
    BY <1>2, <1>8, <2>2, AskedPaths DEF p
  <2>4. place = p
    BY <2>3 DEF place
  <2>5. Unread(cmd.v.stack) = {}
    <3>1. Len(cmd.v.stack) = 0
      BY <1>1
    <3>2. QED BY <3>1 DEF Unread
  <2>6. Kept(cmd.v.out, {p}, before, Cwd, {PathOf(j) : j \in 2 .. k - 1} \cup {p}, PathOf(1))
    BY <2>1, <2>3, <2>5, KeptAsked
  <2>7. {PathOf(j) : j \in 2 .. k - 1} \cup {p} = {PathOf(j) : j \in 2 .. k}
    <3>1. 2 .. k = 2 .. k - 1 \cup {k}
      BY <2>2
    <3>2. QED BY <3>1 DEF p
  <2>8. v.arg \in 2 .. Len(Line.args) + 1 /\ v.arg - 1 = k
    BY <1>2, <1>3, <2>2
  <2>9. Kept(v.out, Unread(v.stack) \cup {p}, before, Cwd, {PathOf(j) : j \in 2 .. v.arg - 1}, PathOf(1))
    BY <1>3, <2>5, <2>6, <2>7, <2>8
  <2>10. p \in DOMAIN tree /\ (tar_dir(p, v) \/ tar_file(p, Len(tree[p].data), v))
    BY <1>4, <1>8, <2>4 DEF Exists
  <2> HIDE DEF k
  <2>11. QED BY <1>1, <1>2, <1>3, <2>8, <2>9, <2>10, ArchiveFile, ArchiveDir
<1>9. QED BY <1>6, <1>7, <1>8

LEMMA ArchiveEntry ==
  ASSUME PInv, PInv', ArchiveInv, TarEntry
  PROVE  ArchiveInv'
<1>1. At("tar", "create") /\ Within /\ UNCHANGED tree /\ cmd.v.stack # << >>
  BY DEF TarEntry, TarFrames
<1>2. /\ cmd.op = "tar" /\ CmdOK /\ DOMAIN cmd.v = {"file", "arg", "stack", "out"} /\ IsSequence(cmd.v.stack)
      /\ cmd.v.arg \in Nat \ {0} /\ IsSequence(Line.args) /\ Len(Line.args) \in Nat
      /\ \A k \in 1 .. Len(cmd.v.stack) : /\ DOMAIN cmd.v.stack[k] = {"dir", "unread"}
                                           /\ \A p \in cmd.v.stack[k].unread : p \in DOMAIN tree
  BY <1>1, ArchiveHas
<1>3. PICK p \in TarTop.unread :
        LET v == [cmd.v EXCEPT !.stack = Append(Front(TarFrames), [TarTop EXCEPT !.unread = @ \ {p}])]
        IN tar_dir(p, v) \/ tar_file(p, Len(tree[p].data), v)
  BY DEF TarEntry
<1> DEFINE s == cmd.v.stack
           f == [TarTop EXCEPT !.unread = @ \ {p}]
           t == Append(Front(s), f)
           v == [cmd.v EXCEPT !.stack = t]
<1>4. tar_dir(p, v) \/ tar_file(p, Len(tree[p].data), v)
  BY <1>3 DEF TarFrames
<1>5. DOMAIN v = DOMAIN cmd.v /\ v.file = cmd.v.file /\ v.out = cmd.v.out /\ v.stack = t /\ v.arg = cmd.v.arg
  BY <1>2
<1>6. Len(s) \in 1 .. Len(s) /\ TarTop = s[Len(s)] /\ IsSequence(Front(s))
  <2>1. Len(s) \in Nat /\ Len(s) >= 1 /\ IsSequence(Front(s))
    BY <1>1, <1>2, FrontFacts, SequenceFacts
  <2>2. QED BY <2>1 DEF TarTop, TarFrames
<1>7. p \in DOMAIN tree /\ f.unread = TarTop.unread \ {p}
  BY <1>2, <1>6
<1> HIDE DEF f, v
<1>8. IsSequence(t) /\ Unread(t) \cup {p} = Unread(s)
  <2>1. Unread(t) = Unread(Front(s)) \cup f.unread
    BY <1>6, UnreadIs
  <2>2. Unread(s) = Unread(Front(s)) \cup TarTop.unread
    BY <1>1, <1>2, <1>6, UnreadIs
  <2>3. QED BY <1>3, <1>6, <1>7, <2>1, <2>2, AppendFacts
<1> HIDE DEF t
<1>9. CASE Asks /\ faulted = {}
  <2>1. /\ cmd.v.arg \in 2 .. Len(Line.args) + 1
        /\ Kept(cmd.v.out, Unread(s), before, Cwd, {PathOf(k) : k \in 2 .. cmd.v.arg - 1}, PathOf(1))
    BY <1>1, <1>9 DEF ArchiveInv, Archiving
  <2>2. Kept(v.out, Unread(v.stack) \cup {p}, before, Cwd, {PathOf(k) : k \in 2 .. v.arg - 1}, PathOf(1))
    BY <1>5, <1>8, <2>1
  <2> HIDE DEF s
  <2>3. QED BY <1>1, <1>2, <1>4, <1>5, <1>7, <1>8, <2>1, <2>2, ArchiveFile, ArchiveDir
<1>10. CASE ~(Asks /\ faulted = {})
  <2> DEFINE w(out) == [v EXCEPT !.out = out]
             u(stack) == [v EXCEPT !.stack = stack]
  <2>1. \E n : tar_dir(p, v) \/ tar_file(p, n, v)
    BY <1>4
  <2>2. faulted' = {} => faulted = {}
    BY <2>1 DEF tar_file, tar_dir, Suffers, Quietly
  <2>3. \/ Goes("create", v) \/ Goes("bail", v)
        \/ \E out : Goes("create", w(out)) \/ Goes("bail", w(out))
        \/ \E stack : Goes("create", u(stack))
    BY ZenonT(60), <2>1 DEF tar_file, tar_dir
  <2> HIDE DEF w, u
  <2>4. QED BY <1>1, <1>2, <1>10, <2>2, <2>3, ArchiveGoes
<1>11. QED BY <1>9, <1>10

LEMMA ArchiveDirEnd ==
  ASSUME PInv, ArchiveInv, TarDirEnd
  PROVE  ArchiveInv'
<1> DEFINE s == cmd.v.stack
           v == [cmd.v EXCEPT !.stack = Front(@)]
<1>1. At("tar", "create") /\ Within /\ UNCHANGED tree /\ s # << >> /\ Goes("create", v)
  BY DEF TarDirEnd, TarFrames
<1>2. cmd.op = "tar" /\ DOMAIN cmd.v = {"file", "arg", "stack", "out"} /\ IsSequence(s)
  BY <1>1, ArchiveHas
<1>3. v.file = cmd.v.file /\ v.out = cmd.v.out /\ v.stack = Front(s) /\ v.arg = cmd.v.arg
  BY <1>2
<1>4. faulted' = {} => faulted = {} /\ TarTop.unread = {}
  BY DEF TarDirEnd, Suffers, Outcomes
<1>5. Unread(s) = Unread(Front(s)) \cup TarTop.unread
  BY <1>1, <1>2, UnreadIs DEF TarTop, TarFrames
<1> HIDE DEF v
<1>6. Asks /\ faulted' = {} =>
        /\ v.file = FullPath(Line.args[1]) /\ CanCreate(before, PathOf(1)) /\ tree' = Created(before, PathOf(1))
        /\ v.arg \in 2 .. Len(Line.args) + 1
        /\ Kept(v.out, Unread(v.stack), before, Cwd, {PathOf(k) : k \in 2 .. v.arg - 1}, PathOf(1))
  BY <1>1, <1>3, <1>4, <1>5 DEF ArchiveInv, Archiving
<1>7. QED BY <1>1, <1>2, <1>6, ArchiveGoes

\* The two blocks at the end.
LEMMA ArchiveEnd ==
  ASSUME PInv, PInv', ArchiveInv, TarEnd
  PROVE  ArchiveInv'
<1>1. At("tar", "create") /\ Within /\ UNCHANGED tree /\ cmd.v.stack = << >> /\ cmd.v.arg > Len(Line.args)
  BY DEF TarEnd, TarGoes, TarFrames
<1>2. cmd.op = "tar" /\ CmdOK /\ DOMAIN cmd.v = {"file", "arg", "stack", "out"} /\ Len(Line.args) \in Nat
  BY <1>1, ArchiveHas
<1>3. PICK r \in Outcomes, k \in 0 .. 1 :
        /\ Suffers(r, "write")
        /\ Goes("close", [cmd.v EXCEPT !.out = @ \o (IF r = "ok" THEN <<Zero, Zero>> ELSE SubSeq(<<Zero>>, 1, k))])
  BY DEF TarEnd, TarGoes
<1> DEFINE out == cmd.v.out \o (IF r = "ok" THEN <<Zero, Zero>> ELSE SubSeq(<<Zero>>, 1, k))
           v == [cmd.v EXCEPT !.out = out]
<1>4. Goes("close", v)
  BY <1>3
<1>5. v.file = cmd.v.file /\ v.out = out
  BY <1>2
<1> HIDE DEF v
<1>6. ASSUME Asks, faulted' = {}
      PROVE  /\ v.file = FullPath(Line.args[1]) /\ CanCreate(before, PathOf(1)) /\ tree' = Created(before, PathOf(1))
             /\ Finished(v.out, before, Cwd, {PathOf(j) : j \in 2 .. Len(Line.args)}, PathOf(1))
  <2>1. r = "ok" /\ faulted = {}
    BY <1>3, <1>6 DEF Suffers, Outcomes
  <2>2. out = cmd.v.out \o <<Zero, Zero>>
    BY <2>1
  <2>3. /\ cmd.v.file = FullPath(Line.args[1]) /\ CanCreate(before, PathOf(1)) /\ tree = Created(before, PathOf(1))
        /\ cmd.v.arg \in 2 .. Len(Line.args) + 1
        /\ Kept(cmd.v.out, Unread(cmd.v.stack), before, Cwd, {PathOf(j) : j \in 2 .. cmd.v.arg - 1}, PathOf(1))
    BY <1>1, <1>6, <2>1 DEF ArchiveInv, Archiving
  <2>4. cmd.v.arg - 1 = Len(Line.args)
    BY <1>1, <1>2, <2>3
  <2>5. Unread(cmd.v.stack) = {}
    <3>1. Len(cmd.v.stack) = 0
      BY <1>1
    <3>2. QED BY <3>1 DEF Unread
  <2>6. IsContent(cmd.v.out) /\ IsContent(v.out)
    <3>1. IsContent(cmd.v.out)
      BY <1>1 DEF PInv, TarOK, At, Creating, CreateOK
    <3>2. cmd'.v = v /\ cmd'.at = "close" /\ cmd'.op = "tar"
      BY <1>2, <1>4, GoesIs
    <3>3. TarOK'
      BY DEF PInv
    <3>4. IsContent(cmd'.v.out)
      BY <3>2, <3>3 DEF TarOK, At, Creating, CreateOK
    <3>5. QED BY <3>1, <3>2, <3>4
  <2>7. WellFormed(before)
    BY DEF PInv, TypeOK
  <2> DEFINE asked == {PathOf(j) : j \in 2 .. Len(Line.args)}
  <2>8. Kept(cmd.v.out, {}, before, Cwd, asked, PathOf(1))
    BY <2>3, <2>4, <2>5
  <2> HIDE DEF asked, out
  <2>9. Finished(v.out, before, Cwd, asked, PathOf(1))
    BY <1>5, <2>2, <2>6, <2>7, <2>8, KeptAll
  <2>10. QED BY <1>1, <1>5, <2>3, <2>9 DEF asked
<1>7. QED BY <1>1, <1>2, <1>4, <1>6, ArchiveGoes

\* The archive is closed: what was written is in it.
LEMMA ArchiveCreated ==
  ASSUME PInv, ArchiveInv, TarCreated
  PROVE  ArchiveInv'
<1>1. cmd.op = "tar" /\ Within /\ cmd.at \in {"close", "bail"} /\ Line.flag = "c" /\ CmdOK
  BY DEF TarCreated, PInv
<1>2. CASE cmd.at = "bail"
  <2>1. Answers("failed")
    BY <1>2 DEF TarCreated, TarClose
  <2>2. "failed" # "created"
    OBVIOUS
  <2>3. QED BY <1>1, <2>1, <2>2, ArchiveOver
<1>3. CASE cmd.at = "close"
  <2>1. PICK r \in Outcomes :
          /\ Suffers(r, "close")
          /\ tree' \in IF r = "bad" \/ "write" \in faulted THEN {tree, Stored(tree, cmd.v.file.names, cmd.v.out)}
                       ELSE {Stored(tree, cmd.v.file.names, cmd.v.out)}
    BY <1>3 DEF TarCreated, TarClose
  <2>2. Answers("created")
    BY <1>3 DEF TarCreated, TarClose
  <2>3. cmd'.line = cmd.line /\ cmd'.at = "done" /\ cmd'.said = "created"
    BY <1>1, <2>2, AnswersIs
  <2>4. (Asks' <=> Asks) /\ Cwd' = Cwd /\ before' = before /\ Line' = Line /\ \A k : PathOf(k)' = PathOf(k)
    BY <1>1, <2>3, SameAsks
  <2>5. ASSUME Asks, faulted' = {}
        PROVE  Finished(tree'[PathOf(1)].data, before, Cwd, {PathOf(k) : k \in 2 .. Len(Line.args)}, PathOf(1))
    <3>1. faulted = {} /\ r # "bad"
      BY <2>1, <2>5 DEF Suffers
    <3>2. /\ cmd.v.file = FullPath(Line.args[1]) /\ CanCreate(before, PathOf(1)) /\ tree = Created(before, PathOf(1))
          /\ Finished(cmd.v.out, before, Cwd, {PathOf(k) : k \in 2 .. Len(Line.args)}, PathOf(1))
      BY <1>1, <1>3, <2>5, <3>1 DEF ArchiveInv, Archiving, At
    <3>3. WellFormed(tree) /\ IsFile(tree, PathOf(1))
      BY <1>1, <3>2, ArchiveTree
    <3>4. IsContent(cmd.v.out)
      BY <1>1 DEF PInv, TarOK, Creating, CreateOK
    <3>5. tree' = Stored(tree, PathOf(1), cmd.v.out)
      BY <2>1, <3>1, <3>2 DEF PathOf
    <3>6. PathOf(1) \in DOMAIN tree
      BY <3>3 DEF IsFile, Exists
    <3>7. tree'[PathOf(1)].data = cmd.v.out
      BY <3>3, <3>4, <3>5, <3>6, StoredIs
    <3>8. QED BY <3>2, <3>7
  <2>6. Asks' /\ faulted' = {} =>
          Finished(tree'[PathOf(1)'].data, before', Cwd', {PathOf(k)' : k \in 2 .. Len(Line'.args)}, PathOf(1)')
    BY <2>4, <2>5
  <2>7. ~At("tar", "start")' /\ ~At("tar", "create")' /\ ~At("tar", "close")' /\ Line'.flag = "c"
    BY <1>1, <2>3, <2>4 DEF At
  <2>8. QED BY <2>6, <2>7 DEF ArchiveInv, Archiving
<1>4. QED BY <1>1, <1>2, <1>3

LEMMA ArchiveStart ==
  ASSUME PInv, ArchiveInv, TarStart
  PROVE  ArchiveInv'
<1>1. cmd.op = "tar" /\ At("tar", "start") /\ Within /\ tree = before
  BY DEF TarStart, At, ArchiveInv
<1> DEFINE v == [file |-> FullPath(Line.args[1]), arg |-> 2, stack |-> << >>, out |-> << >>]
<1>2. \/ Answers("can't open")
      \/ CanCreate(tree, PathOf(1)) /\ tree' = Created(tree, PathOf(1)) /\ Goes("create", v)
      \/ \E w : Goes("header", w)
  <2>1. PICK r \in Outcomes :
          LET file == FullPath(Line.args[1])
              p == file.names
              ready == IF Line.flag = "c" THEN CanCreate(tree, p) ELSE IsFile(tree, p)
          IN IF r = "bad" \/ ~ready THEN Answers("can't open")
             ELSE IF Line.flag = "c" THEN tree' = Created(tree, p) /\ Goes("create", v)
             ELSE \E w : Goes("header", w)
    BY DEF TarStart
  <2> HIDE DEF v
  <2>2. QED BY <2>1 DEF PathOf
<1>3. v.file = FullPath(Line.args[1]) /\ v.arg = 2 /\ v.stack = << >> /\ v.out = << >>
  OBVIOUS
<1> HIDE DEF v
<1>4. CASE CanCreate(tree, PathOf(1)) /\ tree' = Created(tree, PathOf(1)) /\ Goes("create", v)
  <2>1. Len(Line.args) \in Nat /\ 1 \in 1 .. Len(Line.args)
    BY <1>1, Arguments DEF PInv, Commands
  <2>2. v.arg \in 2 .. Len(Line.args) + 1
    BY <1>3, <2>1
  <2>3. {PathOf(k) : k \in 2 .. v.arg - 1} = {}
    BY <1>3
  <2>4. Unread(v.stack) = {}
    <3>1. Len(v.stack) = 0
      BY <1>3
    <3>2. QED BY <3>1 DEF Unread
  <2>5. Kept(v.out, Unread(v.stack), before, Cwd, {PathOf(k) : k \in 2 .. v.arg - 1}, PathOf(1))
    BY <1>3, <2>3, <2>4, KeptNothing
  <2>6. QED BY <1>1, <1>3, <1>4, <2>2, <2>5, ArchiveGoes
<1>5. CASE \E w : Goes("header", w)
  BY <1>1, <1>5, ArchiveGoes
<1>6. CASE Answers("can't open")
  <2>1. "can't open" # "created"
    OBVIOUS
  <2>2. QED BY <1>1, <1>6, <2>1, ArchiveOver
<1>7. QED BY <1>2, <1>4, <1>5, <1>6

\* Reading an archive makes none.
LEMMA ArchiveRead ==
  ASSUME PInv, ArchiveInv, TarHeader \/ TarMkdirs \/ TarExtract \/ TarShut
  PROVE  ArchiveInv'
<1>1. cmd.op = "tar" /\ Within
  BY DEF TarHeader, TarMkdirs, TarExtract, TarShut, At
<1>2. \/ \E said \in {"error reading", "read", "failed"} : Answers(said)
      \/ \E at \in {"header", "dirs", "shut", "bail"} : \E v : Goes(at, v)
  <2>1. TarHeader => \/ Answers("error reading")
                     \/ \E at \in {"header", "dirs", "shut"} : \E v : Goes(at, v)
    BY DEF TarHeader
  <2>2. TarMkdirs => \E at \in {"dirs", "bail"} : \E v : Goes(at, v)
    BY DEF TarMkdirs
  <2>3. TarExtract => \E at \in {"header", "bail"} : \E v : Goes(at, v)
    BY DEF TarExtract
  <2>4. TarShut => Answers("read") \/ Answers("failed")
    BY DEF TarShut
  <2>5. QED BY <2>1, <2>2, <2>3, <2>4
<1>3. ASSUME NEW said \in {"error reading", "read", "failed"}, Answers(said)
      PROVE  ArchiveInv'
  BY <1>1, <1>3, ArchiveOver
<1>4. ASSUME NEW at \in {"header", "dirs", "shut", "bail"}, NEW v, Goes(at, v)
      PROVE  ArchiveInv'
  BY <1>1, <1>4, ArchiveGoes
<1>5. QED BY <1>2, <1>3, <1>4

LEMMA ArchiveStep ==
  ASSUME PInv, PInv', ArchiveInv, [Next]_vars
  PROVE  ArchiveInv'
<1> SUFFICES ASSUME cmd'.op = "tar" PROVE ArchiveInv'
  BY DEF ArchiveInv, Archiving, At
<1>1. CASE UNCHANGED vars
  <2>1. Within /\ cmd' = cmd /\ tree' = tree /\ faulted' = faulted
    BY <1>1 DEF vars, Within
  <2>2. /\ (Asks' <=> Asks) /\ Cwd' = Cwd /\ before' = before /\ Line' = Line
        /\ FullPath(Line.args[1])' = FullPath(Line.args[1]) /\ \A k : PathOf(k)' = PathOf(k)
    BY <2>1, SameAsks
  <2>3. (At("tar", "start") => tree = before)' /\ (Archiving("create")' <=> Archiving("create")) /\ (Archiving("close")' <=> Archiving("close"))
    BY <2>1, <2>2 DEF ArchiveInv, Archiving, At
  <2>4. Archiving("create")' \/ Archiving("close")' =>
       cmd'.v.file = FullPath(Line.args[1])' /\ CanCreate(before', PathOf(1)') /\ tree' = Created(before', PathOf(1)')
    BY <2>1, <2>2, <2>3 DEF ArchiveInv
  <2>5. Archiving("create")' =>
       /\ cmd'.v.arg \in 2 .. Len(Line'.args) + 1
       /\ Kept(cmd'.v.out, Unread(cmd'.v.stack), before', Cwd', {PathOf(k)' : k \in 2 .. cmd'.v.arg - 1}, PathOf(1)')
    BY <2>1, <2>2, <2>3 DEF ArchiveInv
  <2>6. Archiving("close")' =>
       Finished(cmd'.v.out, before', Cwd', {PathOf(k)' : k \in 2 .. Len(Line'.args)}, PathOf(1)')
    BY <2>1, <2>2, <2>3 DEF ArchiveInv
  <2>7. At("tar", "done")' /\ cmd'.said = "created" =>
       /\ Line'.flag = "c"
       /\ Asks' /\ faulted' = {} =>
            Finished(tree'[PathOf(1)'].data, before', Cwd', {PathOf(k)' : k \in 2 .. Len(Line'.args)}, PathOf(1)')
    BY <2>1, <2>2 DEF ArchiveInv, At
  <2>8. QED BY <2>3, <2>4, <2>5, <2>6, <2>7 DEF ArchiveInv
<1>2. CASE Begins
  BY <1>2 DEF Begins, ArchiveInv, Archiving, At
<1>3. CASE TarStep
  BY <1>3, ArchiveStart, ArchiveArgument, ArchiveEntry, ArchiveDirEnd, ArchiveEnd, ArchiveCreated, ArchiveRead DEF TarStep
<1>4. CASE FileStep \/ CcStep \/ UserStep
  <2>1. cmd.op = "tar"
    BY <1>4, SameOp
  <2>2. QED BY <1>4, <2>1, OtherOps, FileOps DEF FileStep
<1>5. QED BY <1>1, <1>2, <1>3, <1>4, StepsOf, TypeBegins

\* An archive made without a failure, of names in the working directory, has every file under them but
\* itself, with its content and its mark, and its end.
THEOREM ArchiveCorrect ==
  Spec => []ArchiveHoldsTree
<1>1. Init => ArchiveInv
  BY StartsUp DEF ArchiveInv, Archiving, At
<1>2. PInv /\ PInv' /\ ArchiveInv /\ [Next]_vars => ArchiveInv'
  BY ArchiveStep
<1>3. PInv /\ ArchiveInv => ArchiveHoldsTree
  <2> SUFFICES ASSUME PInv, ArchiveInv, At("tar", "done"), cmd.said = "created", faulted = {}, TextLeadsUp(Line.args[1]),
                      sh_pwd.slash = FullPath(Line.args[1]).slash, \A k \in 2 .. Len(Line.args) : Simple(Line.args[k])
               PROVE  LET data == tree[Archive].data
                          asked == {Named(k) : k \in 2 .. Len(Line.args)}
                          files == {p \in DOMAIN before : IsFile(before, p) /\ p # Archive /\ \E q \in asked : Under(q, p)}
                      IN /\ Last(data) = Zero
                         /\ Entries(data) = {[name |-> SubSeq(p, Len(sh_pwd.names) + 1, Len(p)), exe |-> before[p].exe,
                                              data |-> before[p].data] : p \in files}
    BY DEF ArchiveHoldsTree, Simple
  <2>1. Asks /\ cmd.op = "tar"
    BY DEF ArchiveInv, Asks, At
  <2>2. Finished(tree[PathOf(1)].data, before, Cwd, {PathOf(k) : k \in 2 .. Len(Line.args)}, PathOf(1))
    BY <2>1 DEF ArchiveInv
  <2>3. PathOf(1) = Archive
    <3>1. cmd.op \in Commands /\ cmd.op # "cd"
      BY <2>1 DEF Commands
    <3>2. 1 \in DOMAIN Line.args
      BY <2>1, <3>1, Arguments, SequenceFacts DEF PInv
    <3>3. QED BY <3>1, <3>2, NamedIs DEF Archive
  <2>4. {PathOf(k) : k \in 2 .. Len(Line.args)} = {Named(k) : k \in 2 .. Len(Line.args)}
    BY <2>1, AskedPaths
  <2>5. QED BY <2>2, <2>3, <2>4 DEF Finished, EntryOf, Wanted, Cwd
<1>4. QED BY <1>1, <1>2, <1>3, Invariance, PTL DEF Spec

-----------------------------------------------------------------------------
(* tar x: what is left of the archive begins where an entry starts, and    *)
(* the entries before it are back.                                         *)

\* Reading comes to the end block and no further.
LEMMA ToTheEnd ==
  ASSUME NEW data, IsContent(data), HasEnd(data), NEW k \in Starts(data)
  PROVE  /\ k \in 1 .. Len(data)
         /\ data[k] = Zero => \A j \in Starts(data) : j <= k
         /\ data[k] # Zero => /\ Follows(data[k]) \in Nat /\ k + 1 + Follows(data[k]) \in Starts(data)
                              /\ k + 1 + Follows(data[k]) <= Len(data)
                              /\ \A j \in Starts(data) : j < k + 1 + Follows(data[k]) => j <= k
<1>1. Len(data) \in Nat /\ Starts(data) \subseteq 1 .. Len(data) + 1
  BY StartsFacts, SequenceFacts DEF IsContent, Closed
<1>2. PICK z \in Starts(data) : z <= Len(data) /\ data[z] = Zero
  BY DEF HasEnd
<1>3. \A j \in Starts(data) : j <= z
  BY <1>1, <1>2, StartsFacts DEF Ends
<1>4. k \in 1 .. Len(data)
  BY <1>1, <1>2, <1>3
<1>5. ASSUME data[k] = Zero, NEW j \in Starts(data)
      PROVE  j <= k
  BY <1>1, <1>4, <1>5, StartsFacts DEF Ends
<1>6. ASSUME data[k] # Zero
      PROVE  /\ Follows(data[k]) \in Nat /\ k + 1 + Follows(data[k]) \in Starts(data)
             /\ k + 1 + Follows(data[k]) <= Len(data)
             /\ \A j \in Starts(data) : j < k + 1 + Follows(data[k]) => j <= k
  <2>1. ~Ends(data, k)
    BY <1>1, <1>4, <1>6 DEF Ends
  <2>2. After(data, k) \in Starts(data)
    BY <2>1, StartsFacts DEF Closed
  <2>3. After(data, k) <= Len(data)
    BY <1>1, <1>2, <1>3, <2>2
  <2>4. Follows(data[k]) \in Nat /\ After(data, k) = k + 1 + Follows(data[k])
    BY <1>1, <1>4, <2>3, AfterIs DEF After
  <2>5. ASSUME NEW j \in Starts(data), j < After(data, k)
        PROVE  j <= k
    BY <1>1, <1>4, <2>2, <2>5, StartsFacts
  <2>6. QED BY <2>2, <2>3, <2>4, <2>5
<1>7. QED BY <1>4, <1>5, <1>6

\* What is left of a sequence from a place on.
LEMMA FromPlace ==
  ASSUME NEW data, IsSequence(data), NEW k \in 1 .. Len(data), NEW rest, rest = SubSeq(data, k, Len(data))
  PROVE  /\ IsSequence(rest) /\ Len(rest) = Len(data) - k + 1 /\ rest # << >> /\ Head(rest) = data[k]
         /\ \A i \in 1 .. Len(data) - k + 1 : rest[i] = data[k + i - 1]
<1>1. Len(data) \in Nat /\ k \in 1 .. Len(data) + 1 /\ Len(data) \in k - 1 .. Len(data)
  BY SequenceFacts
<1>2. IsSequence(rest) /\ Len(rest) = Len(data) - k + 1 /\ \A i \in 1 .. Len(data) - k + 1 : rest[i] = data[k + i - 1]
  BY <1>1, SubFacts
<1>3. rest # << >>
  <2>1. Len(data) - k + 1 # 0
    BY <1>1
  <2>2. Len(rest) # 0
    BY <1>2, <2>1
  <2>3. QED BY <2>2
<1>4. Head(rest) = rest[1]
  <2>1. rest \in Seq(ToSet(rest))
    BY <1>2 DEF IsSequence
  <2>2. QED BY <1>3, <2>1
<1>5. rest[1] = data[k]
  <2>1. 1 \in 1 .. Len(data) - k + 1 /\ k + 1 - 1 = k
    BY <1>1
  <2>2. QED BY <1>2, <2>1
<1>6. QED BY <1>2, <1>3, <1>4, <1>5

LEMMA AfterPlace ==
  ASSUME NEW data, IsSequence(data), NEW k \in 1 .. Len(data), NEW rest, rest = SubSeq(data, k, Len(data)), NEW n \in 0 .. Len(data) - k
  PROVE  n < Len(rest) /\ SubSeq(rest, n + 1, Len(rest)) = SubSeq(data, k + n, Len(data))
<1> DEFINE l == Len(data)
           z == Len(rest)
           s == SubSeq(rest, n + 1, z)
           m == k + n
           t == SubSeq(data, m, l)
<1>1. l \in Nat /\ m \in 1 .. l /\ n + 1 \in 1 .. l - k + 1
  BY SequenceFacts
<1>2. IsSequence(rest) /\ z = l - k + 1 /\ \A i \in 1 .. l - k + 1 : rest[i] = data[k + i - 1]
  <2>1. IsSequence(rest)
    BY FromPlace
  <2>2. z = l - k + 1
    BY FromPlace
  <2>3. \A i \in 1 .. l - k + 1 : rest[i] = data[k + i - 1]
    BY FromPlace
  <2>4. QED BY <2>1, <2>2, <2>3
<1>3. IsSequence(t) /\ Len(t) = l - m + 1 /\ \A i \in 1 .. l - m + 1 : t[i] = data[m + i - 1]
  <2>1. m \in 1 .. Len(data) /\ t = SubSeq(data, m, Len(data))
    BY <1>1
  <2> HIDE DEF m, t
  <2>2. IsSequence(t)
    BY <2>1, FromPlace
  <2>3. Len(t) = l - m + 1
    BY <2>1, FromPlace
  <2>4. \A i \in 1 .. l - m + 1 : t[i] = data[m + i - 1]
    BY <2>1, FromPlace
  <2>5. QED BY <2>2, <2>3, <2>4
<1> HIDE DEF t
<1>4. IsSequence(s) /\ Len(s) = l - m + 1 /\ \A i \in 1 .. l - m + 1 : s[i] = rest[n + 1 + i - 1]
  <2>1. n + 1 \in 1 .. Len(rest) + 1 /\ z \in n + 1 - 1 .. Len(rest) /\ z - (n + 1) + 1 = l - m + 1
    <3> HIDE DEF l
    <3>1. z \in Nat /\ z = l - k + 1 /\ n \in Nat /\ n + 1 <= z
      BY <1>1, <1>2
    <3>2. QED BY <1>1, <3>1
  <2> HIDE DEF z, l, m
  <2>2. IsSequence(s)
    <3> DEFINE a == n + 1
    <3>1. IsSequence(rest) /\ a \in 1 .. Len(rest) + 1 /\ z \in a - 1 .. Len(rest)
      BY <1>2, <2>1
    <3> HIDE DEF a
    <3>2. IsSequence(SubSeq(rest, a, z))
      BY <3>1, SubFacts
    <3>3. QED BY <3>2 DEF a
  <2>3. Len(s) = z - (n + 1) + 1
    BY <1>2, <2>1, SubFacts
  <2>4. \A i \in 1 .. z - (n + 1) + 1 : s[i] = rest[n + 1 + i - 1]
    BY SMTT(40), <1>2, <2>1, SubFacts
  <2>5. QED BY <2>1, <2>2, <2>3, <2>4
<1> HIDE DEF s
<1>5. ASSUME NEW i \in 1 .. l - m + 1
      PROVE  s[i] = t[i]
  <2> HIDE DEF l
  <2>1. i \in Int /\ n \in Int /\ k \in Int /\ n + 1 + i - 1 = n + i /\ n + i \in 1 .. l - k + 1 /\ k + (n + i) - 1 = m + i - 1
    BY <1>1
  <2>2. s[i] = rest[n + i]
    BY <1>4, <2>1
  <2>3. rest[n + i] = data[m + i - 1]
    BY <1>2, <2>1
  <2>4. QED BY <1>3, <2>2, <2>3
<1>6. s = t
  BY <1>3, <1>4, <1>5, SameSequence
<1>7. n < z
  BY <1>1, <1>2
<1>8. QED BY <1>6, <1>7 DEF s, t

LEMMA PastPlace ==
  ASSUME NEW data, IsSequence(data), NEW k \in 1 .. Len(data), Rest = SubSeq(data, k, Len(data)), NEW n \in 0 .. Len(data) - k
  PROVE  Past(n) = SubSeq(data, k + n, Len(data))
<1>1. n < Len(Rest) /\ SubSeq(Rest, n + 1, Len(Rest)) = SubSeq(data, k + n, Len(data))
  BY AfterPlace
<1>2. n \in Int /\ Len(Rest) \in Int
  <2>1. IsSequence(Rest)
    BY FromPlace
  <2>2. QED BY <2>1, SequenceFacts
<1>3. ~(n >= Len(Rest))
  BY <1>1, <1>2
<1>4. QED BY <1>1, <1>3 DEF Past

LEMMA ReadsPlace ==
  ASSUME NEW data, IsSequence(data), NEW k \in 1 .. Len(data), NEW rest, rest = SubSeq(data, k, Len(data)),
         NEW n \in 0 .. Len(data) - k + 1, NEW stale
  PROVE  Reads(rest, n, stale) = SubSeq(data, k, k + n - 1)
<1> DEFINE l == Len(data)
           r == Reads(rest, n, stale)
           t == SubSeq(data, k, k + n - 1)
<1>1. l \in Nat /\ k \in 1 .. l + 1 /\ k + n - 1 \in k - 1 .. l /\ n \in Nat /\ k + n - 1 - k + 1 = n
  BY SequenceFacts
<1>2. Len(rest) = l - k + 1 /\ \A i \in 1 .. l - k + 1 : rest[i] = data[k + i - 1]
  BY FromPlace
<1>3. IsSequence(t) /\ Len(t) = n /\ \A i \in 1 .. n : t[i] = data[k + i - 1]
  <2>1. IsSequence(t) /\ Len(t) = k + n - 1 - k + 1 /\ \A i \in 1 .. k + n - 1 - k + 1 : t[i] = data[k + i - 1]
    BY <1>1, SubFacts
  <2>2. QED BY <1>1, <2>1
<1> HIDE DEF t
<1>4. ASSUME NEW i \in 1 .. n
      PROVE  r[i] = data[k + i - 1]
  <2>1. i <= Len(rest) /\ i \in 1 .. l - k + 1
    <3> HIDE DEF l
    <3>1. n \in 0 .. l - k + 1
      BY DEF l
    <3>2. QED BY <1>1, <1>2, <3>1
  <2>2. r[i] = rest[i]
    BY <2>1 DEF Reads
  <2>3. QED BY <1>2, <2>1, <2>2
<1>5. DOMAIN r = 1 .. n /\ r = [i \in 1 .. n |-> r[i]]
  BY DEF Reads
<1> HIDE DEF r
<1>6. IsSequence(r) /\ Len(r) = n
  BY <1>1, <1>5, OfFunction
<1>7. r = t
  BY <1>3, <1>4, <1>6, SameSequence
<1>8. QED BY <1>7 DEF r, t

\* Different names are different places.
LEMMA SameName ==
  ASSUME NEW cwd, IsSequence(cwd), NEW a, IsSequence(a), NEW b, IsSequence(b), cwd \o a = cwd \o b
  PROVE  a = b
<1> DEFINE n == Len(cwd)
           c == cwd \o a
           d == cwd \o b
<1>1. n \in Nat /\ Len(a) \in Nat /\ Len(b) \in Nat
  BY SequenceFacts
<1>2. Len(c) = n + Len(a) /\ \A i \in 1 .. Len(a) : c[n + i] = a[i]
  BY CatFacts
<1>3. Len(d) = n + Len(b) /\ \A i \in 1 .. Len(b) : d[n + i] = b[i]
  BY CatFacts
<1>4. c = d
  OBVIOUS
<1> HIDE DEF c, d, n
<1>5. Len(a) = Len(b)
  BY <1>1, <1>2, <1>3, <1>4
<1>6. \A i \in 1 .. Len(a) : a[i] = b[i]
  BY <1>2, <1>3, <1>4, <1>5
<1>7. QED BY <1>5, <1>6, SameSequence

\* An entry is in the tree; its name is no other's; those before a place are back; all are.
IsBack(t, e, cwd) == IsFile(t, cwd \o e.name) /\ t[cwd \o e.name].data = e.data /\ (e.exe => t[cwd \o e.name].exe)
Only(data, k) == \A i \in Starts(data) : IsEntry(data, i) /\ EntryAt(data, i).name = EntryAt(data, k).name => EntryAt(data, i) = EntryAt(data, k)
Back(t, data, cwd, k) == \A j \in Starts(data) : j < k /\ IsEntry(data, j) /\ Only(data, j) => IsBack(t, EntryAt(data, j), cwd)
AllBack(t, data, cwd) == \A j \in Starts(data) : IsEntry(data, j) /\ Only(data, j) => IsBack(t, EntryAt(data, j), cwd)

LEMMA EntryIs ==
  ASSUME NEW data, IsContent(data), NEW k \in 1 .. Len(data), NEW h, h = AsHeader(data[k])
  PROVE  /\ EntryAt(data, k).name = h.name /\ EntryAt(data, k).exe = h.exe
         /\ EntryAt(data, k).data = SubSeq(data, k + 1, k + h.size) /\ IsSequence(h.name) /\ h.size \in Nat
<1>1. IsBlock(data[k])
  BY DEF IsContent
<1>2. QED BY <1>1, AsHeaderIs DEF EntryAt

\* An entry is put in its place: those of other names stay, and it is back.
LEMMA OneMoreBack ==
  ASSUME NEW t, WellFormed(t), NEW data, IsContent(data), NEW cwd, IsSequence(cwd), NEW k \in Starts(data), IsEntry(data, k), k \in 1 .. Len(data),
         NEW n, \A j \in Starts(data) : j < n => j <= k, Back(t, data, cwd, k),
         NEW e, e = EntryAt(data, k), IsContent(e.data), NEW p, p = cwd \o e.name, CanCreate(t, p),
         NEW u, u = IF e.exe THEN Marked(Stored(Created(t, p), p, e.data), p) ELSE Stored(Created(t, p), p, e.data)
  PROVE  Back(u, data, cwd, n)
<1> DEFINE c == Created(t, p)
           w == Stored(c, p, e.data)
<1>1. IsSequence(e.name) /\ IsSequence(p)
  <2>1. IsSequence(e.name)
    BY EntryIs
  <2>2. QED BY <2>1, CatFacts
<1>2. WellFormed(c) /\ IsFile(c, p)
  BY <1>1, CreatedOK
<1>3. OnlyAt(t, u, p)
  <2>1. c \in {t, Created(t, p)}
    OBVIOUS
  <2>2. OnlyAt(t, Stored(c, p, e.data), p) /\ OnlyAt(t, Marked(Stored(c, p, e.data), p), p)
    BY <2>1, FileIsChanged
  <2>3. QED BY <2>2
<1> HIDE DEF c
<1>4. WellFormed(w) /\ IsFile(w, p) /\ w[p].data = e.data
  BY <1>2, StoredIs, StoredOK DEF IsFile, Exists
<1>5. u = IF e.exe THEN Marked(w, p) ELSE w
  BY DEF c
<1> HIDE DEF w
<1>6. IsFile(u, p) /\ u[p].data = e.data /\ (e.exe => u[p].exe)
  BY <1>4, <1>5, MarkedIs DEF IsFile, Exists
<1>7. IsBack(u, e, cwd)
  BY <1>6 DEF IsBack
<1>8. ASSUME NEW j \in Starts(data), j < n, IsEntry(data, j), Only(data, j)
      PROVE  IsBack(u, EntryAt(data, j), cwd)
  <2> DEFINE f == EntryAt(data, j)
  <2>1. CASE f.name = e.name
    <3>1. CASE j = k
      BY <1>7, <3>1
    <3>2. CASE j # k
      <4>1. f = e
        BY <1>8, <2>1 DEF Only
      <4>2. QED BY <1>7, <3>2, <4>1, <2>1
    <3>3. QED BY <3>1, <3>2
  <2>2. CASE f.name # e.name
    <3>1. j <= k /\ j # k
      BY <1>8, <2>2
    <3>2. IsBack(t, f, cwd)
      <4>1. j < k
        <5>1. Starts(data) \subseteq Nat
          BY StartsFacts, SequenceFacts DEF Closed, IsContent
        <5>2. QED BY <3>1, <5>1
      <4>2. QED BY <1>8, <4>1 DEF Back
    <3>3. cwd \o f.name # p
      <4>1. IsSequence(f.name)
        <5>1. j \in 1 .. Len(data)
          <6>1. Starts(data) \subseteq 1 .. Len(data) + 1 /\ Len(data) \in Nat
            BY StartsFacts, SequenceFacts DEF Closed, IsContent
          <6>2. QED BY <1>8, <6>1 DEF IsEntry
        <5>2. QED BY <5>1, EntryIs
      <4>2. QED BY <1>1, <2>2, <4>1, SameName
    <3> DEFINE q == cwd \o f.name
    <3>4. q \in DOMAIN u /\ u[q] = t[q]
      BY <1>3, <3>2, <3>3 DEF OnlyAt, SameAt, IsBack, IsFile, Exists
    <3>5. QED BY <3>2, <3>4 DEF IsBack, IsFile, Exists
  <2>3. QED BY <2>1, <2>2
<1>9. QED BY <1>8 DEF Back

\* What no file of is touched leaves the entries back.
LEMMA StayBack ==
  ASSUME NEW t, NEW u, NEW data, NEW cwd, NEW k, Back(t, data, cwd, k), \A p : IsFile(t, p) => p \in DOMAIN u /\ u[p] = t[p]
  PROVE  Back(u, data, cwd, k)
BY DEF Back, IsBack, IsFile, Exists

\* What is left of the archive begins with an entry, or with the data of one whose header was read.
AtEntry(rest, t, data, cwd, k) == Back(t, data, cwd, k) /\ rest = SubSeq(data, k, Len(data))
InEntry(hdr, rest, t, data, cwd, k) ==
  Back(t, data, cwd, k) /\ IsEntry(data, k) /\ hdr = data[k] /\ rest = SubSeq(data, k + 1, Len(data))
Packed == before[PathOf(1)].data
Unpacks == Line.flag = "x" /\ HasEnd(Packed)
Extracting(at) == At("tar", at) /\ Unpacks /\ faulted = {}
ExtractInv ==
  /\ Extracting("header") \/ Extracting("dirs") \/ Extracting("shut") => IsFile(before, PathOf(1))
  /\ Extracting("header") => \E k \in Starts(Packed) : AtEntry(cmd.v.rest, tree, Packed, Cwd, k)
  /\ Extracting("dirs") => \E k \in Starts(Packed) : InEntry(cmd.v.hdr, cmd.v.rest, tree, Packed, Cwd, k)
  /\ Extracting("shut") \/ (Extracting("done") /\ cmd.said = "read") => AllBack(tree, Packed, Cwd)

LEMMA SamePack ==
  ASSUME Within, cmd'.line = cmd.line
  PROVE  (Unpacks' <=> Unpacks) /\ Packed' = Packed /\ Cwd' = Cwd /\ before' = before /\ Line' = Line /\ PathOf(1)' = PathOf(1)
<1>1. sh_pwd' = sh_pwd /\ before' = before /\ Line' = Line
  BY DEF Within, Line
<1>2. PathOf(1)' = PathOf(1)
  BY <1>1, SamePaths
<1>3. Packed' = Packed /\ Cwd' = Cwd
  BY <1>1, <1>2 DEF Packed, Cwd
<1>4. Unpacks' <=> Unpacks
  BY <1>1, <1>3 DEF Unpacks
<1>5. QED BY <1>1, <1>2, <1>3, <1>4

\* A step of tar x that goes on.
LEMMA ExtractGoes ==
  ASSUME PInv, Within, cmd.op = "tar", NEW at \in {"create", "close", "bail", "header", "dirs", "shut"}, NEW v, Goes(at, v),
         Unpacks /\ faulted' = {} /\ at \in {"header", "dirs", "shut"} => IsFile(before, PathOf(1)),
         Unpacks /\ faulted' = {} /\ at = "header" => \E k \in Starts(Packed) : AtEntry(v.rest, tree', Packed, Cwd, k),
         Unpacks /\ faulted' = {} /\ at = "dirs" => \E k \in Starts(Packed) : InEntry(v.hdr, v.rest, tree', Packed, Cwd, k),
         Unpacks /\ faulted' = {} /\ at = "shut" => AllBack(tree', Packed, Cwd)
  PROVE  ExtractInv'
<1>1. CmdOK
  BY DEF PInv
<1>2. cmd'.line = cmd.line /\ cmd'.at = at /\ cmd'.v = v
  BY <1>1, GoesIs
<1>3. (Unpacks' <=> Unpacks) /\ Packed' = Packed /\ Cwd' = Cwd /\ before' = before /\ PathOf(1)' = PathOf(1)
  BY <1>2, SamePack
<1>4. Extracting("header")' \/ Extracting("dirs")' \/ Extracting("shut")' => IsFile(before', PathOf(1)')
  BY <1>2, <1>3 DEF Extracting, At
<1>5. Extracting("header")' => \E k \in Starts(Packed') : AtEntry(cmd'.v.rest, tree', Packed', Cwd', k)
  BY <1>2, <1>3 DEF Extracting, At
<1>6. Extracting("dirs")' => \E k \in Starts(Packed') : InEntry(cmd'.v.hdr, cmd'.v.rest, tree', Packed', Cwd', k)
  BY <1>2, <1>3 DEF Extracting, At
<1>7. Extracting("shut")' \/ (Extracting("done")' /\ cmd'.said = "read") => AllBack(tree', Packed', Cwd')
  BY <1>2, <1>3 DEF Extracting, At
<1>8. QED BY <1>4, <1>5, <1>6, <1>7 DEF ExtractInv

LEMMA ExtractOver ==
  ASSUME PInv, Within, cmd.op = "tar", NEW said, said # "read", Answers(said)
  PROVE  ExtractInv'
<1>1. CmdOK
  BY DEF PInv
<1>2. cmd'.at = "done" /\ cmd'.said = said
  BY <1>1, AnswersIs
<1>3. QED BY <1>2 DEF ExtractInv, Extracting, At

\* What every step has before it.
LEMMA ExtractHas ==
  ASSUME PInv, At("tar", "header") \/ At("tar", "dirs")
  PROVE  /\ cmd.op = "tar" /\ Line.flag # "c" /\ ReadOK(cmd.v) /\ DOMAIN cmd.v = {"file", "rest", "hdr", "made"}
         /\ IsSequence(Cwd) /\ WellFormed(tree) /\ (IsFile(before, PathOf(1)) => IsContent(Packed))
<1>1. cmd.op = "tar" /\ Line.flag # "c" /\ ReadOK(cmd.v)
  BY DEF PInv, TarOK, Creating, Reading, At
<1>2. IsSequence(Cwd) /\ WellFormed(tree) /\ WellFormed(before)
  BY DEF PInv, PwdOK, Cwd, TypeOK
<1>3. IsFile(before, PathOf(1)) => IsContent(Packed)
  BY <1>2 DEF WellFormed, IsNode, IsFile, Exists, Packed
<1>4. QED BY <1>1, <1>2, <1>3 DEF ReadOK

LEMMA ExtractStart ==
  ASSUME PInv, ArchiveInv, TarStart
  PROVE  ExtractInv'
<1>1. cmd.op = "tar" /\ At("tar", "start") /\ Within /\ tree = before
  BY DEF TarStart, At, ArchiveInv
<1>2. \/ Answers("can't open")
      \/ \E w : Goes("create", w)
      \/ /\ IsFile(tree, PathOf(1)) /\ tree' = tree
         /\ \E fresh \in {Zero, Garbage} :
              Goes("header", [file |-> FullPath(Line.args[1]), rest |-> tree[PathOf(1)].data, hdr |-> fresh, made |-> 0])
  BY DEF TarStart, PathOf
<1>3. CASE Answers("can't open")
  <2>1. "can't open" # "read"
    OBVIOUS
  <2>2. QED BY <1>1, <1>3, <2>1, ExtractOver
<1>4. CASE \E w : Goes("create", w)
  BY <1>1, <1>4, ExtractGoes
<1>5. ASSUME IsFile(tree, PathOf(1)), tree' = tree, NEW fresh,
             Goes("header", [file |-> FullPath(Line.args[1]), rest |-> tree[PathOf(1)].data, hdr |-> fresh, made |-> 0])
      PROVE  ExtractInv'
  <2> DEFINE v == [file |-> FullPath(Line.args[1]), rest |-> tree[PathOf(1)].data, hdr |-> fresh, made |-> 0]
  <2>1. Goes("header", v) /\ v.rest = Packed /\ IsFile(before, PathOf(1))
    BY <1>1, <1>5 DEF Packed
  <2> HIDE DEF v
  <2>2. IsContent(Packed)
    <3>1. WellFormed(before)
      BY DEF PInv, TypeOK
    <3>2. QED BY <2>1, <3>1 DEF WellFormed, IsNode, IsFile, Exists, Packed
  <2>3. 1 \in Starts(Packed) /\ Starts(Packed) \subseteq 1 .. Len(Packed) + 1 /\ Len(Packed) \in Nat
    BY <2>2, StartsFacts, SequenceFacts DEF Closed, IsContent
  <2>4. Back(tree, Packed, Cwd, 1)
    <3>1. \A j \in Starts(Packed) : ~(j < 1)
      BY <2>3
    <3>2. QED BY <3>1 DEF Back
  <2>5. Packed = SubSeq(Packed, 1, Len(Packed))
    BY <2>2, WholePrefix DEF IsContent
  <2>6. \E k \in Starts(Packed) : AtEntry(v.rest, tree', Packed, Cwd, k)
    BY <1>5, <2>1, <2>3, <2>4, <2>5 DEF AtEntry
  <2>7. QED BY <1>1, <2>1, <2>6, ExtractGoes
<1>6. QED BY <1>2, <1>3, <1>4, <1>5

\* A header is read, or the end.
LEMMA ExtractHeader ==
  ASSUME PInv, ExtractInv, TarHeader
  PROVE  ExtractInv'
<1> DEFINE h == AsHeader(NextBlock)
           v == [cmd.v EXCEPT !.hdr = NextBlock, !.rest = Past(1)]
           w == [v EXCEPT !.made = 1]
           u == [v EXCEPT !.rest = Seek(1 + h.size)]
<1>1. At("tar", "header") /\ Within /\ tree' = tree
  BY DEF TarHeader
<1>2. /\ cmd.op = "tar" /\ Line.flag # "c" /\ ReadOK(cmd.v) /\ DOMAIN cmd.v = {"file", "rest", "hdr", "made"}
      /\ IsSequence(Cwd) /\ WellFormed(tree) /\ (IsFile(before, PathOf(1)) => IsContent(Packed))
  BY <1>1, ExtractHas
<1>3. v.rest = Past(1) /\ v.hdr = NextBlock /\ DOMAIN v = DOMAIN cmd.v
  BY <1>2
<1>4. w.rest = v.rest /\ w.hdr = v.hdr
  BY <1>2, <1>3
<1>5. PICK r \in Outcomes :
        /\ Suffers(r, "read")
        /\ \/ r = "bad" /\ Answers("error reading")
           \/ NextBlock = Zero /\ Goes("shut", cmd.v)
           \/ NextBlock # Zero /\ h.slash /\ Goes("header", v)
           \/ NextBlock # Zero /\ ~h.slash /\ Line.flag = "t" /\ Goes("header", u)
           \/ NextBlock # Zero /\ ~h.slash /\ Line.flag # "t" /\ Goes("dirs", w)
  BY DEF TarHeader
<1> HIDE DEF v, w, u, h
<1>6. CASE Answers("error reading")
  <2>1. "error reading" # "read"
    OBVIOUS
  <2>2. QED BY <1>1, <1>2, <1>6, <2>1, ExtractOver
<1>7. CASE ~(Unpacks /\ faulted' = {}) /\ ~Answers("error reading")
  BY <1>1, <1>2, <1>5, <1>7, ExtractGoes
<1>8. CASE Unpacks /\ faulted' = {} /\ ~Answers("error reading")
  <2>1. faulted = {} /\ Line.flag = "x" /\ HasEnd(Packed)
    BY <1>5, <1>8 DEF Suffers, Unpacks
  <2>2. IsFile(before, PathOf(1)) /\ IsContent(Packed) /\ IsSequence(Packed)
    BY <1>1, <1>2, <1>8, <2>1 DEF ExtractInv, Extracting, IsContent
  <2>3. PICK k \in Starts(Packed) : AtEntry(cmd.v.rest, tree, Packed, Cwd, k)
    BY <1>1, <1>8, <2>1 DEF ExtractInv, Extracting
  <2> DEFINE n == k + 1 + Follows(Packed[k])
  <2>4. /\ k \in 1 .. Len(Packed) /\ Len(Packed) \in Nat
        /\ Packed[k] = Zero => \A j \in Starts(Packed) : j <= k
        /\ Packed[k] # Zero => /\ Follows(Packed[k]) \in Nat /\ n \in Starts(Packed) /\ n <= Len(Packed)
                               /\ \A j \in Starts(Packed) : j < n => j <= k
    BY <2>1, <2>2, ToTheEnd, SequenceFacts
  <2>5. Rest = SubSeq(Packed, k, Len(Packed)) /\ Back(tree, Packed, Cwd, k)
    BY <2>3 DEF AtEntry, Rest
  <2>6. NextBlock = Packed[k]
    <3>1. Rest # << >>
      BY <2>2, <2>4, <2>5, FromPlace
    <3>2. Head(Rest) = Packed[k]
      BY <2>2, <2>4, <2>5, FromPlace
    <3>3. QED BY <3>1, <3>2 DEF NextBlock
  <2>7. Starts(Packed) \subseteq Nat
    BY <2>2, <2>4, StartsFacts DEF Closed
  <2> HIDE DEF n
  <2>8. CASE NextBlock = Zero /\ Goes("shut", cmd.v)
    <3>1. ASSUME NEW j \in Starts(Packed), IsEntry(Packed, j)
          PROVE  j < k
      <4>1. j <= k /\ j # k
        BY <2>4, <2>6, <2>8, <3>1 DEF IsEntry
      <4>2. QED BY <2>4, <2>7, <4>1
    <3>2. AllBack(tree', Packed, Cwd)
      BY <1>1, <2>5, <3>1 DEF AllBack, Back
    <3>3. QED BY <1>1, <1>2, <2>2, <2>8, <3>2, ExtractGoes
  <2>9. CASE NextBlock # Zero
    <3>1. 1 \in 0 .. Len(Packed) - k
      BY <2>4, <2>6, <2>9 DEF n
    <3>2. v.rest = SubSeq(Packed, k + 1, Len(Packed)) /\ v.hdr = Packed[k]
      BY <1>3, <2>2, <2>4, <2>5, <2>6, <3>1, PastPlace
    <3>3. CASE h.slash /\ Goes("header", v)
      <4>1. n = k + 1 /\ n \in Starts(Packed)
        BY <2>4, <2>6, <2>9, <3>3 DEF n, Follows, h
      <4>2. ASSUME NEW j \in Starts(Packed), j < n, IsEntry(Packed, j)
            PROVE  j < k
        <5>1. j <= k /\ j # k
          BY <2>4, <2>6, <2>9, <3>3, <4>2 DEF IsEntry, h
        <5>2. QED BY <2>4, <2>7, <5>1
      <4>3. Back(tree', Packed, Cwd, n)
        BY <1>1, <2>5, <4>2 DEF Back
      <4>4. \E i \in Starts(Packed) : AtEntry(v.rest, tree', Packed, Cwd, i)
        BY <3>2, <4>1, <4>3 DEF AtEntry
      <4>5. QED BY <1>1, <1>2, <2>2, <3>3, <4>4, ExtractGoes
    <3>4. CASE ~h.slash /\ Goes("dirs", w)
      <4>1. IsEntry(Packed, k)
        BY <2>4, <2>6, <2>9, <3>4 DEF IsEntry, h
      <4>2. InEntry(w.hdr, w.rest, tree', Packed, Cwd, k)
        BY <1>1, <1>4, <2>5, <3>2, <4>1 DEF InEntry
      <4>3. \E i \in Starts(Packed) : InEntry(w.hdr, w.rest, tree', Packed, Cwd, i)
        BY <4>2
      <4>4. QED BY <1>1, <1>2, <2>2, <3>4, <4>3, ExtractGoes
    <3>5. QED BY <1>5, <1>8, <2>1, <2>9, <3>3, <3>4
  <2>10. QED BY <1>5, <1>8, <2>8, <2>9
<1>9. QED BY <1>6, <1>7, <1>8

\* A directory is made where nothing is.
LEMMA ExtractMkdirs ==
  ASSUME PInv, ExtractInv, TarMkdirs
  PROVE  ExtractInv'
<1> DEFINE p == Cwd \o SubSeq(Entry.name, 1, cmd.v.made)
           w == [cmd.v EXCEPT !.made = @ + 1]
<1>1. At("tar", "dirs") /\ Within
  BY DEF TarMkdirs
<1>2. cmd.op = "tar" /\ DOMAIN cmd.v = {"file", "rest", "hdr", "made"}
  BY <1>1, ExtractHas
<1>3. w.rest = cmd.v.rest /\ w.hdr = cmd.v.hdr
  BY <1>2
<1>4. PICK r \in Outcomes :
        /\ Suffers(r, "mkdir")
        /\ tree' = tree \/ (CanMkdir(tree, p) /\ tree' = Mkdir(tree, p))
        /\ Goes("dirs", w) \/ Goes("bail", cmd.v)
  BY DEF TarMkdirs
<1> HIDE DEF w
<1>5. CASE Goes("bail", cmd.v)
  BY <1>1, <1>2, <1>5, ExtractGoes
<1>6. CASE Goes("dirs", w)
  <2>1. \A q : IsFile(tree, q) => q \in DOMAIN tree' /\ tree'[q] = tree[q]
    BY <1>4 DEF CanMkdir, Mkdir, With, IsFile, Exists
  <2>2. ASSUME Unpacks, faulted' = {}
        PROVE  IsFile(before, PathOf(1)) /\ \E k \in Starts(Packed) : InEntry(w.hdr, w.rest, tree', Packed, Cwd, k)
    <3>1. faulted = {}
      BY <1>4, <2>2 DEF Suffers
    <3>2. IsFile(before, PathOf(1)) /\ \E k \in Starts(Packed) : InEntry(cmd.v.hdr, cmd.v.rest, tree, Packed, Cwd, k)
      BY <1>1, <2>2, <3>1 DEF ExtractInv, Extracting
    <3>3. PICK k \in Starts(Packed) : InEntry(cmd.v.hdr, cmd.v.rest, tree, Packed, Cwd, k)
      BY <3>2
    <3>4. Back(tree, Packed, Cwd, k)
      BY <3>3 DEF InEntry
    <3>5. Back(tree', Packed, Cwd, k)
      BY <2>1, <3>4, StayBack
    <3>6. InEntry(w.hdr, w.rest, tree', Packed, Cwd, k)
      BY <1>3, <3>3, <3>5 DEF InEntry
    <3>7. QED BY <3>2, <3>6
  <2>3. QED BY <1>1, <1>2, <1>6, <2>2, ExtractGoes
<1>7. QED BY <1>4, <1>5, <1>6

\* A file is put back.
LEMMA ExtractFile ==
  ASSUME PInv, ExtractInv, TarExtract
  PROVE  ExtractInv'
<1> DEFINE size == Entry.size
           blocks == Reads(Rest, size, cmd.v.hdr)
           whole == Stored(Created(tree, Place), Place, blocks)
           v == [cmd.v EXCEPT !.rest = Past(size), !.hdr = IF size = 0 THEN cmd.v.hdr ELSE blocks[size]]
<1>1. At("tar", "dirs") /\ Within
  BY DEF TarExtract
<1>2. /\ cmd.op = "tar" /\ Line.flag # "c" /\ ReadOK(cmd.v) /\ DOMAIN cmd.v = {"file", "rest", "hdr", "made"}
      /\ IsSequence(Cwd) /\ WellFormed(tree) /\ (IsFile(before, PathOf(1)) => IsContent(Packed))
  BY <1>1, ExtractHas
<1>3. v.rest = Past(size)
  BY <1>2
<1>4. PICK r \in Outcomes, call \in {"create", "read", "write", "close", "setattr"} :
        /\ Suffers(r, call)
        /\ Goes("bail", cmd.v) \/ Goes("header", v)
        /\ r # "bad" /\ ~Goes("bail", cmd.v) =>
             CanCreate(tree, Place) /\ tree' = IF Entry.exe THEN Marked(whole, Place) ELSE whole
  BY DEF TarExtract
<1> HIDE DEF v
<1>5. CASE Goes("bail", cmd.v)
  BY <1>1, <1>2, <1>5, ExtractGoes
<1>6. CASE Goes("header", v) /\ ~Goes("bail", cmd.v)
  <2>1. ASSUME Unpacks, faulted' = {}
        PROVE  IsFile(before, PathOf(1)) /\ \E k \in Starts(Packed) : AtEntry(v.rest, tree', Packed, Cwd, k)
    <3>1. faulted = {} /\ r # "bad" /\ HasEnd(Packed)
      BY <1>4, <2>1 DEF Suffers, Unpacks
    <3>2. IsFile(before, PathOf(1)) /\ \E k \in Starts(Packed) : InEntry(cmd.v.hdr, cmd.v.rest, tree, Packed, Cwd, k)
      BY <1>1, <2>1, <3>1 DEF ExtractInv, Extracting
    <3>3. PICK k \in Starts(Packed) : InEntry(cmd.v.hdr, cmd.v.rest, tree, Packed, Cwd, k)
      BY <3>2
    <3>4. Back(tree, Packed, Cwd, k) /\ IsEntry(Packed, k) /\ cmd.v.hdr = Packed[k] /\ Rest = SubSeq(Packed, k + 1, Len(Packed))
      BY <3>3 DEF InEntry, Rest
    <3>5. IsContent(Packed) /\ IsSequence(Packed) /\ Len(Packed) \in Nat
      BY <1>2, <3>2, SequenceFacts DEF IsContent
    <3>6. Packed[k] # Zero /\ ~AsHeader(Packed[k]).slash
      BY <3>4 DEF IsEntry
    <3>7. k \in 1 .. Len(Packed) /\ Entry = AsHeader(Packed[k]) /\ size = Follows(Packed[k])
      BY <3>1, <3>4, <3>5, <3>6, ToTheEnd DEF Entry, Follows
    <3> DEFINE n == k + 1 + size
               e == EntryAt(Packed, k)
    <3>8. /\ size \in Nat /\ n \in Starts(Packed) /\ n <= Len(Packed)
          /\ \A j \in Starts(Packed) : j < n => j <= k
      BY <3>1, <3>5, <3>6, <3>7, ToTheEnd
    <3>9. e.name = Entry.name /\ e.exe = Entry.exe /\ e.data = SubSeq(Packed, k + 1, k + size)
      BY ZenonT(60), <3>5, <3>7, EntryIs
    <3> HIDE DEF size, e
    <3>10. k + 1 \in 1 .. Len(Packed) /\ size \in 0 .. Len(Packed) - (k + 1) + 1 /\ size \in 0 .. Len(Packed) - (k + 1)
           /\ k + 1 + size - 1 = k + size
      BY SMTT(40), <3>5, <3>7, <3>8
    <3>11. blocks = SubSeq(Packed, k + 1, k + 1 + size - 1)
      BY ZenonT(60), <3>4, <3>5, <3>10, ReadsPlace
    <3>12. Past(size) = SubSeq(Packed, n, Len(Packed))
      BY <3>4, <3>5, <3>10, PastPlace
    <3>13. blocks = e.data /\ Place = Cwd \o e.name
      BY <3>9, <3>10, <3>11 DEF Place
    <3>14. IsContent(e.data)
      <4>1. IsContent(Rest) /\ IsBlock(cmd.v.hdr)
        BY <1>2 DEF ReadOK, Rest
      <4>2. QED BY <3>8, <3>13, <4>1, ReadsContent
    <3> HIDE DEF n, blocks
    <3>15. CanCreate(tree, Place) /\ tree' = IF Entry.exe THEN Marked(whole, Place) ELSE whole
      BY <1>4, <1>6, <3>1
    <3>16. Back(tree', Packed, Cwd, n)
      <4> DEFINE p == Place
                 exe == Entry.exe
      <4>1. p = Cwd \o e.name /\ CanCreate(tree, p) /\ e = EntryAt(Packed, k) /\ exe = e.exe
            /\ tree' = IF exe THEN Marked(Stored(Created(tree, p), p, e.data), p) ELSE Stored(Created(tree, p), p, e.data)
        BY <3>9, <3>13, <3>15 DEF e
      <4> HIDE DEF p, exe
      <4>2. QED BY <1>2, <3>4, <3>5, <3>7, <3>8, <3>14, <4>1, OneMoreBack
    <3>17. AtEntry(v.rest, tree', Packed, Cwd, n)
      BY <1>3, <3>12, <3>16 DEF AtEntry
    <3>18. QED BY <3>2, <3>8, <3>17
  <2>2. QED BY <1>1, <1>2, <1>6, <2>1, ExtractGoes
<1>7. QED BY <1>4, <1>5, <1>6

LEMMA ExtractShut ==
  ASSUME PInv, ExtractInv, TarShut
  PROVE  ExtractInv'
<1>1. cmd.op = "tar" /\ Within /\ UNCHANGED <<tree, faulted>> /\ cmd.at \in {"shut", "bail"} /\ CmdOK
  BY DEF TarShut, Quietly, PInv
<1>2. CASE cmd.at = "bail"
  <2>1. Answers("failed")
    BY <1>2 DEF TarShut
  <2>2. "failed" # "read"
    OBVIOUS
  <2>3. QED BY <1>1, <2>1, <2>2, ExtractOver
<1>3. CASE cmd.at = "shut"
  <2>1. Answers("read")
    BY <1>3 DEF TarShut
  <2>2. cmd'.line = cmd.line /\ cmd'.at = "done" /\ cmd'.op = cmd.op
    BY <1>1, <2>1, AnswersIs
  <2>3. (Unpacks' <=> Unpacks) /\ Packed' = Packed /\ Cwd' = Cwd /\ before' = before /\ PathOf(1)' = PathOf(1)
    BY <1>1, <2>2, SamePack
  <2>4. ~Extracting("header")' /\ ~Extracting("dirs")' /\ ~Extracting("shut")'
    BY <2>2 DEF Extracting, At
  <2>5. Extracting("done")' => AllBack(tree', Packed', Cwd')
    BY <1>1, <1>3, <2>3 DEF ExtractInv, Extracting, At
  <2>6. QED BY <2>4, <2>5 DEF ExtractInv
<1>4. QED BY <1>1, <1>2, <1>3

LEMMA ExtractStep ==
  ASSUME PInv, ArchiveInv, ExtractInv, [Next]_vars
  PROVE  ExtractInv'
<1> SUFFICES ASSUME cmd'.op = "tar" PROVE ExtractInv'
  BY DEF ExtractInv, Extracting, At
<1>1. CASE UNCHANGED vars
  <2>1. Within /\ cmd' = cmd /\ tree' = tree /\ faulted' = faulted
    BY <1>1 DEF vars, Within
  <2>2. (Unpacks' <=> Unpacks) /\ Packed' = Packed /\ Cwd' = Cwd /\ before' = before /\ PathOf(1)' = PathOf(1)
    BY <2>1, SamePack
  <2>3. \A at : Extracting(at)' <=> Extracting(at)
    BY <2>1, <2>2 DEF Extracting, At
  <2>4. Extracting("header")' \/ Extracting("dirs")' \/ Extracting("shut")' => IsFile(before', PathOf(1)')
    BY <2>2, <2>3 DEF ExtractInv
  <2>5. Extracting("header")' => \E k \in Starts(Packed') : AtEntry(cmd'.v.rest, tree', Packed', Cwd', k)
    BY <2>1, <2>2, <2>3 DEF ExtractInv
  <2>6. Extracting("dirs")' => \E k \in Starts(Packed') : InEntry(cmd'.v.hdr, cmd'.v.rest, tree', Packed', Cwd', k)
    BY <2>1, <2>2, <2>3 DEF ExtractInv
  <2>7. Extracting("shut")' \/ (Extracting("done")' /\ cmd'.said = "read") => AllBack(tree', Packed', Cwd')
    BY <2>1, <2>2, <2>3 DEF ExtractInv
  <2>8. QED BY <2>4, <2>5, <2>6, <2>7 DEF ExtractInv
<1>2. CASE Begins
  BY <1>2 DEF Begins, ExtractInv, Extracting, At
<1>3. CASE TarArgument \/ TarEntry \/ TarDirEnd \/ TarEnd \/ TarCreated
  <2>1. Line.flag = "c"
    BY <1>3 DEF TarArgument, TarEntry, TarDirEnd, TarEnd, TarGoes, TarCreated, PInv, TarOK
  <2>2. TarStep
    BY <1>3 DEF TarStep
  <2>3. Line' = Line
    BY <2>2, SameOp
  <2>4. QED BY <2>1, <2>3 DEF ExtractInv, Extracting, Unpacks
<1>4. CASE TarStart \/ TarHeader \/ TarMkdirs \/ TarExtract \/ TarShut
  BY <1>4, ExtractStart, ExtractHeader, ExtractMkdirs, ExtractFile, ExtractShut
<1>5. CASE FileStep \/ CcStep \/ UserStep
  <2>1. cmd.op = "tar"
    BY <1>5, SameOp
  <2>2. QED BY <1>5, <2>1, OtherOps, FileOps DEF FileStep
<1>6. QED BY <1>1, <1>2, <1>3, <1>4, <1>5, StepsOf, TypeBegins DEF TarStep

\* Extracting without a failure to the end of an archive puts back every entry of it whose name is its own.
THEOREM ExtractCorrect ==
  Spec => []ExtractRestores
<1>1. Init => ArchiveInv /\ ExtractInv
  BY StartsUp DEF ArchiveInv, Archiving, ExtractInv, Extracting, At
<1>2. PInv /\ PInv' /\ ArchiveInv /\ ExtractInv /\ [Next]_vars => ArchiveInv' /\ ExtractInv'
  BY ArchiveStep, ExtractStep
<1>3. PInv /\ ExtractInv => ExtractRestores
  <2> SUFFICES ASSUME PInv, ExtractInv, At("tar", "done"), Line.flag = "x", cmd.said = "read", faulted = {},
                      TextLeadsUp(Line.args[1]), HasEnd(before[Archive].data),
                      NEW e \in Entries(before[Archive].data),
                      \A f \in Entries(before[Archive].data) : f.name = e.name => f = e
               PROVE  LET p == sh_pwd.names \o e.name
                      IN IsFile(tree, p) /\ tree[p].data = e.data /\ (e.exe => tree[p].exe)
    BY DEF ExtractRestores
  <2>1. PathOf(1) = Archive
    <3>1. cmd.op \in Commands /\ cmd.op = "tar" /\ cmd.op # "cd"
      BY DEF Commands, At
    <3>2. 1 \in DOMAIN Line.args
      BY <3>1, Arguments, SequenceFacts DEF PInv
    <3>3. QED BY <3>1, <3>2, NamedIs DEF Archive
  <2>2. Packed = before[Archive].data
    BY <2>1 DEF Packed
  <2>3. AllBack(tree, Packed, Cwd)
    BY <2>2 DEF ExtractInv, Extracting, Unpacks
  <2>4. PICK k \in Starts(Packed) : IsEntry(Packed, k) /\ e = EntryAt(Packed, k)
    BY <2>2 DEF Entries
  <2>5. Only(Packed, k)
    BY <2>2, <2>4 DEF Only, Entries
  <2>6. IsBack(tree, e, Cwd)
    BY <2>3, <2>4, <2>5 DEF AllBack
  <2>7. QED BY <2>6 DEF IsBack, Cwd
<1>4. QED BY <1>1, <1>2, <1>3, Invariance, PTL DEF Spec

=============================================================================
