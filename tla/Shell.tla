------------------------------- MODULE Shell -------------------------------
(***************************************************************************)
(* The shell: starting up, the prompt, mounting, and the resolution of     *)
(* names.  A command runs in steps, each a call or a few calls of the file *)
(* system, any of which may fail; the device may be reset between any two. *)
(***************************************************************************)
EXTENDS Storage, TLC

CONSTANTS
  Scenes,    \* name -> the device at power-on, the command lines, how many are typed: [sound, tree, lines, commands]
  MaxFaults  \* calls of the file system that fail at most

ASSUME BoundsAssumption == MaxFaults \in Nat /\ \A s \in DOMAIN Scenes : Scenes[s].commands \in Nat

Commands == {"cd", "mount", "unmount", "format", "quit", "reboot", "mv", "cp", "mkdir", "rm", "tar", "cc", "run"}
\* How many names a command needs; with less it says so and is done.
Needed(op) == CASE op \in {"mv", "cp"} -> 2
                [] op \in {"mkdir", "rm", "tar", "cc", "run"} -> 1
                [] OTHER -> 0
\* An argument is not both absolute and relative to the parent; "../" is followed by a name.
IsArgument(a, op) ==
  /\ a.abs \in BOOLEAN /\ a.up \in BOOLEAN /\ IsSequence(a.names)
  /\ a.up => ~a.abs /\ (op = "cd" \/ a.names # <<>>)
IsLine(l) == /\ l.op \in Commands
             /\ l.op = "tar" => l.flag \in {"c", "t", "x"}
             /\ IsSequence(l.args) /\ Len(l.args) >= Needed(l.op)
             /\ \A k \in 1 .. Len(l.args) : IsArgument(l.args[k], l.op)

ASSUME ScenesAssumption == \A s \in DOMAIN Scenes :
  Scenes[s].sound \in BOOLEAN /\ WellFormed(Scenes[s].tree) /\ \A line \in Scenes[s].lines : IsLine(line)

VARIABLES
  scene,
  sound,    \* the device holds a file system that can be mounted
  tree,     \* its content
  mounted,
  sh_pwd,   \* [slash, names]: the text of the working directory, with or without the leading '/'
  cmd,      \* [op, at, line, said, v]: the command, where it is, what was typed, its answer, its local variables
  open,     \* handles open in the file system: <<variable, path>>
  slips,    \* undefined behaviour met: <<what, command>>
  faults,   \* failures left
  faulted,  \* calls that failed in the present command
  before,   \* the tree when the command was entered
  left      \* commands left

vars == <<scene, sound, tree, mounted, sh_pwd, cmd, open, slips, faults, faulted, before, left>>

NoLine == [op |-> "none", flag |-> "", args |-> <<>>]
Does(op, at) == [op |-> op, at |-> at, line |-> NoLine, said |-> "", v |-> <<>>]
AtPrompt == Does("none", "prompt")
AtRoot == [slash |-> TRUE, names |-> <<>>]

Init ==
  /\ scene \in DOMAIN Scenes
  /\ sound = Scenes[scene].sound
  /\ tree = Scenes[scene].tree
  /\ mounted = FALSE /\ sh_pwd = AtRoot
  /\ cmd = Does("boot", "load")
  /\ open = {} /\ slips = {} /\ faults = MaxFaults /\ faulted = {}
  /\ before = tree /\ left = Scenes[scene].commands

-----------------------------------------------------------------------------
(* Steps of a command. *)

At(op, at) == cmd.op = op /\ cmd.at = at
Line == cmd.line
Outcomes == IF faults > 0 THEN {"ok", "bad"} ELSE {"ok"}
\* The step calls the file system, and the call named may be the one that fails.
Suffers(r, call) ==
  /\ faults' = IF r = "bad" THEN faults - 1 ELSE faults
  /\ faulted' = IF r = "bad" THEN faulted \cup {call} ELSE faulted
Goes(at, v) == cmd' = [cmd EXCEPT !.at = at, !.v = v]
Answers(said) == cmd' = [cmd EXCEPT !.at = "done", !.said = said]
Slip(what) == slips' = slips \cup {<<what, cmd.op>>}
Within == UNCHANGED <<scene, sound, mounted, sh_pwd, before, left>>
Quietly == UNCHANGED <<faults, faulted>>

-----------------------------------------------------------------------------
(* Names.  An argument is absolute, begins with "../" (up), or is neither; *)
(* ".." alone is up without names.                                         *)

\* Variant: cut at the first '/'.
UpToRoot == [sh_pwd EXCEPT !.names = <<>>]
\* What is left of the working directory's text when its last part is cut off.
Up == CASE sh_pwd.names = <<>> -> [slash |-> FALSE, names |-> <<>>]
        [] ~sh_pwd.slash /\ Len(sh_pwd.names) = 1 -> sh_pwd
        [] OTHER -> [sh_pwd EXCEPT !.names = Front(@)]

\* Without a '/' to cut at, the name is put directly after the text.
FullPath(arg) ==
  CASE arg.abs -> [slash |-> TRUE, names |-> arg.names]
    [] ~arg.abs /\ ~arg.up -> [sh_pwd EXCEPT !.names = @ \o arg.names]
    [] ~arg.abs /\ arg.up /\ ~sh_pwd.slash /\ Len(sh_pwd.names) = 1 ->
         [slash |-> FALSE, names |-> <<sh_pwd.names[1] \o Head(arg.names)>> \o Tail(arg.names)]
    [] OTHER -> [Up EXCEPT !.names = @ \o arg.names]
PathOf(k) == FullPath(Line.args[k]).names

-----------------------------------------------------------------------------
(* The prompt. *)

\* Variant: rm does not look.
NeedsMountButRm == {"cd", "mkdir", "tar", "cc", "unmount"}
NeedsMount == {"cd", "mkdir", "rm", "tar", "cc", "unmount"}
NeedsUnmounted == {"mount", "format"}
bad_mount(op) == \/ op \in NeedsMount /\ ~mounted
                 \/ op \in NeedsUnmounted /\ mounted

\* A line is typed.  Without a mounted file system some commands use what is left of the last one, or fail.
Enter(line) ==
  /\ cmd = AtPrompt /\ left > 0
  /\ left' = left - 1
  /\ before' = tree /\ faulted' = {}
  /\ LET started == [Does(line.op, "start") EXCEPT !.line = line]
         unmountedUse == ~mounted /\ line.op \notin NeedsUnmounted \cup {"quit", "reboot"}
     IN IF bad_mount(line.op)
        THEN cmd' = [started EXCEPT !.at = "done", !.said = "mount"] /\ UNCHANGED slips
        ELSE /\ slips' = IF unmountedUse THEN slips \cup {<<"unmounted", line.op>>} ELSE slips
             /\ \/ cmd' = started
                \/ unmountedUse /\ cmd' = [started EXCEPT !.at = "done", !.said = "error"]
  /\ UNCHANGED <<scene, sound, tree, mounted, sh_pwd, open, faults>>

\* The answer is printed, and the prompt again.
Return ==
  /\ cmd.at = "done"
  /\ cmd' = AtPrompt /\ before' = tree /\ faulted' = {}
  /\ UNCHANGED <<scene, sound, tree, mounted, sh_pwd, open, slips, faults, left>>

-----------------------------------------------------------------------------
(* cd, mount, unmount, format, quit and reboot. *)

CdTo(path) == /\ sh_pwd' = path
              /\ Answers("changed")
IsDotDot(arg) == arg.up /\ arg.names = <<>>
Cd ==
  /\ At("cd", "start")
  /\ \/ /\ Line.args = <<>>
        /\ CdTo(AtRoot) /\ Quietly
     \/ /\ Line.args # <<>> /\ IsDotDot(Line.args[1])
        /\ IF sh_pwd = AtRoot THEN Answers("not a directory") /\ UNCHANGED sh_pwd ELSE CdTo(Up)
        /\ Quietly
     \/ /\ Line.args # <<>> /\ ~IsDotDot(Line.args[1])
        /\ \E r \in Outcomes :
             /\ Suffers(r, "open")
             /\ IF r = "ok" /\ IsDir(tree, PathOf(1))
                THEN CdTo(FullPath(Line.args[1]))
                ELSE Answers("not a directory") /\ UNCHANGED sh_pwd
  /\ UNCHANGED <<scene, sound, tree, mounted, open, slips, before, left>>

Mount ==
  /\ At("mount", "start")
  /\ \E r \in Outcomes :
       /\ Suffers(r, "mount")
       /\ mounted' = (r = "ok" /\ sound)
       /\ Answers(IF mounted' THEN "mounted" ELSE "error")
  /\ UNCHANGED <<scene, sound, tree, sh_pwd, open, slips, before, left>>

Unmount ==
  /\ At("unmount", "start")
  /\ \E r \in Outcomes :
       /\ Suffers(r, "unmount")
       /\ mounted' = (r = "bad")
       /\ Answers(IF mounted' THEN "error" ELSE "unmounted")
  /\ UNCHANGED <<scene, sound, tree, sh_pwd, open, slips, before, left>>

\* A format that fails leaves nothing that could be mounted.
Formats(r) == IF r = "ok" THEN sound' = TRUE /\ tree' = EmptyTree ELSE sound' = FALSE /\ tree' = EmptyTree

Yes == {"y", "Y"}
Format ==
  /\ At("format", "start")
  /\ \/ /\ Line.flag \notin Yes   \* Enter means no
        /\ Answers("user cancelled") /\ Quietly /\ UNCHANGED <<sound, tree>>
     \/ /\ Line.flag \in Yes
        /\ \E r \in Outcomes :
             /\ Suffers(r, "format") /\ Formats(r)
             /\ Answers(IF r = "ok" THEN "formatted" ELSE "error")
  /\ UNCHANGED <<scene, mounted, sh_pwd, open, slips, before, left>>

HistoryFile == <<".history">>
History == [text |-> "history"]
\* The history is saved and the file system let go of; the machine stops, or restarts.
Stop ==
  /\ cmd.op \in {"quit", "reboot"} /\ cmd.at = "start"
  /\ IF Line.op = "quit" /\ Line.flag = "n"
     THEN Answers("no") /\ Quietly /\ UNCHANGED tree
     ELSE /\ cmd' = Does("off", "off")
          /\ IF ~mounted THEN Quietly /\ UNCHANGED tree
             ELSE \E r \in Outcomes :
                    /\ Suffers(r, "write")
                    /\ tree' = IF r = "ok" /\ CanCreate(tree, HistoryFile)
                               THEN Stored(Created(tree, HistoryFile), HistoryFile, <<History>>) ELSE tree
  /\ UNCHANGED <<scene, sound, mounted, sh_pwd, open, slips, before, left>>

-----------------------------------------------------------------------------
(* Starting up. *)

\* The reset button, the watchdog, or the power: nothing but the device remains.
Reset ==
  /\ cmd.op # "boot"
  /\ mounted' = FALSE /\ sh_pwd' = AtRoot /\ open' = {}
  /\ cmd' = Does("boot", "load") /\ before' = tree /\ faulted' = {}
  /\ UNCHANGED <<scene, sound, tree, slips, faults, left>>

BootMount ==
  /\ At("boot", "load")
  /\ \E r \in Outcomes, call \in {"load", "mount"} :
       /\ Suffers(r, call)
       /\ mounted' = (r = "ok" /\ sound)
       /\ cmd' = CASE r = "bad" /\ call = "load" -> Does("off", "off")
                   [] mounted' -> AtPrompt
                   [] OTHER -> Does("boot", "ask")
  /\ UNCHANGED <<scene, sound, tree, sh_pwd, open, slips, before, left>>

\* Variant: neither call is checked.
MountedAnyway(r) == TRUE
MountedAfter(r) == r = "ok"
\* The key that answers the offer to format.
BootAnswer ==
  /\ At("boot", "ask")
  /\ \E key \in {"y", "Y", "n", "N", "CR"} :
       \/ /\ key = "y"
          /\ \E r \in Outcomes, call \in {"format", "mount"} :
               /\ Suffers(r, call)
               /\ Formats(IF call = "format" THEN r ELSE "ok")
               /\ mounted' = MountedAfter(r)
       \/ /\ key # "y" /\ Quietly /\ UNCHANGED <<sound, tree, mounted>>
  /\ cmd' = AtPrompt /\ before' = tree'
  /\ UNCHANGED <<scene, sh_pwd, open, slips, left>>

ShellStep == Return \/ Cd \/ Mount \/ Unmount \/ Format \/ Stop
=============================================================================
