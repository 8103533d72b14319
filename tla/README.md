# A verification project for pshell

pshell is a shell with a file system, an editor, a C compiler and file transfers for the
Raspberry Pi Pico.  It is one C program on one core and nothing in it is preemptive, but it
exchanges bytes with another machine that runs on its own time, writes to flash and SD
cards that may fail, and executes programs it has compiled itself.  This directory holds TLA+
models of its parts, TLC configurations that check them on small instances, and proofs about
them for all values of their constants.

## Inventory

All paths are under `src/`.  "State" is what outlives one call or one loop iteration.

| Component | Source | State | Operations | Hard about it | Correct when |
|---|---|---|---|---|---|
| XMODEM | `xymodem/xmodem.c`, `pshell/modem_cmds.c:10-57` | per end: packet number, tries, check in use, timeout; bytes on the line; the file | `xmodemTransmit`, `xmodemReceive`, their callbacks, `xget`, `xput` | two programs, a lossy line, timeouts on both sides, answers without numbers, slow flash, failing file system | blocks reach the file in order, once; reported success means a complete file; no end hangs |
| YMODEM | `xymodem/ymodem.c`, `pshell/modem_cmds.c:59-112` | per end: packet number, errors, EOTs seen, bytes stored; the temporary file | `Ymodem_Transmit`, `Ymodem_Receive`, `yget`, `yput` | as above, and a session handshake in which a stray `C` is fatal | as above; a failed transfer leaves no file |
| Line editor and history | `misc/readln.c` | ring of characters, its first and next free cell, the edited line, the recalled line, the history file | `addhist`, `findhist`, `savehist`, `resthist`, key handlers | lines of any length split over the end of an array, restarts | the newest lines are kept, whole and in order |
| Shell | `pshell/main.c`, `pshell/shell_cmds.c`, `pshell/fs_cmds.c`, `pshell/cpu_cmds.c` | `mounted`, `sh_pwd`, `run`, the file system's state | boot, `disk_init`, mount, unmount, format, `cd`, `quit`, `reboot`, command dispatch, `full_path` | commands given without a mounted file system, a working directory kept as text and cut as text, resets | `cd` goes where it is told; a command changes what its line names; only a confirmed format erases |
| File commands | `pshell/file_cmds.c` | the directory tree | `cp`, `mv`, `rm`, `mkdir`, `ls`, `cat` | recursion over a tree while it is changed, partial failure | a copy said to be made is one; `rm` removes all or nothing; handles are closed |
| C compiler: memory, files and leaving it | `cc/cc.c`, `cc/cc_malloc.c`, `cc/cc_wraps.c` | list of allocations, open handles, relocation list, `longjmp` point | compile, run, `-o`, the loader, user `open`/`close`/`free` | exits from any depth by `longjmp`, objects freed twice or never | everything a run opened is closed, once; only a whole program is started |
| C compiler: code generation | `cc/cc_parse.c`, `cc/cc_ast.c`, `cc/cc_gen.c`, `cc/cc_peep.c` | symbol table, AST stack, code buffer, literal pool, pending branches | parse, fold, generate, peephole, patch, relocate | literal pool reach, branch patching, globals saved by hand, scopes | the generated code computes what the source says |
| vi | `vi/vi.c` | text buffer, dot, marks, undo queue, registers | editing commands, undo, search, save | undo of composite and queued edits, a count of changes that decides what is saved | undoing restores; no change is lost without a word |
| tar | `tar/tar.c` | the archive position, the tree | create, list, extract | truncated archives, the archive among its files, errors in the middle | what was archived comes back |
| SD card | `sdio/sd_spi.c`, `sdio/io.c` | card type, sector count | init, capacity, read and write of a block | a card that answers late, wrongly or not at all, is taken out, or loses what it took | a block reported written is there, and in its own place; calls end |
| Flash | `flashio/io.c` | the flash blocks | read, program, erase | thin layer over the SDK | - |
| littlefs | `littlefs/` (submodule, not present) | the file system | - | external, modelled as used | - |
| Disassembler, tests, examples | `disassembler/` (submodule), `tests/`, `c-examples/` | - | - | - | - |

### How they interact

`main.c` reads a line through the line editor, splits it and calls one command at a time; a
command returns a status and leaves a message.  All commands share the mounted file system
through `fs_*` wrappers, `full_path`, and `sh_argv`.  The transfer commands talk to a peer
machine over the same stdio the shell uses.  `cc` parses a file into code in RAM, then jumps into it; the
program calls back into the wrappers of `cc_wraps.c` and returns by `exit`, by `return`, or by
`longjmp` from `fatal`/`run_fatal`.  The line editor saves and restores its history through the
file system.  `vi` edits a file read whole into memory.

## Modules

| Module | Role |
|---|---|
| `FileTransfer` | the abstract specification of a transfer: blocks are delivered in order, the sender's claim is ahead by at most `Slack` blocks, success only at the end of the file |
| `XModem` | `xmodemTransmit` and `xmodemReceive` with the commands `xget` and `xput`, at the two ends of a line, with its faults and those of the file system |
| `YModem` | `Ymodem_Transmit` and `Ymodem_Receive` with `yget` and `yput`, in the same way |
| `Vi` | the editing commands of vi, its undo list and queue, the count of changes, saving and leaving |
| `History` | the ring of the last commands, its search, its file, restarts |
| `BlockDevice` | the abstract specification of a device of blocks, as a file system takes it |
| `SdCard` | the driver of the SD card under the file system's functions, and the card |
| `Storage` | the file system as the commands use it: a tree of paths, what each call requires and does |
| `Shell` | boot and the offer to format, the prompt, the mount checks, names and the working directory, `cd`, `mount`, `unmount`, `format`, `quit`, `reboot`, resets |
| `FileCmds` | `mv`, `cp`, `mkdir`, `rm` and `rm -r`, call by call |
| `Tar` | `tar c`, `t` and `x`, block by block |
| `CcSession` | a run of `cc()`: the source, `-o`, the loader, the user's program and its handles, and every way out |
| `Pshell` | the composition of `Shell`, `FileCmds`, `Tar` and `CcSession` on one `Storage`, and the properties of commands |
| `CcTarget` | words, the instructions the compiler emits, the processor that executes them, the functions outside (external) |
| `CcPeep` | `peep()` and its table |
| `CcGen` | `gen()`: code from trees, literal pool, branches, calls, relocations |
| `CcParse` | `expr()`: precedence climbing, types, constant folding |
| `CcStmt` | `stmt()`: declarations, scopes, statements, functions, and the loop of `cc()` |
| `CcLang` | programs as trees, their tokens, and what C says they do (a definition to compare with, not code of the compiler) |
| `Cc` | the compiler at work: compile, load, execute an instruction at a time |
| `MCYModem`, `MCVi`, `MCHistoryCard`, `MCPshell`, `MCCc` | instances for TLC; `MCYModem` also holds a host that sends anything, `MCPshell` the devices and command lines, `MCCc` the programs |
| `XModemProofs`, `YModemProofs`, `SdCardProofs`, `PshellProofs` | theorems about `XModem`, `YModem`, `SdCard` and `Pshell`; `PshellProofs` begins with lemmas about sequences and about the trees of `Storage` |
| `HistoryProofs` | theorems about `History` |
| `FoldProofs` | lemmas about induction, the least and the greatest number of a set, and folds of sequences |
| `CommandProofs` | theorems about what each command of `Pshell` promises, on top of `PshellProofs` |
| `ViProofs` | theorems about `Vi` |

`XModem` and `YModem` each implement `FileTransfer` through a refinement mapping on the
receiver's count of blocks, the sender's count, and how each end has ended; `SdCard` implements
`BlockDevice`, with the card's blocks as the disk and the call the driver is in as the request.  `ComputesC` of `Cc` is
the same idea for a compiler: what the generated code does is compared with `CcLang`'s meaning of
the program.

### How state and actions correspond to the code

**XModem, YModem.**  The two programs are sequential, so the state of each is the point at which
it waits for a byte (`pc`), the locals that are alive there, and the timeout it waits with
(`timer`).  One action is everything the code does from the arrival of a byte, or from the
timeout, to the next wait; long waits (the flush after a damaged frame, a slow write) are points
of their own.  Frames travel as one token because the code always sends a frame without looking
at its input; a frame that arrives damaged is a token of another kind: wrong check (`bad`), bytes
missing after the first (`short`), the first byte missing (`stray`), so that what follows is read
as the start of something else.  The two queues are bounded and drop what does not fit, as the
USB input buffer does.  Time passes only when neither end can go on (`Tick`): both run far
faster than their timeouts.  In `YModem` a packet without its first byte, or entered in the middle, is
read byte by byte: `left` counts the bytes that are left, `Reads` says what the next may be taken for (the
number and its complement are known, data may be anything), and each byte that means nothing is an error
that is answered with a `C`.

**Vi.**  `ed` is the buffer, `dot`, the undo list with its queue, the default register and
`modified_count`; an action is one keystroke or one command with its tail (`Settled` is the end
of `do_cmd`).  Offsets start at 1.  `dot` may be one behind the text, and the byte it then sees is
any byte.  The helpers keep the code's names where they are functions of it: `HoleDelete` is
`text_hole_delete`, `YankDelete` is `yank_delete`, `CharInsert` is `char_insert`.  A loop that repeats
an operation `cmdcnt` times is `Times`, the n-th member of the sequence of states it goes through.  The field
`slips` is a history variable: it records that something happened which the undo list or the
count does not tell: an ordinary character was typed (`typed`), the queue gathered what does not
belong together (`moved`), a newline was taken off an entry that did not empty the text, or left
on one that did (`trimmed`), a deletion outside the text was recorded (`beyond`), a save was
undone (`negative`), reading or saving the file failed (`spoilt`).  But for the last each of them is a defect
of the code; the properties say that there is no other.  A file that can be read is opened as it is, empty or
without a newline at its end; an empty text gets a newline from the first command's tail, and one that cannot
be read is whatever `HalfRead` says.

**History.**  `ring` is `history` with `hista` and `histb`.  Adding a line is a fold of
`addhistw`'s loop over its characters.  The file is kept as the characters it holds, which `savehist`
writes one by one (`Content`) and `resthist` reads one by one (`ReadChar`).  `FindHist` is the walk of `findhist`: from the
newest line to the oldest (`Once`, over the places where a line ends), comparing and counting, and a second time for the
number modulo the count.  The history is read when the first line is asked for, and again before a line while it is
empty (`Prompt`); when the file does not open at the start the ring is empty, and the next save overwrites the lines of all
sessions.  A save that fails in opening the file, or in closing it, leaves the file of before; a single character that is not written
is not modelled.  `kept` is a history variable: the lines of the last save.  A line is edited at any position, because
the cursor keys can go anywhere; `hp` and `hi` are the recalled line and the next to recall.

**Shell, FileCmds, Tar, CcSession.**  A command is sequential, so `cmd` says which it is and where
it is (`at`), with the locals that are alive (`v`) and the answer it gave (`said`).  A step is a
call of the file system, or several where nothing tells their order; any call may fail while
`faults` lasts, and a reset may come between any two.  A path is a sequence of names.  The working
directory is kept as the code keeps it, as text: `sh_pwd.slash` says that the text begins with a
'/', which `full_path("../x")` loses at the root, and `FullPath` cuts the text as the code does.
Properties resolve names without the text (`Resolve`).  `open` is the file system's own list of
open handles, which the code cannot forget by returning.  `slips` records undefined behaviour: a
call on an unmounted file system, a handle closed twice or never opened, the freed relocation
list, a freed handle, the search for a line in a source that is gone, a name read from address 1 (`no slash`: `strrchr`
found no '/'), and what `tar` leaves behind when it gives up: `in_f` or `in_d` on a stack that is no more (`dead handle`) and
`tar_f`, opened again while it is in the list (`reopened`).  `rm -r` and `tar c` keep a stack
of frames, one for each call of `clean_dir` or `tar_dir`, and `rm_cmd` that cannot read its directory goes round
for ever (`spin`).  A file is blocks: an archive is headers, data and zero blocks; an executable a
header, code, data and relocations.  A user's program opens, closes and frees handles; what it does to the files is
not modelled.

**SdCard.**  `drv` is the point the driver is at (`at`: the command whose answer it waits for, the token,
the data, the busy card), the try it makes, `sd_type`, the number of blocks, and the call with its
arguments; `card` is the card.  One action is a command with its answer, of which only what the driver
tells apart is kept; `Answered` lets an answer be lost or spoiled.  What a card took it writes when
it is no longer busy, or earlier when it is taken out or the processor is reset, if at all.  A card of version 2 or
higher must have heard CMD8 before it gets ready; one of high capacity counts blocks, the others bytes.
`cardSlips` records what the driver cannot or does not see: a card of high capacity taken for one of version 1
(`misjudged`), a capacity cut to 16 bits (`capacity`), data spoiled on the way (`unchecked`), data taken and not
kept (`unprogrammed`), a card taken out while busy (`removed`).

**CcGen, CcParse, CcStmt, CcPeep, Cc.**  The parser's and the generator's globals are one record that
every operator takes and returns (`Err` stands for the `longjmp` of `fatal`); trees are records, tokens
are what the lexer returns.  The code is a sequence of halfwords; `Executed` of `CcTarget` executes one
of them, and `Cc` is the state machine: `Compile`, `LoadFile`, `Execute`, `Stop`.  `CcLang` gives a
program its tokens and its meaning independently of the compiler, and names (`slips`) each departure
from C the compiler is known to make, so that a program that meets one promises nothing.  `Translate`
and `MeaningOf` are constants of `Cc`, to which the configuration gives `Translated` and `Meaning`: the
state machine does not depend on how the compiler is described.

## Runs

| Run | Shows |
|---|---|
| `xmodem_faults` | all safety properties of XMODEM, its invariant, that it implements `FileTransfer` with the slack `FwdCap + RevCap + 1`, and that neither command hangs, under every fault |
| `xmodem_delivers` | with the code's own patience, prompts that wait for a late sender and a slow write: frames are repeated, acknowledged once too often, and the file arrives; it does so too when two tokens of the link are lost, or bytes spoilt |
| `xmodem_complete` | **violated**: both ends report success and a block is missing |
| `ymodem_faults` | what the two ends report is true, and they implement `FileTransfer` with no slack; from a host that sends anything blocks are stored by their numbers |
| `ymodem_ends` | neither command hangs, also when the bytes of a headless packet are answered one by one; after the last loss a transfer completes |
| `ymodem_incomplete` | **violated**: of a block that lost its start two bytes are read as EOT, and the file is named without it |
| `vi_undo` | from files with and without a last newline, or empty: unless one of the slips occurred, undoing everything restores the text, and no counted change is lost by leaving |
| `vi_exact` | **violated**: a queued deletion as long as the text that is left loses a character |
| `history_and_card` | the ring holds the newest lines that fit, the search finds each of them for every beginning, and a power cut loses less than a ring of characters; the driver and any card implement `BlockDevice` until one of the five slips, and the driver's calls end |
| `pshell_commands` | commands one after another on nine devices, with a failing call and resets anywhere: what each changes, promises, leaves open, and that it ends |
| `cc_codegen` | 1700 programs compiled, loaded and executed: they compute what C says, none is refused without a known reason, the stack is even |
| `cc_hidden` | **violated**: a global that a function hid by a name of another type comes back with that type |

The four violated runs are defects of the code, described under `findings` in `PROJECT.json`.

### What the properties are about

- `StoredInOrder`, `IInv`, `ImplementsTransfer` (XMODEM): an acknowledgement carries no number, frames
  are repeated and numbers wrap, so the order of the file rests on how many frames and answers
  can be in flight.  `SuccessIsComplete` and `BothOkMeansDelivered` are two readings of "bytes
  transferred": the first holds, the second, which the messages of the program suggest, does not.
- `NamedIsCompleteHere`, `SentIsKept` (YMODEM) relate what each end
  tells its user to what is in the file and to what the other end did.
- `Delivers` (both) is progress: from a point where the two ends are in touch, with fewer faults
  left than tries, the file arrives and both know.  It fails without the stated conditions, and
  each of them was found necessary by a counterexample.  In XMODEM each prompt that waits for the sender makes it send
  a frame once more, which is acknowledged twice, and the sender runs ahead by one: harmless as long as nothing is lost
  and the receiver does not count `MaxRetrans` repetitions.  With a loss the two counts may part for good
  (`xmodem_complete`), so where tokens may still be lost at most one prompt waits, and no write is slow.
  In YMODEM an extra `C` in flight ends the session.
- `UndoIsExact`, `UndoRestores` (vi) take the whole undo list back, with the queue, and compare
  with the text as loaded; `QuitLosesNothingCounted` compares file and text when the
  editor has let the user go.
- `RecallFindsAll` (history) compares the walk of `findhist` with the list of the lines that begin with what was typed,
  for every line that can be typed and every number.
- `RingHoldsNewest` (history) says that the ring's characters are those of the newest lines and
  that one more would not fit; since the ring is refilled from the file after a restart, it also
  says that saving and restoring are inverse of each other.
- `CardIsBlockDevice` (SD card) is about every way from the answers of the card to what the file system is told:
  tries that run out, faults in each phase, removal, and a reset in the middle of a write.  Each of the five slips
  is needed: without any one of them as an excuse TLC finds the property violated.
- `CardCallsEnd` says that a call ends unless the card is taken out while its data are waited for.

- `OnlyTheNamed` (shell) is about every command at once: in every state, whatever failed and
  wherever a reset came, what differs from before is what the line names.  `CdGoesWhereAsked` is the
  same for the working directory.  Both except arguments that begin with `../` in a directory that
  was entered as `../x` from the root, where the code goes wrong.
- `CopiedIsCopied`, `RmAllOrNothing`, `ArchiveHoldsTree`, `ExtractRestores` compare what a command
  answered with what it did.  Each names the failures after which the answer is not to be
  trusted: calls the code does not check, or checks and does not report.
- `RunsOnlyLoaded` relates three commands: a mark of an executable is put by one, its file cut short
  or overwritten by another, and `run` must still start only what was wholly loaded.  It does not say that what was
  loaded is one program: see the spliced file under the observations.
- `HandlesClosed`: between commands only `tar`'s handles may be open, the archive itself only when
  reading a header failed, and what it was reading only when it gave up on it.  `SlipsAreKnown` says of each kind of
  undefined behaviour that the model marks, in which circumstances it occurs: which command lines, which failed calls,
  which state left by which command.  That it marks all there is in these commands is a matter of reading the code, not of the
  run.  `CommandsEnd` names the two loops that do not end, and promises nothing once littlefs's list holds what `tar` left in it.
- A name that `cp` or `mv` reads from address 1 is some name (`Memory`): `OnlyTheNamed` then says only that it is put in the
  directory that the line names.
- `ComputesC` compares the code's result, output and stack with the meaning of the program;
  `CompilesValid` says that nothing is refused but for the refusals recorded with the job;
  `StackIsEven` that each instruction is always reached with the same depth of the stack, on which
  the frame layout rests.  `HiddenComesBack` is `ComputesC` for the programs whose only departure from C is that a
  function hides a global by a name of another type.

### Bounds, and why they are enough

- XMODEM: `PMod` 6 with a file of 7 blocks makes packet numbers wrap, and is the smallest that
  satisfies `NumbersSuffice` with buffers of two tokens, so the numbers are as scarce as the code
  may have them.  In the code `PMod` is 256 and the buffers hold far fewer frames than that.  The
  theorems hold for all values.  Two damaged tokens, a slow write, a failed write and a failed
  read per transfer let each pair of kinds of fault meet; tries are small so that they run out.
  `xmodem_delivers` has room for as many prompts (`RevCap`) as are sent (`SyncTries`, 10), and for a frame with each; in the code
  both ends prompt and try 16 times.  `TxWait` is 2, in units of half a second, in every run.
- YMODEM: files of 1 to 3 blocks, numbers modulo 3 (256 in `ymodem_incomplete`), up to three damaged and three lost
  tokens.  A packet has 3, 5 or 6 bytes after its first: the number, its complement, the check and up to two of
  data.  `GotBound` limits how far a sender that does not stop is followed.
- vi: a line, a line and one without its newline, and nothing, texts up to `MaxLen` 4, at most `MaxUndo` + 1 commands on
  the undo list before the next change, counts up to 2 and a queue of 2 (32 in the code), so that
  the queue fills.  After a slip (`MaxSlips`) no new change starts, as the properties say nothing
  more about it; moving, undoing, saving and leaving go on.
- History: a ring of 7 cells with lines of up to 2 characters, so that a line is split over the end
  in every way, at most 3 lines among those of the last save and those entered since, and any number of restarts.  The line
  editor and the card share a run and no state: a behaviour is one of either.
- SD card: blocks 0 and 1 of cards of three kinds, addresses in units of 2 bytes (512), a capacity range of 4 with cards
  of 3, 4 and 5, so that all, none and some of the blocks are left; two or three tries (256, 10), four calls and three
  faults, so that a card can be misjudged, written and read, or lost and loaded again.

- Shell: nine devices with their command lines (`MCScenes`): a tree with an executable and two levels
  of directories, an archive made elsewhere with an entry for a directory, an archive of an executable that
  a failed copy cuts short, sources that do and do not
  compile, an unformatted device.  Two to four commands are typed, in any order, with resets at will and
  `MaxFaults` 1: the properties are about one command after what others left, and each excepts the
  failures that matter by name, so a second failure adds the combinations of what one shows.
- Compiler: 12-bit words, branches that reach 16 and 64 halfwords (128 and 1024), a literal pool every 48 bytes
  (1000), so that short programs reach every boundary.  The families of `MCCc` cross pairs of operators, types,
  places of objects, jumps out of nested statements, calls, options and lengths of code.

### Fairness

`FairSpec` of `XModem` and `YModem` assumes that each end takes a step when it can (it is a
program on its own machine, and `getbyte` either returns a byte or times out), that time passes
when both wait, and that both commands are given.  Nothing is assumed of the link: it may spend
its faults whenever it likes, but only as many as its budget has.  `Vi` and `History` have no
liveness properties: the user decides what happens next.  `Pshell` assumes `WF_vars(Work)`: the
command that runs goes on when it can, as the only program on its core; keys, the user's program, resets and the
boot are not assumed to do anything.  `Cc` assumes that the processor goes on.
`CardSpec` assumes that the driver goes on, which includes that a card that is there sends the data it was asked for and
stops being busy; a card need not ever get ready.

## Proofs

`XModemProofs` proves, for every file length, buffer size, number of tries and budget of faults
under the assumptions `Sizes` and `NumbersSuffice` of `XModem`:

- `TypeCorrect`: `Spec => []TypeOK`.
- `OrderCorrect`: `Spec => []StoredInOrder`.
- `LeadBounded`: `Spec => []BoundedLead`.
- `CompleteCorrect`: `Spec => []SuccessIsComplete`.
- `IInvCorrect`: `Spec => []IInv`.
- `TransferImplemented`: `Spec => ImplementsTransfer`, which is `FileTransfer`'s specification under the refinement
  mapping: the whole of `[][Next]` is carried over, not only an invariant.

The argument.  `StoredInOrder` is not inductive: that a frame with the expected number is the
expected block depends on what is in flight.  The invariant adds that numbers are positions modulo
`PMod` at both ends and on the way (`Numbered`), that what is on the way was sent in the order of
the file and not before the block stored last (`Ordered`), and that the sender's count plus the
acknowledgements in flight or owed is bounded by the receiver's count and the tokens ahead
(`Window`).  From these a frame in flight is less than `PMod` blocks away from the expected one
(`ModUnique`), so equal numbers mean equal blocks.  Every action is first reduced to one of a few
shapes (`TxShapes`, `RxShapes`, `TickShapes`: what it may do to the counters and the queues), and the
invariant is proved once per shape.  `WithinFile` is proved separately on top.

`SuccessIsComplete` is a matter of counting: unless a frame was acknowledged again, the blocks the sender counts, its verdict
and the acknowledgements in flight or owed are no more than the blocks the receiver counts, and one when it closes
(`Accounted`).  A sender that has its verdict then leaves the receiver no block to miss.

For the refinement the shapes lack one thing: that an end which has decided does nothing more that shows
(`TxDecidesOnce`, `RxDecidesOnce`).  Then a step of the sender that moves its counter is a `Claim`, which
`BoundedLead` after the step allows; a step that moves the receiver's counter is a `Deliver`, because the frame at
the head of the queue carries the block expected (`HeadBlock`) and frames carry only blocks of the file
(`FramesWithin`); a step that moves neither is an end or stutters.

`YModemProofs` proves about `SpecMC` of `MCYModem`, in which the sender is this code or a host's program that sends
anything, for every file length, queue size, number of tries and budget of faults (`TwoEnds` carries every theorem over to
`Spec`):

- `TypeCorrect` and `InSequence` (`StoredBySequence`), whoever sends and whatever
  happens to the packets.
- `NamedWhole` (`NamedIsCompleteHere`), `SentStays` (`SentIsKept`) and `Implements` (`ImplementsTransfer`, by the
  refinement mapping, the whole next-state relation), when the faults of packets are only `"short"`: bytes are lost, but
  not the first one.  The assumption is needed, not convenient: `YModem_incomplete` is the counterexample without it, where
  the middle of a packet is taken for packets.

The argument.  What the receiver stores is right because packets carry the number of the block they name and its own
count is one ahead of what it stored; this is `AnySenderInv`, inductive for any sender.  That a named file is complete is a
matter of the two ends: the sender asks one question at a time (`OneQuestion`), nothing of the last session is left
when one begins (`NoLeftOvers`), and each pair of places of the two ends says what is in the queues (`InStep`).
`Session` is their conjunction.  As in `XModemProofs` every action is reduced to shapes, and the invariant is proved once
for each.

`SdCardProofs` proves, under the assumption `CardSizes` of `SdCard`, for cards of any kind and size and any number of tries,
faults, calls, removals and resets:

- `CardImplements`: `CardSpec => CardIsBlockDevice`, which is `BlockDevice`'s specification with the card's blocks as the
  disk, the call the driver is in as the request, and the slips as the excuse.

The argument.  What the driver does is right because of what it believes, so the invariant `CInv` relates the two.  `InCall`
says at each place which call is under way and with which arguments; `Known` that, unless the driver slipped, the card
counts blocks exactly if the driver takes it for one that does, and the number of blocks is the card's, or 0; `Writing` that
what a busy card took is what was sent.  From `Known` the address the driver sends means the block asked for (`OwnPlace`:
a multiple of the length of a block, divided by it, is exact).  Then each step of the driver within a call stutters
(`Stutters`), the last step of a call is the device's `Answer`, a reset its `Restart`, which may find the block of a
write under way written or not, and a step that slips is excused.  The fairness of `CardSpec` is not used.

- `TypesCorrect`: `CardSpec => []CardTypeOK`, the types of the driver and the card.  They hold whatever
  slips: where the driver takes a card of high capacity for one of version 1 and counts its blocks wrongly, `Bounded` still has that it
  counts no more than there are (`SectorsAtMost`), and that a read whose command the card accepted is of a block it has
  (`SectorKeeps`).

`PshellProofs` proves, for every device, every command line, every number of failures and resets anywhere, under the
assumptions `BoundsAssumption` and `ScenesAssumption` of `Shell`:

- `TypeCorrect`: `Spec => []TypeOK`, of which the heart is `WellFormed(tree)`: whatever a command does, fails at or is cut
  off from, every path of the tree leads through directories.
- `OwnedCorrect`: `Spec => []HandlesOwned`, that what is open belongs to the command that runs or was left by `tar`.
- `RunCorrect`: `Spec => []RunsOnlyLoaded`.

`ScenesAssumption` says of the devices that their trees are trees, and of the command lines that they have the arguments
that the commands check for (`bad_name`, `check_from_to_parms`, the count in `tar`), each absolute or relative; and that
`../` is followed by a name.  The code also takes `../` alone, which in a directory entered as `../x` would be glued to
nothing; this is the one line that is excluded without the code excluding it.

The argument.  `rm -r` may be at any depth when it gives up, `cc` anywhere when it jumps out.  `PInv` says at each place of each command what its local variables are and that every open
handle belongs to one of them (`Owned`): the two files of `cp`, a frame of `rm`'s stack, the descriptor or the list of
the compiler's session, or it was left by `tar`.  A step then only has to keep the owner, or close the handle.  For the
tree the stack of `rm` must say more than its types: what the innermost directory has read for removal is a file, and
is still there (`IsFrame`), while the directories above are only ever read for directories.  For the loader, what is read is
the beginning of the file (`LoadedOK`).  The lemmas about the tree (`CreatedOK`, `MkdirOK`, `StoredOK`, `MarkedOK`, `WithoutOK`,
`RenamedOK`) come first in `PshellProofs`, after those about sequences whose elements are of no one type.

`CommandProofs` proves, under the same two assumptions and again with failures and resets anywhere:

- `HandlesCorrect`: `Spec => []HandlesClosed`.
- `CdCorrect`: `Spec => CdGoesWhereAsked`.
- `CopyCorrect`: `Spec => []CopiedIsCopied`.
- `RmCorrect`: `Spec => []RmAllOrNothing`.
- `ArchiveCorrect`: `Spec => []ArchiveHoldsTree`.
- `ExtractCorrect`: `Spec => []ExtractRestores`.
- `NamedCorrect`: `Spec => OnlyTheNamed`.
- `SlipsCorrect`: `Spec => SlipsAreKnown`.

The argument.  For `HandlesCorrect` little is missing: `DeadOK` says when what `tar` was reading may stay open.  Each of the others
needs to know more of some command than `PInv` says of all of them, and gets an invariant of its own
beside it.  `CopyInv`: of the file `cp` reads, what it has written and what is left to read make up the content the source
had in the tree before.  `RmInv`: until `rm` cleans a directory the tree is the one before; from then on the stack of
directories is a path from the one asked for, and what is not read of each, with the one above it on the stack, is all
that is left below (`Nested`), as long as reads told the truth, so that when the stack is empty nothing is left.
`SlipInv`: what the compiler's session holds, or lacks, at each place shows which calls must have failed, so that a
step that is marked is one of the kinds listed.  `NamesInv`: the paths in local variables come from the names of the line:
the two ends of `mv` and `cp`, all of `rm`'s stack, the archive of `tar` and the output of `cc`; with it, each operation
on the tree changes one place (`OneIsChanged`), or what is under its two ends (`MoveChanges`), and that place is one the
line names.  The path the code makes of an argument is shown once to mean what the argument means (`ResolveIs`, `NamedIs`),
for arguments whose text leads up from the current directory (`TextLeadsUp`), the condition the properties about places state.

For the archives, where an entry starts is decided by the headers before it, a recursion over the content.  `StartsFacts`
says the same without recursion: the starts are the smallest set that has the first place and, with a place, the one after
its entry.  What is written behind the last entry then only adds to them (`Laid`), whatever the data blocks look like.
`ArchiveInv`: while `tar c` walks the tree, the entries in the archive are files under the arguments done so far, and all of them but those
under what the stack of directories has still to read (`Kept`); the archive itself is met and left out.  `ExtractInv`: what `tar x` has still to read
of the archive is its content from the start of an entry, or from within the data of one, and the entries
before it are back (`AtEntry`, `InEntry`); that the archive has an end block (`HasEnd`) gives that no entry is cut short.  An
entry that is back stays back, because later ones have other names (`Only`) and directories are made only where nothing is.

The proofs showed three things about what the two properties may say, which the scenes of `pshell_commands` do not reach.  The archive
too must be named by a text that leads up, or it is not the file that is left out.  Of two entries of one name the later one is what
is found after `tar x`.  And the size in the header of a directory is not skipped, so what would be its data is taken for headers; the entries of an
archive are defined accordingly (`Follows`).

`HistoryProofs` proves, for every size of the ring and length of a line under the assumption `Sizes` of `History`, which
says that a line with its end fits in the ring and that the two bytes that end a line are not characters of one:

- `TypeCorrect`: `Spec => []TypeOK`.
- `RingCorrect`: `Spec => []RingHoldsNewest`.
- `RecallCorrect`: `Spec => []RecallFindsAll`.
- `LossCorrect`: `Spec => []LossIsBounded`.

The argument.  The properties speak of whole lines and hold between operations only; `addhistw` works a character at a time
and drops the oldest line in the middle of writing the newest.  So the invariant speaks of the text of all lines ever entered, a sequence
of characters: what the ring holds is the end of that text from the start of a line, less than a ring long, and from any earlier
start it would be a ring or more (`KeptOf`).  A single character keeps this (`PutKeeps`), provided a line ends within any `CMDFULL`
characters of the text (`Broken`), which is why the search for the end of the oldest line ends before it has gone round.  A
line is then its characters one after the other (`AddLineKeeps`).  `IInv` says the same of the file and the lines saved, so that a restart,
which reads the file a character at a time, rebuilds a ring that holds what the file does (`RestoredIs`); and, for
the loss, that what is not saved has been put into cells below `histb`, as a save happens whenever `histb` goes down.  That `KeptOf` means
whole lines is `KeptLines`.  For the search, the places where a line starts are in the order of the lines (`PlacesFacts`), the characters at such
a place are those of its line and then an end, which no beginning contains (`PlacePrefix`), and counting from the newest among the
places is counting among the lines (`BelowThrough`).  The walk is a fold over the places that counts matches; `OnceFolds` says what it
has found after each of them, `PassOne` that the first round ends with the number of matches, and `WalkFinds` that the two
rounds together find the n-th.  `IInv` also holds on every state of the run `history_and_card`.

`ViProofs` proves, for every file, every count, every size of the queue and length of the undo list, and commands in any
order with reads and saves that fail, under the assumption `Limits` of `Vi` (a file is a sequence of characters, any, and the
queue has room for one):

- `TypeCorrect`: `Spec => []TypeOK`.
- `UndoCorrect`: `Spec => []UndoIsExact`.
- `QuitCorrect`: `Spec => []QuitLosesNothingCounted`.

The argument.  The undo list tells how to go back from a text, but not what the texts were, so that it is exact is not
inductive, and what a command may do to the list cannot be told from the list.  `IInv` asserts that there is a path of texts `H`:
`H[0]` is the text as loaded, each entry taken back leads from its text on the path to the one before and has its place
there (`Path`), and what the queue holds leads from the text on the screen to the last of them.  `Follows(e, f)` says that whoever
has a path to `e` has one to `f` that begins with the same texts, with as many changes counted as entries added, unless a slip came in
between.  It holds of each thing a command does: an entry pushed, a character queued, the queue committed, a cut and a paste
with their entries; it goes through from one to the next (`FollowsThrough`) and through any number of repetitions (`TimesKeep`), so
that a command is the chain of what it does.  `Lands` and `LandsFrom` carry it over the tail of `do_cmd`.  For the count,
`OnPath` adds that the file is the text on the path as many entries back as `modified_count` says; a save
makes it the last one, an undo goes one entry back on both (`BackAlong`), which below 0 is a slip.  `QuitLosesNothingCounted` and
`UndoIsExact` follow, the latter by taking the whole list back along the path (`ExactFromPath`).  What is true of the text itself is
arithmetic on positions: what is cut out and put back, or put in and cut out again, is the text before (`PasteOfCut`,
`CutOfPaste`), and a character more in the queue is a longer cut (`CutOfMore`, `PasteOfMore`).

`FoldProofs` is what these proofs need of folds.  The induction theorem of the library takes an operator, which the
provers cannot instantiate; `SetInduction` takes the set of the numbers for which the claim holds instead, from the fact that a
set of numbers has a least one.  `FoldExists` shows that a fold has a function of its stages, `FoldThrough`
that they are those of the elements one by one; `PutFolds`, `EncodedFolds` and `ReadFolds` are the folds of `History`.

Only model-checked: all liveness, and everything about `Cc`.  Liveness under fairness is out of the prover's reach, and so are recursive operators, on
which the compiler's modules rest.

## Plan

Done: `XModem` with `FileTransfer` and proofs, `YModem`, `Vi`, `History`, the SD card, the compiler, the
shell with its file commands, `tar` and the compiler's session.  What is left, in this order:

1. vi: marks, named registers, `.`, searches, `d`, `c` and `y` with motions.
2. The line editor's decoding of keys and completion; `vi` and the transfers as commands of `Pshell`.

## Not modelled

- Contents of blocks, checks (CRC, checksum) and padding: a frame is damaged or not.  XMODEM's 1 KB
  frames, which only a foreign sender uses, are not told from 128-byte ones.
- vi: searches, substitution, shifts, marks, named registers, `.`, `U`, several files, options, the
  screen, `d` and `c` with motions other than the modelled ones, yanking, `^D`, `r` with a count, `:r`, and counts on
  `p` and on motions.
- A first packet of YMODEM that is a block whose text holds a number where the size is looked for.
- What a user's program writes, truncates, removes or renames.
- What becomes of littlefs's list of open files after `tar` left a handle of a dead stack in it, or opened `tar_f` again.
- The line editor's decoding of escape sequences, its echo, and tab completion.
- The lexer and the preprocessor of `cc`, `sprintf`'s and `printf`'s formats, and the library behind the
  program's outside calls; running out of memory.
- Splitting a line into words, `help`, `ls`, `cat`, `df`, `resize` and other commands that only print.
- The PIO and DMA channels of the SD card, its clock, and checks of commands and data, which are right or not.
- Everything listed as `not_modelled` in `PROJECT.json`: flash and terminal output, which have no logic of their own; submodules that are not in the tree.

## Observations without a run

Met while modelling; no run is spent on them:

- `xymodem/ymodem.c:446,450`: "Resend packet if NAK for a count of 10 else end of communication", but
  nothing counts: a receiver that always answers NAK makes the sender repeat for ever.
- `xymodem/ymodem.c:234`: "Filename packet is empty, end session", but an empty first packet is
  answered with NAK until there were more than five errors.
- `xymodem/ymodem.c:357`: a failed read is negative, is stored in an unsigned variable, and the
  packet carries what the buffer held.
- `vi/vi.c:1701`: of what is not a regular file a handle that was never opened is closed (`vi` of a directory).
- `vi/vi.c:3360`: `J` at the end of a text that ends in blanks without a newline never ends.
- `vi/vi.c:1853`: a typed character does not count as a change, so after typing `:q` leaves without a word, and `:x` and `ZZ`
  leave without writing.
- `vi/vi.c:1953`: the file is truncated when it is opened, which the comment above says it is not.
- `misc/readln.c:342`: when the history cannot be opened at the start, the next save overwrites that of all sessions;
  `:309-311`: the writes and the close of a save are not checked.
- `misc/readln.c:532`: the first Down after an Up goes one line further back.
- `misc/readln.c:409`: the bytes of an unknown escape sequence are put over the characters behind the cursor.
- `pshell/main.c:370`: the boot prompt accepts `Y` and Enter and does not format: the comparison is with `y` twice.
- `pshell/main.c:177`, `pshell/shell_cmds.c:21`: after `cd ../x` at the root the working directory is `x/` without its
  '/'; there `cd ..` does not move, and `../y` is glued to the name.
- `pshell/file_cmds.c:81,110`, `pshell/main.c:275`: `mv`, `cp` and running a file do not look whether a file system is mounted.
- `pshell/file_cmds.c:126`: a failed read ends `cp` as the end of the file does, and the answer is "copied"; the close is
  not checked; `:43`: after `mkdir b`, `cp ../a b` at the root takes the copy's name from address 1, as `full_path` gave
  a text without '/'; `:136`: the mark of an executable is put after a failed write too, and stays on a file
  that is overwritten; `:116`: the wrong name is printed.
- `pshell/file_cmds.c:242,244`: `rm` does not look whether its directory was opened, and an error of reading it is
  not 0, so that the loop goes on for ever; `rm -r /` empties the device and then reports an error.
- `pshell/main.c:275`, `cc/cc.c:516`: the loader checks a file's header and lengths, not that its parts belong together: `tar x` of
  an archive that a failed `cp` cut short repeats the last block, and the executable so made is started.
- `tar/tar.c:198`: the end of the file reads as a block, so an archive without end blocks (a failed `tar c`) is read for
  ever; `:199`: after an error the archive stays open, as the file or directory at hand does after the errors at
  `:67-80` and `:111`; `:263`: the last blocks are written without a look; `:252`: what is archived is the last name
  of the argument, looked for in the working directory.
- `cc/cc.c:158`: errors after the buffers are freed (no `main`, an output that cannot be created) look for the line in a null
  source; `:457` and its like close a file twice, `:514` one that was never opened; `:472`: the relocation list
  is read after `:424` freed it, and `cc_free` of it ends in "corrupted memory", so `-o` of a program with outside calls
  leaves a file without its mark.
- `cc/cc_malloc.c:32`: a program that frees a handle leaves it in the list that is closed at the end.
- `sdio/sd_spi.c:327,330`: the answers that reject a block can never match, as they are masked with 0x0E; harmless,
  as the value they set is the one it has.
- `sdio/io.c:74,89`: of a call over several blocks each would be read into, or written from, the first; the file system
  makes no such call, its cache being one block.
- The compiler (the slips of `CcLang` and the flags of `CcGen`): the peephole optimizer joins instructions across the target of a
  branch; `||` and `&&` give values other than 0 and 1; `x / 2^n` and `x % 2^n` are wrong for negative `x`; cases do not fall
  through; a `switch` that is not the whole of a case is refused; `continue` and `goto` out of a `switch` leave a word on
  the stack; `<` and `>` of equal floats are true and `-0.0` is not 0; a conditional branch of a long loop goes to the wrong
  halfword; values of `char` assignments and of `(char)` are not cut; four or more outside arguments are misplaced
  (the library has such functions, `docs/FUNCTIONS.md:62`); an
  array initializer may be longer than its array.
