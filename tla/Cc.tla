--------------------------------- MODULE Cc ---------------------------------
(***************************************************************************)
(* The compiler at work: cc() compiles a program (or writes it as an       *)
(* executable and loads that), and the processor then executes what was    *)
(* generated, an instruction at a step, until main returns.  The compiler  *)
(* and the language are parameters: CcLang's Translated and Meaning.       *)
(***************************************************************************)
EXTENDS CcTarget

CONSTANTS
  Translate(_, _),    \* what cc() makes of a program under options
  MeaningOf(_, _, _), \* what C says of a program, char being unsigned or not, within a number of iterations
  Jobs,     \* programs with the options they are compiled with, and the refusal they are known for
  MaxSteps  \* instructions executed at most

VARIABLES
  job,       \* which of the jobs is done
  phase,     \* "source", "file" (written, to be loaded), "running", "returned", "refused", "lost" or "tired"
  refusal,   \* the compiler's complaint
  text,      \* the code segment
  fixups,    \* the halfwords of the file at which an outside address is to be put
  flags,     \* what the compiler did that its output may suffer from: over, far, late
  cpu,       \* the processor
  depths,    \* the depth of the stack at each instruction of a frame, when first reached
  uneven,    \* an instruction was reached with another depth
  steps

vars == <<job, phase, refusal, text, fixups, flags, cpu, depths, uneven, steps>>

Init ==
  /\ job \in DOMAIN Jobs
  /\ phase = "source" /\ refusal = "" /\ text = <<>> /\ fixups = {}
  /\ flags = [over |-> FALSE, far |-> FALSE, late |-> FALSE]
  /\ cpu = Machine(Halted) /\ depths = <<>> /\ uneven = FALSE /\ steps = 0

\* The program is compiled: the code and data are in place, or in a file.
Compile ==
  /\ phase = "source"
  /\ \E p \in {Translate(Jobs[job].program, Jobs[job].opts)} :
       /\ refusal' = p.refusal
       /\ text' = p.code
       /\ fixups' = p.relocs
       /\ flags' = p.flags
       /\ phase' = IF p.refusal # "" THEN "refused" ELSE IF Jobs[job].opts.exe THEN "file" ELSE "running"
       /\ cpu' = IF p.refusal # "" THEN cpu ELSE [Machine(p.main) EXCEPT !.mem = p.data]
  /\ UNCHANGED <<job, depths, uneven, steps>>

\* The loader puts the addresses of outside functions where the relocations say.
LoadFile ==
  /\ phase = "file"
  /\ text' = [k \in DOMAIN text |->
                IF k \notin fixups THEN text[k]
                ELSE IF text[k].i < 0 THEN Word(FopAddress(-text[k].i)) ELSE Word(ExternAddress(text[k].i))]
  /\ phase' = "running"
  /\ UNCHANGED <<job, refusal, fixups, flags, cpu, depths, uneven, steps>>

Executable(pc) == pc \in DOMAIN text /\ text[pc].op \notin NotCode

\* An instruction.  The frame is set up by the first two of a function; a prototype's code, up to its
\* word, is in its caller's.
Execute ==
  /\ phase = "running" /\ cpu.pc # Halted /\ Executable(cpu.pc) /\ steps < MaxSteps
  /\ cpu' = Executed(cpu, text)
  /\ steps' = steps + 1
  /\ LET depth == cpu.r[7] - cpu.sp
         framed == /\ text[cpu.pc].op \notin {"pushframe", "movsp", "bx", "nop"}
                   /\ \A k \in cpu.pc + 1 .. Min({cpu.pc + 2, Len(text)}) : text[k].op # "word"
     IN /\ uneven' = (uneven \/ (framed /\ cpu.pc \in DOMAIN depths /\ depths[cpu.pc] # depth))
        /\ depths' = IF ~framed \/ cpu.pc \in DOMAIN depths THEN depths ELSE (cpu.pc :> depth) @@ depths
  /\ UNCHANGED <<job, phase, refusal, text, fixups, flags>>

\* main has returned, the processor is where no instruction is, or the run is cut off.
Stop ==
  /\ phase = "running"
  /\ \/ cpu.pc = Halted /\ phase' = "returned"
     \/ cpu.pc # Halted /\ ~Executable(cpu.pc) /\ phase' = "lost"
     \/ cpu.pc # Halted /\ Executable(cpu.pc) /\ steps = MaxSteps /\ phase' = "tired"
  /\ UNCHANGED <<job, refusal, text, fixups, flags, cpu, depths, uneven, steps>>

Next == Compile \/ LoadFile \/ Execute \/ Stop

Spec == Init /\ [][Next]_vars /\ WF_vars(Next)

(***************************************************************************)
(* Properties                                                              *)
(***************************************************************************)
Meant == MeaningOf(Jobs[job].program, Jobs[job].opts.uchar, MaxSteps)
\* A program with a meaning that none of the known departures concerns.
Promised == ~Meant.undefined /\ Meant.slips = {} /\ ~flags.over /\ ~flags.far
Done == phase \in {"returned", "lost", "tired"}
\* main returns with the result and the output that C gives the program, and the stack as it was.
AsMeant == phase = "returned" /\ cpu.r[0] = Meant.v /\ cpu.out = Meant.out /\ cpu.sp = StackTop - 8

TypeOK ==
  /\ phase \in {"source", "file", "running", "returned", "refused", "lost", "tired"}
  /\ (phase = "refused") = (refusal # "")
  /\ fixups \subseteq DOMAIN text
  /\ steps \in 0 .. MaxSteps
  /\ cpu.pc \in Nat \cup {Nowhere} /\ cpu.sp \in Int

\* The code computes what C says: the result, what is written, in its order, and a stack as it was;
\* it ends, and never reaches a halfword that is no instruction.
ComputesC == Done /\ Promised => AsMeant

\* A global that a function hid is what it was when the function ends, with the type it had: "fields
\* starting with 'h' were designed to save and restore the global class/type/val in order to handle the
\* case if a function declares a local with the same name as a global" (cc/cc_internals.h:110-113).
HiddenComesBack ==
  Done /\ ~Meant.undefined /\ Meant.slips = {"hidden type"} /\ ~flags.over /\ ~flags.far => AsMeant

\* No program of the language is refused, but for what it is known to be refused for; one with more
\* code between two checks of the literal pool than the reach of a load allows may be.
CompilesValid == phase = "refused" => refusal = Jobs[job].known \/ (flags.late /\ refusal = "unexpected compiler error")

\* An instruction of a function is always reached with as many words on the stack.
StackIsEven == Done /\ Promised => ~uneven

=============================================================================
