---------------------------- MODULE BlockDevice ----------------------------
(***************************************************************************)
(* What a file system takes a block device for: it has a size, a block     *)
(* that was written is there, one that could not be written is there or    *)
(* is as before, the others are left alone, and what is read is what is    *)
(* there.  The device keeps this until it has an excuse.                   *)
(***************************************************************************)
EXTENDS Integers

CONSTANT Contents \* what a block may hold

VARIABLES
  disk,    \* block -> its content
  size,    \* blocks the device says it has: 0 before it is loaded
  request, \* [op, block, data]: what is asked of it
  got,     \* the content read last
  excused

bvars == <<disk, size, request, got, excused>>

Blocks == DOMAIN disk
Idle == [op |-> "none", block |-> 0, data |-> "-"]
Requests ==
  {Idle, [Idle EXCEPT !.op = "load"]}
    \cup {[op |-> "read", block |-> b, data |-> "-"] : b \in Blocks}
    \cup {[op |-> "prog", block |-> b, data |-> d] : b \in Blocks, d \in Contents}
Written == [disk EXCEPT ![request.block] = request.data]

Init == size = 0 /\ request = Idle /\ got = "-" /\ ~excused /\ disk \in [Blocks -> Contents]

Ask ==
  /\ request = Idle /\ request' \in Requests
  /\ request'.op \in {"read", "prog"} => request'.block < size
  /\ got' = "-" /\ UNCHANGED <<disk, size>>

\* What was asked is done, or is not done and said so.
Answer ==
  /\ request # Idle /\ request' = Idle
  /\ \/ request.op = "load" /\ (size' = 0 \/ Blocks = 0 .. size' - 1) /\ UNCHANGED <<disk, got>>
     \/ request.op = "read" /\ got' \in {"-", disk[request.block]} /\ UNCHANGED <<disk, size>>
     \/ request.op = "prog" /\ got' = "written" /\ disk' = Written /\ UNCHANGED size
     \/ request.op = "prog" /\ got' = "-" /\ disk' \in {disk, Written} /\ UNCHANGED size

\* The program is started again.
Restart ==
  /\ size' = 0 /\ request' = Idle /\ got' = "-"
  /\ disk' \in {disk} \cup (IF request.op = "prog" THEN {Written} ELSE {})

Next == excused' \/ ((Ask \/ Answer \/ Restart) /\ ~excused)

Spec == Init /\ [][Next]_bvars
=============================================================================
