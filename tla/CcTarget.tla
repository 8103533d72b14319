------------------------------ MODULE CcTarget ------------------------------
(***************************************************************************)
(* What the compiler of cc/ generates code for: words and floats, the      *)
(* instructions of the Cortex-M0+ it emits, a machine that executes them,  *)
(* and the functions outside the program.  Nothing here is code of the     *)
(* compiler: it is the hardware, the SDK and the library, as cc/ uses      *)
(* them.  Addresses of instructions count halfwords from 1; addresses of   *)
(* memory count bytes, with a whole word held at its first byte.           *)
(***************************************************************************)
EXTENDS Integers, Sequences, SequencesExt, FiniteSetsExt, Bitwise, TLC

CONSTANT WordBits \* width of an int: 32 on the machine

ASSUME Width == WordBits \in 10 .. 15

Modulus == 2 ^ WordBits
MinInt == -(Modulus \div 2)
Wrap(v) == ((v - MinInt) % Modulus) + MinInt
Unsigned(v) == v % Modulus
CharOf(v, unsigned) == IF unsigned THEN v % 256 ELSE ((v + 128) % 256) - 128

BitAnd(x, y) == Wrap(Unsigned(x) & Unsigned(y))
BitOr(x, y) == Wrap(Unsigned(x) | Unsigned(y))
BitXor(x, y) == Wrap(Unsigned(x) ^^ Unsigned(y))

\* The shifts take the low byte of the register that counts.
ShiftLeft(x, n) == IF n % 256 >= WordBits THEN 0 ELSE Wrap(Unsigned(x) * 2 ^ (n % 256))
ShiftRight(x, n) == x \div 2 ^ Min({n % 256, WordBits})

Abs(x) == IF x < 0 THEN -x ELSE x
Sign(x) == IF x < 0 THEN -1 ELSE 1
Quotient(x, y) == IF y = 0 THEN 0 ELSE Wrap(Sign(x) * Sign(y) * (Abs(x) \div Abs(y)))
Remainder(x, y) == Wrap(x - y * Quotient(x, y))

\* A float is an integral number here; its bits are those of no small integer, but zero's.
FloatBase == Modulus \div 4
MinusZero == MinInt
FloatBits(x) == IF x = 0 THEN 0 ELSE FloatBase + x
FloatValue(b) == IF b \in {0, MinusZero} THEN 0 ELSE b - FloatBase
FloatNegated(b) == IF b = 0 THEN MinusZero ELSE IF b = MinusZero THEN 0 ELSE FloatBits(-FloatValue(b))

(***************************************************************************)
(* Functions outside the program.  An address is a number no int has.      *)
(***************************************************************************)
Fops == <<"idiv", "i2f", "f2iz", "fadd", "fsub", "fmul", "fdiv", "fcmple", "fcmpgt", "fcmplt", "fcmpge">>
FopNumber(name) == CHOOSE k \in DOMAIN Fops : Fops[k] = name
\* An external function writes its arguments to the output and returns the last one.
Extern(nr, params, floats, retFloat, prints) ==
  [nr |-> nr, params |-> params, floats |-> floats, retFloat |-> retFloat, prints |-> prints]
Externs == [fput |-> Extern(300, 1, 1, TRUE, FALSE), put1 |-> Extern(301, 1, 0, FALSE, FALSE),
            put2 |-> Extern(302, 2, 0, FALSE, FALSE), put3 |-> Extern(303, 3, 0, FALSE, FALSE),
            put4 |-> Extern(304, 4, 0, FALSE, FALSE), put5 |-> Extern(305, 5, 0, FALSE, FALSE),
            printf |-> Extern(306, 0, 0, FALSE, TRUE)]
ExternNumbered(nr) == CHOOSE x \in DOMAIN Externs : Externs[x].nr = nr
FopAddress(k) == 100000 + k
ExternAddress(nr) == 200000 + nr

Truth(b) == IF b THEN 1 ELSE 0
\* The results in r0 and r1; a function may leave anything in the registers r1 to r3.
FopResult(f, x, y) ==
  LET fx == FloatValue(x)  fy == FloatValue(y)
  IN CASE f = "idiv" -> <<Quotient(x, y), Remainder(x, y)>>
       [] f = "i2f" -> <<FloatBits(x), 0>>
       [] f = "f2iz" -> <<Wrap(fx), 0>>
       [] f = "fadd" -> <<FloatBits(fx + fy), 0>>
       [] f = "fsub" -> <<FloatBits(fx - fy), 0>>
       [] f = "fmul" -> <<IF (Sign(fx) * Sign(fy) < 0) /\ fx * fy = 0 THEN MinusZero ELSE FloatBits(fx * fy), 0>>
       [] f = "fdiv" -> <<FloatBits(Quotient(fx, fy)), 0>>
       [] f = "fcmple" -> <<Truth(fx <= fy), 0>>
       [] f = "fcmpgt" -> <<Truth(fx > fy), 0>>
       [] f = "fcmplt" -> <<Truth(fx < fy), 0>>
       [] f = "fcmpge" -> <<Truth(fx >= fy), 0>>

(***************************************************************************)
(* Instructions: an operation, a destination and a source register, and a  *)
(* number.  A branch holds the distance from two halfwords after itself.   *)
(***************************************************************************)
Op(op, d, m, i) == [op |-> op, d |-> d, m |-> m, i |-> i]
Hole == Op("hole", 0, 0, 0) \* emit_call(0): to be patched
Word(v) == Op("word", 0, 0, v)
WordTop == Op("wordtop", 0, 0, 0)

StackTop == 1600 \* the stack lies below, global data above
DataBase == 1700
Halted == 0      \* where the call of main returns to
Nowhere == -1    \* what no address is

\* A machine about to execute the instruction at pc, with two words pushed by its caller.
Machine(pc) ==
  [r |-> [x \in {0, 1, 2, 3, 7} |-> 0], sp |-> StackTop - 8, lr |-> Halted, pc |-> pc,
   z |-> FALSE, lt |-> FALSE, c |-> FALSE, mem |-> <<>>, out |-> <<>>]

At(m, a) == IF a \in DOMAIN m.mem THEN m.mem[a] ELSE 0
Put(m, a, v) == [m EXCEPT !.mem = (a :> v) @@ @]
Set(m, d, v) == [m EXCEPT !.r[d] = v, !.pc = @ + 1]
Result(m, d, v) == Set(m, d, Wrap(v))
\* A result of x - y with its flags: no borrow sets the carry.
Compare(m, x, y) ==
  [m EXCEPT !.z = (x = y), !.lt = (x < y), !.c = (Unsigned(x) >= Unsigned(y))]
Jump(m, i) == [m EXCEPT !.pc = @ + 2 + i.i]
Branch(m, i, taken) == IF taken THEN Jump(m, i) ELSE [m EXCEPT !.pc = @ + 1]
AddCarry(m, x, y) == Result(m, 0, x + y + Truth(m.c))

CallFop(m, f) ==
  LET v == FopResult(f, m.r[0], m.r[1])
  IN [m EXCEPT !.r = [@ EXCEPT ![0] = v[1], ![1] = v[2], ![2] = 0, ![3] = 0], !.pc = @ + 1]
CallExtern(m, x) ==
  LET prints == Externs[x].prints
      k == IF prints THEN m.r[0] % 32 ELSE Externs[x].params
      arg(j) == IF prints THEN At(m, m.sp + 4 * (k - j))
                ELSE IF j <= 4 THEN m.r[j - 1] ELSE At(m, m.sp + 4 * (j - 5))
      args == [j \in 1 .. k |-> arg(j)]
  IN [m EXCEPT !.out = Append(@, <<x, args>>),
               !.r = [@ EXCEPT ![0] = args[k], ![1] = 0, ![2] = 0, ![3] = 0], !.pc = @ + 1]
\* blx r3
CallOutside(m) ==
  IF m.r[3] > 200000 THEN CallExtern(m, ExternNumbered(m.r[3] - 200000))
  ELSE CallFop(m, Fops[m.r[3] - 100000])

Push(m, v) == Put([m EXCEPT !.sp = @ - 4], m.sp - 4, v)

\* Moves, loads and stores.
Transfer(m, i, code) ==
  CASE i.op = "movi" -> Set(m, i.d, i.i)
    [] i.op = "mov" -> Set(m, i.d, m.r[i.m])
    [] i.op = "movsp" -> Set(m, 7, m.sp)
    [] i.op = "setsp" -> [m EXCEPT !.sp = m.r[7], !.pc = @ + 1]
    [] i.op = "addsp" -> [m EXCEPT !.sp = @ + m.r[3], !.pc = @ + 1]
    [] i.op = "adjsp" -> [m EXCEPT !.sp = @ + 4 * i.i, !.pc = @ + 1]
    [] i.op = "push" -> [Push(m, m.r[i.d]) EXCEPT !.pc = @ + 1]
    [] i.op = "pop" -> [m EXCEPT !.r[i.d] = At(m, m.sp), !.sp = @ + 4, !.pc = @ + 1]
    [] i.op = "pushframe" -> [Push(Push(m, m.lr), m.r[7]) EXCEPT !.pc = @ + 1]
    [] i.op = "popframe" -> [m EXCEPT !.r[7] = At(m, m.sp), !.pc = At(m, m.sp + 4), !.sp = @ + 8]
    [] i.op = "ldr" -> [m EXCEPT !.r[i.d] = At(m, m.r[i.m] + i.i), !.pc = @ + 1]
    [] i.op = "ldrsp" -> [m EXCEPT !.r[i.d] = At(m, m.sp), !.pc = @ + 1]
    [] i.op = "ldrb" -> Set(m, 0, At(m, m.r[0]) % 256)
    [] i.op = "sxtb" -> Set(m, 0, CharOf(m.r[0], FALSE))
    [] i.op = "str" -> [Put(m, m.r[3], m.r[0]) EXCEPT !.pc = @ + 1]
    [] i.op = "strb" -> [Put(m, m.r[3], Wrap(At(m, m.r[3]) - (At(m, m.r[3]) % 256) + (m.r[0] % 256))) EXCEPT !.pc = @ + 1]
    \* the word is at a distance from the next aligned halfword but one
    [] i.op = "ldrpc" -> [m EXCEPT !.r[i.d] = code[((m.pc + 1) \div 2) * 2 + 1 + 2 * i.i].i, !.pc = @ + 1]

\* Arithmetic and comparisons; only the flags that a later instruction reads are kept.
Compute(m, i) ==
  LET x == m.r[0]  y == m.r[3]
  IN CASE i.op = "neg" -> Compare(Result(m, i.d, -m.r[i.m]), 0, m.r[i.m])
       [] i.op = "addr7" -> Result(m, 0, x + m.r[7])
       [] i.op = "subi" -> Compare(Result(m, i.d, m.r[i.m] - i.i), m.r[i.m], i.i)
       [] i.op = "lsli" -> Result(m, 0, ShiftLeft(y, i.i))
       [] i.op = "orr" -> Result(m, 0, BitOr(x, y))
       [] i.op = "eor" -> Result(m, 0, BitXor(x, y))
       [] i.op = "and" -> Result(m, 0, BitAnd(x, y))
       [] i.op = "lsl" -> Result(m, 0, ShiftLeft(x, y))
       [] i.op = "asr" -> Result(m, 0, ShiftRight(x, y))
       [] i.op = "sub" -> Compare(Result(m, 0, m.r[i.m] - x), m.r[i.m], x)
       [] i.op = "add" -> Result(m, 0, x + y)
       [] i.op = "mul" -> Result(m, 0, x * y)
       [] i.op = "adc" -> AddCarry(m, x, m.r[i.m])
       [] i.op = "sbc" -> Result(m, 0, x - y - Truth(~m.c))
       [] i.op = "signs" -> Result(m, i.d, IF m.r[i.m] < 0 THEN -1 ELSE 0)
       [] i.op = "sign" -> Result(m, i.d, IF m.r[i.m] < 0 THEN 1 ELSE 0)
       [] i.op = "cmp" -> [Compare(m, m.r[i.d], m.r[i.m]) EXCEPT !.pc = @ + 1]
       [] i.op = "cmpi" -> [Compare(m, x, i.i) EXCEPT !.pc = @ + 1]
       [] i.op = "nop" -> [m EXCEPT !.pc = @ + 1]

\* Branches and calls.
Transferring(m, i) ==
  CASE i.op = "b" -> Jump(m, i)
    [] i.op = "beq" -> Branch(m, i, m.z)
    [] i.op = "bne" -> Branch(m, i, ~m.z)
    [] i.op = "blt" -> Branch(m, i, m.lt)
    [] i.op = "bgt" -> Branch(m, i, ~m.lt /\ ~m.z)
    [] i.op = "bl" -> [Jump(m, i) EXCEPT !.lr = m.pc + 2]
    [] i.op = "blx" -> CallOutside(m)
    [] i.op = "bx" -> [m EXCEPT !.pc = IF m.r[0] = 0 THEN Nowhere ELSE m.r[0]]

TransferOps == {"movi", "mov", "movsp", "setsp", "addsp", "adjsp", "push", "pop", "pushframe", "popframe", "ldr",
                "ldrsp", "ldrb", "sxtb", "str", "strb", "ldrpc"}
BranchOps == {"b", "beq", "bne", "blt", "bgt", "bl", "blx", "bx"}
NotCode == {"hole", "word", "wordtop", "bltop"} \* what is never executed

\* One instruction.
Executed(m, code) ==
  LET i == code[m.pc]
  IN IF i.op \in TransferOps THEN Transfer(m, i, code)
     ELSE IF i.op \in BranchOps THEN Transferring(m, i)
     ELSE Compute(m, i)

=============================================================================
