------------------------------- MODULE CcGen -------------------------------
(***************************************************************************)
(* The code generator of cc/cc_gen.c: gen() walks the abstract syntax tree *)
(* of a function and emits Thumb code, patching branches and the pool of   *)
(* literals as it goes.  The tree is a record per node; the state of the   *)
(* generator is a record that every emitter takes and returns.             *)
(***************************************************************************)
EXTENDS CcPeep

CONSTANTS
  TextSize,   \* halfwords of the code segment: 8192
  CondReach,  \* halfwords a conditional branch reaches: 128
  NearReach,  \* halfwords a branch reaches: 1024
  PoolBytes,  \* distance at which the literal pool is written: 1000
  PoolReach   \* words a load from the pool reaches: 255

ASSUME Reaches ==
  /\ TextSize \in Nat /\ CondReach \in Nat /\ NearReach \in Nat /\ NearReach > CondReach
  /\ PoolBytes \in Nat /\ PoolReach \in Nat

\* Types: bits 0 to 1 the rank of an array, from 12 on the level of a pointer.
CHAR == 0
INT == 4
FLOAT == 8
ATOM_TYPE == 11
PTR == 4096
PTR2 == 8192

None == [k |-> "None"]
End == [k |-> ";"]

\* The state before a program: opts holds nopeep_opt, uchar_opt and whether ofn is given.
GenStart(opts) ==
  [code |-> <<>>, opts |-> opts, pool |-> <<>>, first |-> 0, relocs |-> {},
   brks |-> {}, cnts |-> {}, ecas |-> 0, def |-> 0, labels |-> <<>>,
   err |-> "", marks |-> {}, over |-> FALSE, far |-> FALSE, checked |-> 0, late |-> FALSE]

Fatal(s, msg) == [s EXCEPT !.err = IF @ = "" THEN msg ELSE @]

E(s) == Len(s.code) \* e: where the last halfword emitted is

(***************************************************************************)
(* Emitters                                                                *)
(***************************************************************************)
Emit(s, i) ==
  IF E(s) >= TextSize THEN Fatal(s, "code segment exceeded")
  ELSE LET code == Append(s.code, i)
           p == IF s.opts.nopeep THEN [code |-> code, over |-> s.over] ELSE Peep(code, s.marks, s.over)
       IN [s EXCEPT !.code = p.code, !.over = p.over]

EmitAll(s, is) == FoldLeft(Emit, s, is)

EmitWord(s, v) ==
  IF E(s) % 2 = 1 THEN Fatal(s, "mis-aligned word")
  ELSE IF E(s) + 1 >= TextSize - 1 THEN Fatal(s, "code segment exceeded")
  ELSE [s EXCEPT !.code = @ \o <<Word(v), WordTop>>]

\* ldr rr,[pc + offset]: the value joins the pool, or the loads of its entry there.
EmitLoadLongImm(s0, r, val, ext) ==
  LET s == Emit(s0, Op("ldrpc", r, 0, 0))
      same == {k \in DOMAIN s.pool : s.pool[k].val = val}
  IN IF same # {} THEN [s EXCEPT !.pool[Min(same)].locs = {E(s)} \cup @]
     ELSE [s EXCEPT !.pool = Append(@, [val |-> val, ext |-> ext, locs |-> {E(s)}]),
                    !.first = IF @ = 0 THEN E(s) ELSE @]

EmitLoadImmediate(s, r, val) ==
  IF val \in 0 .. 255 THEN Emit(s, Op("movi", r, 0, val))
  ELSE IF -val \in 0 .. 255 THEN EmitAll(s, <<Op("movi", r, 0, -val), Op("neg", r, r, 0)>>)
  ELSE EmitLoadLongImm(s, r, val, FALSE)

\* emit_call(): a hole to be patched, or a call of the halfword at n.
EmitHole(s) == EmitAll(s, <<Hole, Hole>>)
HoleAt(s) == E(s) - 1 \* what emit_call returns
CallCode(from, n) == <<Op("bl", 0, 0, n - (from + 2)), Op("bltop", 0, 0, 0)>>
EmitCall(s, n) == EmitAll(s, CallCode(E(s) + 1, n))

PatchBranch(s, from, to) ==
  IF from \notin 1 .. E(s) - 1 \/ s.code[from] # Hole \/ s.code[from + 1] # Hole
  THEN Fatal(s, "unexpected compiler error")
  ELSE LET c == CallCode(from, to)
       IN [s EXCEPT !.code[from] = c[1], !.code[from + 1] = c[2], !.marks = @ \cup {to}]
PatchAll(s, froms) == FoldSet(LAMBDA from, t : PatchBranch(t, from, E(s) + 1), s, froms)

\* A branch to the second halfword after to.
EmitBranch(s, to) ==
  LET ofs == to - (E(s) + 1)
  IN IF ofs \in -NearReach .. NearReach - 1 THEN Emit(s, Op("b", 0, 0, ofs)) ELSE EmitCall(s, to + 2)

\* The same on a condition; a far one calls to itself, without the two halfwords.
EmitCondBranch(s, to, cond) ==
  LET ofs == to - (E(s) + 1)
      inverse == IF cond = "beq" THEN "bne" ELSE "beq"
  IN IF ofs \in -CondReach .. CondReach - 1 THEN Emit(s, Op(cond, 0, 0, ofs))
     ELSE IF ofs \in -(NearReach - 1) .. NearReach - 1
     THEN EmitAll(s, <<Op(inverse, 0, 0, 0), Op("b", 0, 0, ofs - 1)>>)
     ELSE [EmitCall(Emit(s, Op(inverse, 0, 0, 1)), to) EXCEPT !.far = TRUE]

\* The pool, behind a branch over it (brnch) or at the end of a function.
PatchLoads(s, p) ==
  LET reach(l) == (2 * E(s) - 4 * ((l + 1) \div 2)) \div 4
  IN IF \E l \in p.locs : s.code[l].op # "ldrpc" \/ reach(l) > PoolReach
     THEN Fatal(s, "unexpected compiler error")
     ELSE [s EXCEPT !.code = [k \in DOMAIN @ |-> IF k \in p.locs THEN [@[k] EXCEPT !.i = reach(k)] ELSE @[k]]]
\* Variant: the relocation names the halfword after the literal.
WriteLiteralPast(s, p) ==
  LET t == EmitWord(PatchLoads(s, p), p.val)
  IN IF s.opts.exe /\ p.ext THEN [t EXCEPT !.relocs = @ \cup {E(t) + 1}] ELSE t
WriteLiteral(s, p) ==
  LET t == EmitWord(PatchLoads(s, p), p.val)
  IN IF s.opts.exe /\ p.ext THEN [t EXCEPT !.relocs = @ \cup {E(t) - 1}] ELSE t
\* checked and late tell whether more was emitted since the last check than the reach allows for.
PatchPcRelative(s0, brnch) ==
  LET s == [s0 EXCEPT !.late = @ \/ 2 * (E(s0) + 3 - s0.checked) > 4 * PoolReach - PoolBytes]
      aligned == IF (E(s) % 2 = 0) = brnch THEN Emit(s, Op("nop", 0, 0, 0)) ELSE s
      ahead == IF brnch THEN EmitBranch(aligned, E(aligned) + 2 * Len(s.pool)) ELSE aligned
  IN [FoldLeft(WriteLiteral, ahead, s.pool) EXCEPT !.pool = <<>>, !.first = 0]
\* Variant: the pool waits for the end of the function.
CheckPcRelativeNever(s) == [s EXCEPT !.checked = E(s)]
CheckPcRelative(s) ==
  LET t == IF s.first # 0 /\ 2 * (E(s) - s.first) + 4 * Len(s.pool) > PoolBytes THEN PatchPcRelative(s, TRUE) ELSE s
  IN [t EXCEPT !.checked = E(t)]

EmitEnter(s0, n) ==
  LET s == EmitAll(s0, <<Op("pushframe", 0, 0, 0), Op("movsp", 7, 0, 0)>>)
  IN IF n = 0 THEN s
     ELSE IF n < 128 THEN Emit(s, Op("adjsp", 0, 0, -n))
     ELSE Emit(EmitLoadImmediate(s, 3, -n * 4), Op("addsp", 0, 3, 0))
EmitLeave(s) == EmitAll(s, <<Op("setsp", 0, 7, 0), Op("popframe", 0, 0, 0)>>)
EmitLoadAddr(s, n) == Emit(EmitLoadImmediate(s, 0, n * 4), Op("addr7", 0, 7, 0))
Pushed(n) == Op("push", n, 0, 0)
Popped(n) == Op("pop", n, 0, 0)
EmitPush(s, n) == Emit(s, Pushed(n))
EmitStore(s, char) == EmitAll(s, <<Popped(3), Op(IF char THEN "strb" ELSE "str", 0, 3, 0)>>)
EmitLoad(s, char) ==
  IF ~char THEN Emit(s, Op("ldr", 0, 0, 0))
  ELSE EmitAll(s, <<Op("ldrb", 0, 0, 0)>> \o (IF s.opts.uchar THEN <<>> ELSE <<Op("sxtb", 0, 0, 0)>>))
EmitAdjustStack(s, n) == IF n = 0 THEN s ELSE Emit(s, Op("adjsp", 0, 0, n))

EmitFop(s, f) ==
  LET k == FopNumber(f)
      t == IF s.opts.exe THEN EmitLoadLongImm(s, 3, -k, TRUE) ELSE EmitLoadLongImm(s, 3, FopAddress(k), FALSE)
  IN Emit(t, Op("blx", 0, 3, 0))

\* The operators of one or two instructions after the left operand is popped into r3.
OperCode ==
  [Or |-> <<Popped(3), Op("orr", 0, 3, 0)>>, Xor |-> <<Popped(3), Op("eor", 0, 3, 0)>>,
   And |-> <<Popped(3), Op("and", 0, 3, 0)>>,
   Shl |-> <<Op("mov", 3, 0, 0), Popped(0), Op("lsl", 0, 3, 0)>>,
   Shr |-> <<Op("mov", 3, 0, 0), Popped(0), Op("asr", 0, 3, 0)>>,
   Sub |-> <<Popped(3), Op("sub", 0, 3, 0)>>, Add |-> <<Popped(3), Op("add", 0, 3, 0)>>,
   Mul |-> <<Popped(3), Op("mul", 0, 3, 0)>>,
   Eq |-> <<Popped(1), Op("sub", 0, 1, 0), Op("neg", 3, 0, 0), Op("adc", 0, 3, 0)>>,
   Ne |-> <<Popped(1), Op("sub", 0, 1, 0), Op("subi", 3, 0, 1), Op("sbc", 0, 3, 0)>>,
   Ge |-> <<Popped(1), Op("mov", 3, 0, 0), Op("signs", 0, 1, 0), Op("sign", 2, 3, 0), Op("cmp", 1, 3, 0),
            Op("adc", 0, 2, 0)>>,
   Lt |-> <<Popped(1), Op("movi", 3, 0, 1), Op("cmp", 1, 0, 0), Op("blt", 0, 0, 0), Op("movi", 3, 0, 0),
            Op("mov", 0, 3, 0)>>,
   Gt |-> <<Popped(1), Op("movi", 3, 0, 1), Op("cmp", 1, 0, 0), Op("bgt", 0, 0, 0), Op("movi", 3, 0, 0),
            Op("mov", 0, 3, 0)>>,
   Le |-> <<Popped(1), Op("mov", 3, 0, 0), Op("sign", 0, 1, 0), Op("signs", 2, 3, 0), Op("cmp", 3, 1, 0),
            Op("adc", 0, 2, 0)>>]
EmitOper(s, op) ==
  IF op \in DOMAIN OperCode THEN EmitAll(s, OperCode[op])
  ELSE LET t == EmitFop(EmitAll(s, <<Op("mov", 1, 0, 0), Popped(0)>>), "idiv")
       IN IF op = "Mod" THEN Emit(t, Op("mov", 0, 1, 0)) ELSE t

\* The function of a float operator, and whether the operands are swapped for it.
FloatOper ==
  [AddF |-> [f |-> "fadd", swap |-> TRUE], SubF |-> [f |-> "fsub", swap |-> FALSE],
   MulF |-> [f |-> "fmul", swap |-> TRUE], DivF |-> [f |-> "fdiv", swap |-> FALSE],
   GeF |-> [f |-> "fcmpge", swap |-> FALSE], GtF |-> [f |-> "fcmple", swap |-> TRUE],
   LtF |-> [f |-> "fcmpge", swap |-> TRUE], LeF |-> [f |-> "fcmple", swap |-> FALSE]]
EmitFloatOper(s, op) ==
  IF op = "EqF" THEN EmitOper(s, "Eq")
  ELSE IF op = "NeF" THEN EmitOper(s, "Ne")
  ELSE LET o == FloatOper[op]
       IN EmitFop(EmitAll(s, IF o.swap THEN <<Popped(1)>> ELSE <<Op("mov", 1, 0, 0), Popped(0)>>), o.f)

\* The arguments are on the stack, the first one deepest: up to four are popped into registers.
EmitSyscall(s, x, np) ==
  LET n == np % 32
      prints == Externs[x].prints
      regs == IF n > 4 THEN 4 ELSE n
      ready == IF prints THEN EmitLoadImmediate(s, 0, np)
               ELSE EmitAll(s, [k \in 1 .. regs |-> Popped(regs - k)])
      target == IF s.opts.exe THEN Externs[x].nr ELSE ExternAddress(Externs[x].nr)
      called == Emit(EmitLoadLongImm(ready, 3, target, ~prints \/ s.opts.exe), Op("blx", 0, 3, 0))
  IN EmitAdjustStack(called, IF prints THEN n ELSE n - regs)

(***************************************************************************)
(* gen(): one operator per kind of node                                    *)
(***************************************************************************)
RECURSIVE Gen(_, _)

IsChar(t) == t < PTR /\ t \div 4 = CHAR
CompareZero(s) == Emit(s, Op("cmpi", 0, 0, 0))
\* A branch that is taken, past a hole, when the condition holds; the hole is where it fails.
TestHole(s, cond) == LET t == CompareZero(s) IN EmitHole(EmitCondBranch(t, E(t) + 2, cond))

GenAssign(s, n) ==
  LET r == Gen(EmitPush(Gen(s, n.l), 0), n.r)
      c == IF n.from = FLOAT /\ n.t = INT THEN EmitFop(r, "f2iz")
           ELSE IF n.from = INT /\ n.t = FLOAT THEN EmitFop(r, "i2f") ELSE r
  IN IF n.t > ATOM_TYPE /\ n.t < PTR THEN Fatal(r, "struct assign not yet supported") ELSE EmitStore(c, IsChar(n.t))

\* The size of what a pointer points at; 1 for other types.
StepOf(t, tsize) == IF t >= PTR2 THEN 4 ELSE IF t >= PTR THEN tsize[(t - PTR) \div 4 + 1] ELSE 1
GenStep(s, n) ==
  LET v == EmitPush(EmitLoad(EmitPush(Gen(s, n.x), 0), n.t = CHAR), 0)
  IN EmitStore(EmitOper(EmitLoadImmediate(v, 0, n.step), IF n.k = "Inc" THEN "Add" ELSE "Sub"), n.t = CHAR)

GenCond(s, n) ==
  LET t == TestHole(Gen(s, n.c), "bne")
      yes == Gen(t, n.a)
      no == EmitHole(PatchBranch(yes, HoleAt(t), E(yes) + 3))
      both == Gen(no, n.b)
  IN IF n.b = None THEN PatchBranch(yes, HoleAt(t), E(yes) + 1) ELSE PatchBranch(both, HoleAt(no), E(both) + 1)

\* || and &&: the right operand is skipped, and the left one is the value.
GenShortCircuit(s, n) ==
  LET t == TestHole(Gen(s, n.l), IF n.k = "Lor" THEN "beq" ELSE "bne")
      r == Gen(t, n.r)
  IN PatchBranch(r, HoleAt(t), E(r) + 1)

GenBinary(s, n) ==
  LET r == Gen(EmitPush(Gen(s, n.l), 0), n.r)
  IN IF n.k \in DOMAIN FloatOper \cup {"EqF", "NeF"} THEN EmitFloatOper(r, n.k) ELSE EmitOper(r, n.k)

GenCall(s, n) ==
  LET pushed == FoldLeft(LAMBDA t, a : EmitPush(Gen(t, a), 0), s, n.args)
  IN IF n.k = "Syscall" THEN EmitSyscall(pushed, n.f, n.types)
     ELSE EmitAdjustStack(EmitCall(pushed, n.f), Len(n.args))

\* The breaks and continues of a loop or switch are its own; those of the ones around it come back.
Inside(s) == [s EXCEPT !.brks = {}, !.cnts = {}]
ContinueHere(s, outer) == [PatchAll(s, s.cnts) EXCEPT !.cnts = outer.cnts]
BreakHere(s, outer) == [PatchAll(s, s.brks) EXCEPT !.brks = outer.brks]

GenWhile(s, n) ==
  LET in == Inside(IF n.k = "While" THEN EmitHole(s) ELSE s)
      body == Gen(in, n.body)
      test == IF n.k = "While" THEN PatchBranch(body, HoleAt(in), E(body) + 1) ELSE body
      cond == CompareZero(Gen(ContinueHere(test, s), n.cond))
  IN BreakHere(EmitCondBranch(cond, E(in) - 1, "bne"), s)

GenFor(s, n) ==
  LET init == EmitHole(Gen(s, n.init))
      a == HoleAt(init)
      body == Gen(Inside(init), n.body)
      incr == Gen(ContinueHere(body, s), n.incr)
      test == PatchBranch(incr, a, E(incr) + 1)
      loop == IF n.cond = None THEN EmitBranch(test, a)
              ELSE EmitCondBranch(CompareZero(Gen(test, n.cond)), a, "bne")
  IN BreakHere(loop, s)

\* Variant: the value switched on stays on the stack.
GenSwitchKeeps(s, n) ==
  LET in == EmitHole(EmitPush(Gen(s, n.cond), 0))
      cas == Gen([in EXCEPT !.ecas = HoleAt(in), !.def = 0, !.brks = {}], n.cas)
      done == BreakHere(PatchBranch(cas, cas.ecas, (IF cas.def # 0 THEN cas.def ELSE E(cas)) + 1), s)
  IN [done EXCEPT !.def = s.def]
GenSwitch(s, n) ==
  LET in == EmitHole(EmitPush(Gen(s, n.cond), 0))
      cas == Gen([in EXCEPT !.ecas = HoleAt(in), !.def = 0, !.brks = {}], n.cas)
      done == BreakHere(PatchBranch(cas, cas.ecas, (IF cas.def # 0 THEN cas.def ELSE E(cas)) + 1), s)
  IN [EmitAdjustStack(done, 1) EXCEPT !.def = s.def]

GenCase(s, n) ==
  LET value == Gen(PatchBranch(s, s.ecas, E(s) + 1), n.v)
      cmp == EmitAll(value, <<Op("ldrsp", 3, 0, 0), Op("cmp", 0, 3, 0)>>)
      test == EmitHole(EmitCondBranch(cmp, E(cmp) + 2, "beq"))
      body == Gen([test EXCEPT !.ecas = HoleAt(test)], n.x)
  IN IF n.x.k = "Switch" THEN [body EXCEPT !.ecas = HoleAt(test)] ELSE body

LabelOf(s, l) == IF l \in DOMAIN s.labels THEN s.labels[l] ELSE [at |-> 0, forward |-> {}]
WithLabel(s, l, v) == [s EXCEPT !.labels = [x \in DOMAIN @ \cup {l} |-> IF x = l THEN v ELSE @[x]]]
GenGoto(s, n) ==
  LET l == LabelOf(s, n.l)
      t == EmitHole(s)
  IN IF l.at = 0 THEN WithLabel(t, n.l, [l EXCEPT !.forward = @ \cup {HoleAt(t)}]) ELSE EmitBranch(s, l.at - 1)
GenLabel(s, n) ==
  LET l == LabelOf(s, n.l)
  IN IF l.at # 0 THEN Fatal(s, "duplicate label definition")
     ELSE WithLabel(PatchAll(s, l.forward), n.l, [at |-> E(s), forward |-> {}])

GenJump(s, n) ==
  LET t == EmitHole(s)
  IN IF n.k = "Break" THEN [t EXCEPT !.brks = @ \cup {HoleAt(t)}] ELSE [t EXCEPT !.cnts = @ \cup {HoleAt(t)}]

GenEnter(s, n) == PatchPcRelative(EmitLeave(Gen(EmitEnter(s, n.n), n.x)), FALSE)

Gen(s0, n) ==
  LET s == CheckPcRelative(s0)
  IN CASE s.err # "" \/ n.k = ";" -> s
       [] n.k \in {"Num", "NumF"} -> EmitLoadImmediate(s, 0, n.v)
       [] n.k = "Load" -> IF n.t > ATOM_TYPE /\ n.t < PTR THEN Fatal(s, "struct copies not yet supported")
                          ELSE EmitLoad(Gen(s, n.x), IsChar(n.t))
       [] n.k = "Loc" -> EmitLoadAddr(s, n.v)
       [] n.k = "{" -> Gen(Gen(s, n.a), n.b)
       [] n.k = "Assign" -> GenAssign(s, n)
       [] n.k \in {"Inc", "Dec"} -> GenStep(s, n)
       [] n.k = "Cond" -> GenCond(s, n)
       [] n.k \in {"Lor", "Lan"} -> GenShortCircuit(s, n)
       [] n.k \in DOMAIN OperCode \cup DOMAIN FloatOper \cup {"Div", "Mod", "EqF", "NeF"} -> GenBinary(s, n)
       [] n.k = "CastF" -> EmitFop(Gen(s, n.x), IF n.way = "ITOF" THEN "i2f" ELSE "f2iz")
       [] n.k \in {"Func", "Syscall"} -> GenCall(s, n)
       [] n.k \in {"While", "DoWhile"} -> GenWhile(s, n)
       [] n.k = "For" -> GenFor(s, n)
       [] n.k = "Switch" -> GenSwitch(s, n)
       [] n.k = "Case" -> GenCase(s, n)
       [] n.k \in {"Break", "Continue"} -> GenJump(s, n)
       [] n.k = "Goto" -> GenGoto(s, n)
       [] n.k = "Label" -> GenLabel(s, n)
       [] n.k = "Default" -> Gen([s EXCEPT !.def = E(s)], n.x)
       [] n.k = "Return" -> EmitLeave(IF n.x = None THEN s ELSE Gen(s, n.x))
       [] n.k = "Enter" -> GenEnter(s, n)

=============================================================================
