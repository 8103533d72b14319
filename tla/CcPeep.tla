------------------------------- MODULE CcPeep -------------------------------
(***************************************************************************)
(* The peephole optimizer of cc/cc_peep.c: after each instruction emitted, *)
(* the last ones are compared with the patterns of a table, and replaced.  *)
(***************************************************************************)
EXTENDS CcTarget

AnyReg == -1
Byte == 0 .. 255
\* An element of a pattern: registers or AnyReg, and the numbers it allows.
Pat(op, d, m, nums) == [op |-> op, d |-> d, m |-> m, nums |-> nums]
\* An element of a replacement: its number is its own, or (from # 0) that of an instruction of the
\* pattern, and so is a register that is AnyReg.
Rep(op, d, m, i, from) == [op |-> op, d |-> d, m |-> m, i |-> i, from |-> from]

MovFrame == Pat("mov", 0, 7, {0})    \* mov r0,r7
PushR0 == Pat("push", 0, 0, {0})
MovsR0 == Pat("movi", 0, 0, Byte)    \* movs r0,#n
PopReg(r) == Pat("pop", r, 0, {0})
LdrR0R0 == Pat("ldr", 0, 0, {0})     \* ldr r0,[r0,#0]
Subs(nums) == Pat("subi", 0, 0, nums)

\* segments, in its order
Segments == <<
  [pat |-> <<MovFrame, PushR0, MovsR0, PopReg(3)>>,
   rep |-> <<Rep("mov", 3, 7, 0, 0), Rep("movi", 0, 0, 0, 3)>>],
  [pat |-> <<Pat("ldr", AnyReg, AnyReg, {0, 4, 8, 12}), PushR0, MovsR0, PopReg(3)>>,
   rep |-> <<Rep("ldr", 3, AnyReg, 0, 1), Rep("movi", 0, 0, 0, 3)>>],
  [pat |-> <<MovsR0, Pat("neg", 0, 0, {0}), Pat("addr7", 0, 7, {0})>>,
   rep |-> <<Rep("mov", 0, 7, 0, 0), Rep("subi", 0, 0, 0, 1)>>],
  [pat |-> <<PushR0, PopReg(0)>>, rep |-> <<>>],
  [pat |-> <<MovsR0, PushR0, PopReg(1)>>, rep |-> <<Rep("movi", 1, 0, 0, 1)>>],
  [pat |-> <<MovFrame, Subs({4}), PushR0, MovsR0, PopReg(3)>>,
   rep |-> <<Rep("subi", 3, 7, 4, 0), Rep("movi", 0, 0, 0, 4)>>],
  [pat |-> <<MovFrame, Subs(Byte), PushR0, MovsR0, PopReg(3)>>,
   rep |-> <<Rep("mov", 3, 7, 0, 0), Rep("subi", 3, 3, 0, 2), Rep("movi", 0, 0, 0, 4)>>],
  [pat |-> <<MovFrame, LdrR0R0>>, rep |-> <<Rep("ldr", 0, 7, 0, 0)>>],
  [pat |-> <<Pat("movi", 0, 0, {4}), Pat("mul", 0, 3, {0})>>, rep |-> <<Rep("lsli", 0, 3, 2, 0)>>],
  [pat |-> <<MovFrame, Subs({4})>>, rep |-> <<Rep("subi", 0, 7, 4, 0)>>],
  [pat |-> <<PushR0, MovsR0, PopReg(1)>>, rep |-> <<Rep("mov", 1, 0, 0, 0), Rep("movi", 0, 0, 0, 2)>>],
  [pat |-> <<PushR0, PopReg(1)>>, rep |-> <<Rep("mov", 1, 0, 0, 0)>>],
  [pat |-> <<Pat("movi", 0, 0, {n \in 0 .. 127 : n % 4 = 0}), Pat("addr7", 0, 7, {0}), LdrR0R0>>,
   rep |-> <<Rep("ldr", 0, 7, 0, 1)>>]>>

Fits(i, p) ==
  /\ i.op = p.op /\ p.d \in {i.d, AnyReg}
  /\ p.m \in {i.m, AnyReg} /\ i.i \in p.nums

\* Whether the last instructions are those of a segment.
Matches(code, s) ==
  LET l == Len(s.pat)  at == Len(code) - l
  IN at >= 0 /\ \A k \in 1 .. l : Fits(code[at + k], s.pat[k])

\* peep_hole(): they are replaced by the segment's.
PeepHole(code, s) ==
  LET at == Len(code) - Len(s.pat)
      new(r) == Op(r.op, r.d, IF r.m = AnyReg THEN code[at + r.from].m ELSE r.m,
                   IF r.from = 0 THEN r.i ELSE code[at + r.from].i)
  IN SubSeq(code, 1, at) \o [k \in DOMAIN s.rep |-> new(s.rep[k])]

\* peep(): the first segment that fits, again from the first one until none does.  Of the places
\* branches have been directed to (marks), over tells whether one was inside what was replaced.
RECURSIVE Peep(_, _, _)
Peep(code, marks, over) ==
  LET fit == {k \in DOMAIN Segments : Matches(code, Segments[k])}
  IN IF fit = {} THEN [code |-> code, over |-> over]
     ELSE LET s == Segments[Min(fit)]
              at == Len(code) - Len(s.pat)
          IN Peep(PeepHole(code, s), marks, over \/ \E t \in marks : t > at + 1 /\ t <= Len(code))

=============================================================================
