------------------------------- MODULE CcLang -------------------------------
(***************************************************************************)
(* The language of the programs the compiler is given, and what they mean: *)
(* trees of C, the tokens they are written with, and an evaluator that     *)
(* says what C has them do.  Nothing here is code of the compiler.  The    *)
(* evaluator also notes undefined behaviour and, by name, each departure   *)
(* from C the compiler is known to make (slips): a program that meets one  *)
(* promises nothing about the compiled code.                               *)
(***************************************************************************)
EXTENDS CcStmt

(***************************************************************************)
(* Trees                                                                   *)
(***************************************************************************)
N(v) == [k |-> "N", v |-> v]
Fl(v) == [k |-> "F", v |-> v]
V(x) == [k |-> "V", x |-> x]
U(op, e) == [k |-> "U", op |-> op, e |-> e]
B(op, l, r) == [k |-> "B", op |-> op, l |-> l, r |-> r]
A(op, l, r) == [k |-> "A", op |-> op, l |-> l, r |-> r]
Pre(op, e) == [k |-> "Pre", op |-> op, e |-> e]
Post(op, e) == [k |-> "Post", op |-> op, e |-> e]
Q(c, a, b) == [k |-> "Q", c |-> c, a |-> a, b |-> b]
Comma(a, b) == [k |-> "Comma", a |-> a, b |-> b]
Apply(f, args) == [k |-> "Apply", f |-> f, args |-> args]
Idx(e, i) == [k |-> "Idx", e |-> e, i |-> i]
Dot(e, x) == [k |-> "Dot", e |-> e, x |-> x]
Arrow(e, x) == [k |-> "Arrow", e |-> e, x |-> x]
To(t, e) == [k |-> "To", t |-> t, e |-> e]
SizeT(t) == [k |-> "SizeT", t |-> t]

Do(e) == [k |-> "do", e |-> e]
\* a variable of type t, an array if it has dims, with a list of values, a value or none
Var(t, x, dims, init) == [k |-> "var", t |-> t, x |-> x, dims |-> dims, init |-> init]
Int1(x, e) == Var(INT, x, <<>>, <<e>>)
If(c, a) == [k |-> "if", c |-> c, a |-> a, b |-> <<>>]
IfElse(c, a, b) == [k |-> "if", c |-> c, a |-> a, b |-> <<b>>]
While(c, s) == [k |-> "while", c |-> c, s |-> s]
DoWhile(s, c) == [k |-> "dowhile", c |-> c, s |-> s]
For(init, c, incr, s) == [k |-> "for", init |-> init, c |-> c, incr |-> incr, s |-> s] \* lists of expressions
Switch(e, ss) == [k |-> "switch", e |-> e, ss |-> ss]
Case(v, s) == [k |-> "case", v |-> v, s |-> s]
Default(s) == [k |-> "default", s |-> s]
Block(ss) == [k |-> "block", ss |-> ss]
Ret(e) == [k |-> "return", e |-> <<e>>]
RetVoid == [k |-> "return", e |-> <<>>]
Break == [k |-> "break"]
Continue == [k |-> "continue"]
Goto(l) == [k |-> "goto", l |-> l]
Label(l, s) == [k |-> "label", l |-> l, s |-> s]
Nothing == [k |-> "nothing"]

\* The parts of a program, in its order.  VOID is a function's type only.
VOID == -4
Par(t, x) == [t |-> t, x |-> x]
Fun(t, f, pars, ss) == [k |-> "fun", t |-> t, f |-> f, pars |-> pars, ss |-> ss]
Proto(t, f, pars) == [k |-> "proto", t |-> t, f |-> f, pars |-> pars]
Struct(x, members) == [k |-> "struct", x |-> x, members |-> members] \* members as Var, without values
Main(ss) == Fun(INT, "main", <<>>, ss)
STRUCT1 == 12 \* the type of the first structure declared

(***************************************************************************)
(* Tokens                                                                  *)
(***************************************************************************)
Prec == [Lor |-> 3, Lan |-> 4, Or |-> 5, Xor |-> 6, And |-> 7, Eq |-> 8, Ne |-> 8, Ge |-> 9, Lt |-> 9, Gt |-> 9, Le |-> 9,
         Shl |-> 10, Shr |-> 10, Add |-> 11, Sub |-> 11, Mul |-> 12, Div |-> 12, Mod |-> 12]
PrecOf(e) ==
  CASE e.k = "B" -> Prec[e.op] [] e.k = "A" -> 1 [] e.k = "Q" -> 2 [] e.k = "Comma" -> 0
    [] e.k \in {"U", "Pre", "To"} -> 13 [] OTHER -> 14

Closed(open, ts, close) == <<Tok(open)>> \o ts \o <<Tok(close)>>
Joined(parts) == FlattenSeq([k \in DOMAIN parts |-> IF k = 1 THEN parts[k] ELSE <<Tok(",")>> \o parts[k]])
TypeToks(t) ==
  LET base == t % PTR
  IN (IF t = VOID THEN <<Tok("Void")>>
      ELSE CASE base = CHAR -> <<Tok("Char")>> [] base = INT -> <<Tok("Int")>> [] base = FLOAT -> <<Tok("Float")>>
             [] OTHER -> <<Tok("Struct"), IdTok("S")>>)
     \o [k \in 1 .. (IF t = VOID THEN 0 ELSE t \div PTR) |-> Tok("Mul")]

RECURSIVE Toks(_, _)
Toks(e, lev) ==
  LET list(es) == Joined([k \in DOMAIN es |-> Toks(es[k], 1)])
      ts == CASE e.k = "N" -> <<NumTok(e.v)>>
              [] e.k = "F" -> <<[Tok("NumF") EXCEPT !.v = FloatBits(e.v)]>>
              [] e.k = "V" -> <<IdTok(e.x)>>
              [] e.k \in {"U", "Pre"} -> <<Tok(e.op)>> \o Toks(e.e, 13)
              [] e.k = "Post" -> Toks(e.e, 14) \o <<Tok(e.op)>>
              [] e.k = "B" -> Toks(e.l, Prec[e.op]) \o <<Tok(e.op)>> \o Toks(e.r, Prec[e.op] + 1)
              [] e.k = "A" -> Toks(e.l, 13) \o <<Tok(e.op)>> \o Toks(e.r, 1)
              [] e.k = "Q" -> Toks(e.c, 3) \o Closed("Cond", Toks(e.a, 1), ":") \o Toks(e.b, 2)
              [] e.k = "Comma" -> Toks(e.a, 1) \o <<Tok(",")>> \o Toks(e.b, 1)
              [] e.k = "Apply" -> <<IdTok(e.f)>> \o Closed("(", list(e.args), ")")
              [] e.k = "Idx" -> Toks(e.e, 14) \o Closed("Bracket", Toks(e.i, 0), "]")
              [] e.k = "Dot" -> Toks(e.e, 14) \o <<Tok("Dot"), IdTok(e.x)>>
              [] e.k = "Arrow" -> Toks(e.e, 14) \o <<Tok("Arrow"), IdTok(e.x)>>
              [] e.k = "To" -> Closed("(", TypeToks(e.t), ")") \o Toks(e.e, 13)
              [] e.k = "SizeT" -> <<Tok("Sizeof")>> \o Closed("(", TypeToks(e.t), ")")
  IN IF PrecOf(e) < lev THEN Closed("(", ts, ")") ELSE ts

VarToks(d) ==
  TypeToks(d.t) \o <<IdTok(d.x)>> \o FlattenSeq([k \in DOMAIN d.dims |-> Closed("Bracket", <<NumTok(d.dims[k])>>, "]")])
  \o (IF d.init = <<>> THEN <<>>
      ELSE <<Tok("Assign")>> \o (IF d.dims = <<>> THEN Toks(d.init[1], 1)
                                 ELSE Closed("{", Joined([k \in DOMAIN d.init |-> Toks(d.init[k], 1)]), "}")))
  \o <<Tok(";")>>

RECURSIVE StmtToks(_)
StmtToks(s) ==
  LET block(ss) == Closed("{", FlattenSeq([k \in DOMAIN ss |-> StmtToks(ss[k])]), "}")
      list(es) == Joined([k \in DOMAIN es |-> Toks(es[k], 1)])
      test == Closed("(", Toks(s.c, 0), ")")
  IN CASE s.k = "do" -> Toks(s.e, 0) \o <<Tok(";")>>
       [] s.k = "var" -> VarToks(s)
       [] s.k = "if" -> <<Tok("If")>> \o test \o StmtToks(s.a)
                        \o (IF s.b = <<>> THEN <<>> ELSE <<Tok("Else")>> \o StmtToks(s.b[1]))
       [] s.k = "while" -> <<Tok("While")>> \o test \o StmtToks(s.s)
       [] s.k = "dowhile" -> <<Tok("DoWhile")>> \o StmtToks(s.s) \o <<Tok("While")>> \o test \o <<Tok(";")>>
       [] s.k = "for" -> <<Tok("For")>> \o Closed("(", list(s.init) \o Closed(";", list(s.c), ";") \o list(s.incr), ")")
                         \o StmtToks(s.s)
       [] s.k = "switch" -> <<Tok("Switch")>> \o Closed("(", Toks(s.e, 0), ")") \o block(s.ss)
       [] s.k = "case" -> Closed("Case", <<NumTok(s.v)>>, ":") \o StmtToks(s.s)
       [] s.k = "default" -> <<Tok("Default"), Tok(":")>> \o StmtToks(s.s)
       [] s.k = "block" -> block(s.ss)
       [] s.k = "return" -> Closed("Return", list(s.e), ";")
       [] s.k = "break" -> <<Tok("Break"), Tok(";")>>
       [] s.k = "continue" -> <<Tok("Continue"), Tok(";")>>
       [] s.k = "goto" -> <<Tok("Goto"), IdTok(s.l), Tok(";")>>
       [] s.k = "label" -> <<IdTok(s.l), Tok(":")>> \o StmtToks(s.s)
       [] s.k = "nothing" -> <<Tok(";")>>
       [] s.k = "struct" -> <<Tok("Struct"), IdTok(s.x)>>
                            \o Closed("{", FlattenSeq([k \in DOMAIN s.members |-> VarToks(s.members[k])]), "}") \o <<Tok(";")>>
       [] s.k \in {"fun", "proto"} ->
            TypeToks(s.t) \o <<IdTok(s.f)>>
            \o Closed("(", Joined([k \in DOMAIN s.pars |-> TypeToks(s.pars[k].t) \o <<IdTok(s.pars[k].x)>>]), ")")
            \o (IF s.k = "fun" THEN block(s.ss) ELSE <<Tok(";")>>)
Tokens(program) == FlattenSeq([k \in DOMAIN program |-> StmtToks(program[k])])

(***************************************************************************)
(* What C has a program do.  st: the variables in scope, the memory, what  *)
(* was written, and where control goes (sig).  A value has its type and,   *)
(* for an array, its extents.                                              *)
(***************************************************************************)
RECURSIVE Ev(_, _)
RECURSIVE Run(_, _)
RECURSIVE RunAll(_, _, _)

Val(st, v, t) == [st |-> st, v |-> v, t |-> t, d |-> <<>>]
Slip(st, cond, name) == IF cond THEN [st EXCEPT !.slips = @ \cup {name}] ELSE st
UndefinedIf(st, cond) == IF cond THEN [st EXCEPT !.undefined = TRUE] ELSE st
SizeC(st, t, d) == Volume(d) * (IF t >= PTR \/ t \in {INT, FLOAT} THEN 4 ELSE IF t = CHAR THEN 1 ELSE st.structs.size)
Pointed(r) == IF r.d # <<>> THEN [r EXCEPT !.t = @ + PTR, !.d = <<>>] ELSE r
Converted(st, v, from, to) ==
  IF to = FLOAT /\ from < FLOAT THEN FloatBits(v)
  ELSE IF from = FLOAT /\ to < FLOAT THEN (IF to = CHAR THEN CharOf(FloatValue(v), st.uchar) ELSE FloatValue(v))
  ELSE IF to = CHAR THEN CharOf(v, st.uchar) ELSE v
IsTrue(r) == IF r.t = FLOAT THEN FloatValue(r.v) # 0 ELSE r.v # 0
\* A float that is zero and not all bits zero is true to the compiler.
Tested(r) == Slip(r.st, r.t = FLOAT /\ r.v = MinusZero, "minus zero")

\* A variable that hides a global or a function of another type, which that then keeps.
HidesType(st, x, t) ==
  \/ x \in DOMAIN st.globals /\ (st.globals[x].t # t \/ st.globals[x].d # <<>>)
  \/ x \in DOMAIN st.funs /\ st.funs[x].t # t

\* Where an expression's object is.
Place(e, st) ==
  CASE e.k = "V" -> LET o == st.vars[e.x] IN [st |-> st, v |-> o.a, t |-> o.t, d |-> o.d]
    [] e.k = "U" -> LET r == Pointed(Ev(e.e, st)) IN [r EXCEPT !.t = @ - PTR]
    [] e.k = "Idx" ->
         LET a == Ev(e.e, st)  i == Ev(e.i, a.st)
             elem == IF a.d = <<>> THEN [t |-> a.t - PTR, d |-> <<>>] ELSE [t |-> a.t, d |-> Tail(a.d)]
         IN [st |-> i.st, v |-> a.v + i.v * SizeC(st, elem.t, elem.d), t |-> elem.t, d |-> elem.d]
    [] e.k \in {"Dot", "Arrow"} ->
         LET r == IF e.k = "Dot" THEN [st |-> st, v |-> st.vars[e.e.x].a] ELSE Ev(e.e, st)
             m == st.structs.members[e.x]
         IN [st |-> r.st, v |-> r.v + m.o, t |-> m.t, d |-> m.d]
Loaded(o) ==
  IF o.d # <<>> THEN o
  ELSE IF o.v \in DOMAIN o.st.mem THEN Val(o.st, o.st.mem[o.v], o.t) ELSE Val(UndefinedIf(o.st, TRUE), 0, o.t)
Stored(o, v) ==
  IF o.v \in DOMAIN o.st.mem THEN [o.st EXCEPT !.mem[o.v] = v] ELSE UndefinedIf(o.st, TRUE)

RECURSIVE IsConst(_)
IsConst(e) == \/ e.k \in {"N", "F", "SizeT"} \/ (e.k \in {"U", "To"} /\ e.k # "V" /\ IsConst(e.e)) \/ (e.k = "B" /\ IsConst(e.l) /\ IsConst(e.r))

\* l op r, on two floats, a pointer and an int, two pointers, or ints.  shifted: the divisor is a literal.
Arith(st, op, l, r, shifted) ==
  LET lp == l.t >= PTR  rp == r.t >= PTR
      step(t) == SizeC(st, t - PTR, <<>>)
      x == l.v  y == r.v
      fx == FloatValue(x)  fy == FloatValue(y)
      divides == op \in {"Div", "Mod"}
      undefined == \/ divides /\ (y = 0 \/ (x = MinInt /\ y = -1))
                   \/ op \in {"Shl", "Shr"} /\ y \notin 0 .. WordBits - 1
      st1 == Slip(UndefinedIf(st, undefined), divides /\ shifted /\ x < 0 /\ y > 0 /\ IsPowerOf2(y), "shift divides")
  IN IF l.t = FLOAT
     THEN IF op \in {"Eq", "Ne"} THEN Val(Slip(st, fx = fy /\ x # y, "minus zero"), Folded(op, fx, fy), INT)
          ELSE IF op \in Relations
          THEN Val(Slip(st, op \in {"Lt", "Gt"} /\ fx = fy, "equal floats"), Folded(op, fx, fy), INT)
          ELSE Val(UndefinedIf(st, op = "Div" /\ fy = 0),
                   FopResult(CASE op = "Add" -> "fadd" [] op = "Sub" -> "fsub" [] op = "Mul" -> "fmul" [] op = "Div" -> "fdiv",
                             x, y)[1], FLOAT)
     ELSE IF op = "Add" /\ lp THEN Val(st, x + y * step(l.t), l.t)
     ELSE IF op = "Add" /\ rp THEN Val(st, x * step(r.t) + y, r.t)
     ELSE IF op = "Sub" /\ rp THEN Val(st, (x - y) \div step(l.t), INT)
     ELSE IF op = "Sub" /\ lp THEN Val(st, x - y * step(l.t), l.t)
     ELSE IF undefined THEN Val(st1, 0, INT)
     ELSE Val(st1, Folded(op, x, y), INT)

\* An assignment, and the step of ++ and --: the value left in the object.
AssignC(e, st) ==
  LET o == Place(e.l, st)
      r == Pointed(Ev(e.r, o.st))
      old == Loaded([o EXCEPT !.st = r.st])
      v == IF e.op = "Assign" THEN r ELSE Arith(r.st, CompoundOf[e.op], old, r, IsConst(e.r))
      st1 == Slip(IF e.op = "Assign" THEN r.st ELSE Slip(v.st, old.st.undefined, "undefined"),
                  {v.t, o.t} = {CHAR, FLOAT}, "char and float")
      c == Converted(st1, v.v, v.t, o.t)
  IN [st |-> Stored([o EXCEPT !.st = st1], c), v |-> c, t |-> o.t, d |-> <<>>, raw |-> v.v]
StepC(e, st) ==
  LET o == Place(e.e, st)
      old == Loaded(o)
      new == Arith(old.st, IF e.op = "Inc" THEN "Add" ELSE "Sub", old, Val(st, 1, INT), FALSE).v
      c == Converted(st, new, o.t, o.t)
  IN [st |-> Stored([o EXCEPT !.st = old.st], c), v |-> c, t |-> o.t, d |-> <<>>, old |-> old.v, raw |-> new]

\* Arguments from left to right.
RECURSIVE EvAll(_, _, _)
EvAll(es, st, vs) ==
  IF es = <<>> THEN [st |-> st, vs |-> vs]
  ELSE LET r == Pointed(Ev(Head(es), st)) IN EvAll(Tail(es), r.st, Append(vs, r))
ApplyC(e, st) ==
  LET a == EvAll(e.args, st, <<>>)
      vs == [k \in DOMAIN a.vs |-> a.vs[k].v]
      f == st.funs[e.f]
      pars == DOMAIN f.pars
      at(k) == a.st.top + 4 * k
      object(k) == [a |-> at(k), t |-> f.pars[k].t, d |-> <<>>]
      index(x) == CHOOSE k \in pars : f.pars[k].x = x
      in == [a.st EXCEPT !.vars = [x \in DOMAIN st.globals \cup {f.pars[k].x : k \in pars} |->
                                     IF \E k \in pars : f.pars[k].x = x THEN object(index(x)) ELSE st.globals[x]],
                         !.mem = [x \in DOMAIN @ \cup {at(k) : k \in pars} |->
                                    IF x \in DOMAIN @ THEN @[x]
                                    ELSE LET k == (x - a.st.top) \div 4
                                         IN Converted(st, vs[k], a.vs[k].t, f.pars[k].t)],
                         !.top = @ + 4 * Len(f.pars) + 4, !.fuel = @ - 1, !.ret = 0]
      out == RunAll(f.ss, Slip(in, \E k \in pars : HidesType(st, f.pars[k].x, f.pars[k].t), "hidden type"), 1)
      v == Converted(st, out.ret, f.t, f.t)
  IN IF e.f \in DOMAIN Externs
     THEN Val(Slip([a.st EXCEPT !.out = Append(@, <<e.f, vs>>)], Len(vs) > 3 /\ ~Externs[e.f].prints, "many arguments"),
              vs[Len(vs)], IF Externs[e.f].retFloat THEN FLOAT ELSE INT)
     ELSE IF a.st.fuel = 0 THEN Val(UndefinedIf(a.st, TRUE), 0, f.t)
     ELSE Val(Slip([out EXCEPT !.vars = st.vars, !.sig = "", !.switches = st.switches], v # out.ret, "char value"), v, f.t)

UnaryC(op, r) ==
  CASE op = "!" -> Val(Tested(r), Truth(~IsTrue(r)), INT)
    [] op = "~" -> Val(r.st, -1 - r.v, INT)
    [] op = "Add" -> r
    [] op = "Sub" -> Val(r.st, IF r.t = FLOAT THEN FloatNegated(r.v) ELSE Wrap(-r.v), r.t)

Ev(e, st) ==
  CASE e.k = "N" -> Val(st, e.v, INT)
    [] e.k = "F" -> Val(st, FloatBits(e.v), FLOAT)
    [] e.k = "SizeT" -> Val(st, SizeC(st, e.t, <<>>), INT)
    [] e.k \in {"V", "Idx", "Dot", "Arrow"} \/ (e.k = "U" /\ e.op = "Mul") -> Loaded(Place(e, st))
    [] e.k = "U" /\ e.op = "And" -> LET o == Place(e.e, st) IN Val(o.st, o.v, o.t + PTR)
    [] e.k = "U" -> UnaryC(e.op, Ev(e.e, st))
    [] e.k = "B" /\ e.op \in {"Lor", "Lan"} ->
         LET l == Ev(e.l, st)
             decided == IsTrue(l) = (e.op = "Lor")
             r == IF decided THEN l ELSE Ev(e.r, Tested(l))
         IN Val(Slip(Tested(r), IsTrue(r) /\ r.v # 1, "truth value"), Truth(IsTrue(r)), INT)
    [] e.k = "B" -> LET l == Pointed(Ev(e.l, st))  r == Pointed(Ev(e.r, l.st))
                    IN Arith(r.st, e.op, l, r, IsConst(e.r) /\ ~IsConst(e.l))
    [] e.k = "A" -> LET r == AssignC(e, st) IN Val(Slip(r.st, r.t = CHAR /\ r.v # r.raw, "char value"), r.v, r.t)
    [] e.k = "Pre" -> LET r == StepC(e, st) IN Val(Slip(r.st, r.v # r.raw, "char value"), r.v, r.t)
    [] e.k = "Post" -> LET r == StepC(e, st) IN Val(r.st, r.old, r.t)
    [] e.k = "Q" -> LET c == Ev(e.c, st) IN Pointed(Ev(IF IsTrue(c) THEN e.a ELSE e.b, Tested(c)))
    [] e.k = "Comma" -> LET a == Ev(e.a, st) IN Ev(e.b, a.st)
    [] e.k = "Apply" -> ApplyC(e, st)
    [] e.k = "To" -> LET r == Pointed(Ev(e.e, st))
                         v == Converted(st, r.v, r.t, e.t)
                     IN Val(Slip(r.st, e.t = CHAR /\ v # (IF r.t = FLOAT THEN FloatValue(r.v) ELSE r.v), "char value"), v, e.t)

\* An expression whose value is not used.
Effect(e, st) == CASE e.k = "A" -> AssignC(e, st).st [] e.k \in {"Pre", "Post"} -> StepC(e, st).st [] OTHER -> Ev(e, st).st
Effects(es, st) == FoldLeft(LAMBDA t, e : Effect(e, t), st, es)

\* A variable in scope from here on; without values its memory holds nothing defined.
Declare(d, st) ==
  LET size == SizeC(st, d.t, d.dims)
      step == IF d.dims # <<>> THEN SizeC(st, d.t, <<>>) ELSE 4
      es == EvAll(d.init, st, <<>>)
      v(k) == Converted(st, es.vs[k].v, es.vs[k].t, d.t)
      mixed == \E k \in DOMAIN es.vs : {es.vs[k].t, d.t} = {CHAR, FLOAT}
      cells == {st.top + step * k : k \in 0 .. size \div step - (IF size % step = 0 THEN 1 ELSE 0)}
      t == Slip(IF d.init = <<>> THEN st ELSE Slip(es.st, mixed, "char and float"), HidesType(st, d.x, d.t), "hidden type")
  IN [t EXCEPT !.vars = [x \in DOMAIN @ \cup {d.x} |-> IF x = d.x THEN [a |-> st.top, t |-> d.t, d |-> d.dims] ELSE @[x]],
               !.top = @ + 4 * Words(size) + 4,
               !.mem = [a \in DOMAIN @ \cup cells |->
                          IF a \notin cells THEN @[a]
                          ELSE LET k == (a - st.top) \div step + 1 IN IF k <= Len(d.init) THEN v(k) ELSE 0]]

RECURSIVE Labels(_)
Labels(s) == CASE s.k = "case" -> {s.v} \cup Labels(s.s) [] s.k = "default" -> Labels(s.s) [] OTHER -> {}
RECURSIVE IsDefault(_)
IsDefault(s) == s.k = "default" \/ (s.k = "case" /\ IsDefault(s.s))

\* The statements from the k-th on, until one sends control elsewhere; a goto finds its label here or further out.
RunAll(ss, st, k) ==
  IF k > Len(ss) THEN st
  ELSE LET t == Run(ss[k], st)
           here == {j \in DOMAIN ss : t.sig = "goto" /\ ss[j].k = "label" /\ ss[j].l = t.to}
       IN IF t.undefined THEN t
          ELSE IF here # {} THEN RunAll(ss, Slip([t EXCEPT !.sig = "", !.fuel = @ - 1], t.switches > st.switches, "leaves switch"), Min(here))
          ELSE IF t.sig # "" THEN t
          ELSE RunAll(ss, t, k + 1)

\* A loop: the condition or what precedes it, the body, what follows it.
RECURSIVE Loop(_, _, _, _, _)
Loop(c, s, incr, st, tested) ==
  LET r == IF c = <<>> \/ tested THEN Val(st, 1, INT) ELSE Ev(c[1], st)
      t == Run(s, Tested(r))
  IN IF st.fuel = 0 THEN UndefinedIf(st, TRUE)
     ELSE IF ~IsTrue(r) THEN Tested(r)
     ELSE IF t.undefined \/ t.sig \in {"return", "goto"} THEN t
     ELSE IF t.sig = "break" THEN [t EXCEPT !.sig = ""]
     ELSE Loop(c, s, incr, Effects(incr, [t EXCEPT !.sig = "", !.fuel = @ - 1, !.switches = st.switches]), FALSE)

RunSwitch(s, st) ==
  LET r == Ev(s.e, st)
      matching == {k \in DOMAIN s.ss : r.v \in Labels(s.ss[k])}
      defaults == {k \in DOMAIN s.ss : IsDefault(s.ss[k])}
      at == IF matching # {} THEN Min(matching) ELSE IF defaults # {} THEN Min(defaults) ELSE Len(s.ss) + 1
      t == RunAll(s.ss, [r.st EXCEPT !.switches = @ + 1], at)
      \* control came past a later case label, or entered by one of several labels of a statement
      reached == {k \in at + 1 .. Len(s.ss) : Labels(s.ss[k]) # {}}
      stops == \E k \in at .. (IF reached = {} THEN Len(s.ss) ELSE Min(reached) - 1) : s.ss[k].k \in {"break", "return", "continue", "goto"}
      twice == at <= Len(s.ss) /\ Cardinality(Labels(s.ss[at])) > 1
      u == Slip(Slip(t, (reached # {} /\ ~stops) \/ twice, "falls through"), t.sig = "continue", "leaves switch")
  IN [u EXCEPT !.sig = IF @ = "break" THEN "" ELSE @, !.switches = IF u.sig \in {"goto", "continue"} THEN @ ELSE st.switches]

Run(s, st) ==
  LET scoped(t) == [t EXCEPT !.vars = st.vars]
  IN CASE s.k = "do" -> Effect(s.e, st)
       [] s.k = "var" -> Declare(s, st)
       [] s.k = "if" -> LET c == Ev(s.c, st)
                        IN IF IsTrue(c) THEN Run(s.a, Tested(c)) ELSE IF s.b = <<>> THEN Tested(c) ELSE Run(s.b[1], Tested(c))
       [] s.k = "while" -> Loop(<<s.c>>, s.s, <<>>, st, FALSE)
       [] s.k = "dowhile" -> Loop(<<s.c>>, s.s, <<>>, st, TRUE)
       [] s.k = "for" -> Loop(s.c, s.s, s.incr, Effects(s.init, st), FALSE)
       [] s.k = "switch" -> scoped(RunSwitch(s, st))
       [] s.k \in {"case", "default", "label"} -> Run(s.s, st)
       [] s.k = "block" -> scoped(RunAll(s.ss, st, 1))
       [] s.k = "return" -> IF s.e = <<>> THEN [st EXCEPT !.sig = "return"]
                            ELSE LET r == Pointed(Ev(s.e[1], st)) IN [r.st EXCEPT !.ret = r.v, !.sig = "return"]
       [] s.k \in {"break", "continue"} -> [st EXCEPT !.sig = s.k]
       [] s.k = "goto" -> [st EXCEPT !.sig = "goto", !.to = s.l]
       [] s.k = "nothing" -> st

\* The structure's members, each at the next multiple of four.
Layout(st, s) ==
  LET size(d) == 4 * Words(SizeC(st, d.t, d.dims))
      offset(k) == FoldLeft(LAMBDA v, d : v + size(d), 0, SubSeq(s.members, 1, k - 1))
      number(x) == CHOOSE k \in DOMAIN s.members : s.members[k].x = x
  IN [size |-> offset(Len(s.members) + 1),
      members |-> [x \in {s.members[k].x : k \in DOMAIN s.members} |->
                     [o |-> offset(number(x)), t |-> s.members[number(x)].t, d |-> s.members[number(x)].dims]]]

Meaning(program, uchar, fuel) ==
  LET funs == {k \in DOMAIN program : program[k].k = "fun"}
      start == [vars |-> <<>>, globals |-> <<>>, mem |-> <<>>, top |-> 20000, out |-> <<>>, sig |-> "", to |-> "", ret |-> 0,
                structs |-> <<>>, switches |-> 0, uchar |-> uchar, fuel |-> fuel, undefined |-> FALSE, slips |-> {},
                funs |-> [f \in {program[k].f : k \in funs} \cup DOMAIN Externs |->
                            IF f \in DOMAIN Externs THEN Fun(INT, f, <<>>, <<>>)
                            ELSE program[CHOOSE k \in funs : program[k].f = f]]]
      part(st, d) == CASE d.k = "var" -> LET t == Declare(d, st) IN [t EXCEPT !.globals = t.vars]
                       [] d.k = "struct" -> [st EXCEPT !.structs = Layout(st, d)]
                       [] OTHER -> st
      r == ApplyC(Apply("main", <<>>), FoldLeft(part, start, program))
  IN [v |-> r.v, out |-> r.st.out, undefined |-> r.st.undefined, slips |-> r.st.slips]

\* What is left of a compilation when the program is executed or written.
Translated(program, opts) ==
  LET p == Compiled(Tokens(program), opts)
  IN [refusal |-> p.s.err, code |-> p.s.code, relocs |-> p.s.relocs, main |-> Sym(p, "main").val,
      data |-> p.globals, flags |-> [over |-> p.s.over, far |-> p.s.far, late |-> p.s.late]]

=============================================================================
