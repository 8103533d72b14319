------------------------------- MODULE CcStmt -------------------------------
(***************************************************************************)
(* Declarations, statements and functions: stmt() of cc/cc_parse.c, the    *)
(* table of symbols it fills and unwinds, and the loop of cc() over the    *)
(* program.  A statement leaves its tree in n; a declaration without an    *)
(* initializer leaves n as it was.                                         *)
(***************************************************************************)
EXTENDS CcParse

CONSTANT DataBytes \* the data segment: 16384

ASSUME Room == DataBytes \in Nat

RECURSIVE Stmt(_, _)

Words(size) == (size + 3) \div 4
Volume(dims) == FoldLeft(LAMBDA v, x : v * x, 1, dims)
Drop(p, q) == [q EXCEPT !.n = p.n] \* a literal taken off the tree again
Literal(p, msg) == IF Failed(p) \/ p.n.k \in {"Num", "NumF"} THEN p ELSE Err(p, msg)

(***************************************************************************)
(* Declarations                                                            *)
(***************************************************************************)
\* loc_array_decl(): up to three extents, of which a parameter's first may be missing.
RECURSIVE Extents(_, _, _)
Extents(p, dims, ctx) ==
  LET free == dims = <<>> /\ ctx = "Par" /\ T(Skip(p)) = "]"
      e == IF free THEN Node(Skip(p), Num(1), p.ty) ELSE Expr(Skip(p), "Cond")
      r == Drop(p, Expect(IF e.n.k = "Num" /\ e.n.v > 0 THEN e ELSE Err(e, "bad array size"), "]", "missing ]"))
  IN IF T(p) # "Bracket" THEN [p |-> p, dims |-> dims]
     ELSE IF Len(dims) = 3 THEN [p |-> Err(p, "three subscript max on decl"), dims |-> dims]
     ELSE IF Failed(r) THEN [p |-> r, dims |-> dims]
     ELSE Extents(r, Append(dims, e.n.v), ctx)

\* enum { names }, or a parameter of an enumeration's type.
RECURSIVE EnumNames(_, _)
EnumNames(p, i) ==
  LET x == p.toks[p.i].id
      e == IF T(Skip(p)) = "Assign" THEN Literal(Expr(Skip(Skip(p)), "Cond"), "bad enum initializer") ELSE Skip(p)
      v == IF T(Skip(p)) = "Assign" THEN e.n.v ELSE i
      named == SetSym(Drop(p, e), x, [Sym(e, x) EXCEPT !.class = "Num", !.type = INT, !.val = v])
  IN IF Failed(p) \/ T(p) = "}" THEN p
     ELSE IF T(p) # "Id" THEN Err(p, "bad enum identifier")
     ELSE IF Failed(e) THEN e
     ELSE EnumNames(IF T(e) = "," THEN Skip(named) ELSE named, v + 1)
EnumDecl(p0, ctx) ==
  LET p == IF T(Skip(p0)) = "Id" THEN Skip(Skip(p0)) ELSE Skip(p0)
      x == p.toks[p.i].id
  IN IF T(p) = "{" THEN Skip(EnumNames(Skip(p), 0))
     ELSE IF T(p) # "Id" THEN p
     ELSE IF ctx # "Par" THEN Err(p, "enum can only be declared as parameter")
     ELSE [SetSym(Skip(p), x, [Sym(p, x) EXCEPT !.type = INT, !.class = ctx, !.val = p.ld]) EXCEPT !.ld = @ + 1]

\* The type a member or a member's list of names begins with: a structure must be known.
MemberType(p) ==
  LET q == Skip(p)
      t == IF T(q) = "Id" THEN Sym(q, q.toks[q.i].id).type ELSE 0
  IN IF T(p) \in {"Struct", "Union"}
     THEN IF IsStruct(t) THEN [p |-> Skip(q), t |-> t] ELSE [p |-> Err(q, "bad struct/union declaration"), t |-> INT]
     ELSE IF T(p) \in DOMAIN BaseTypes THEN [p |-> q, t |-> BaseTypes[T(p)]]
     ELSE [p |-> p, t |-> INT]

\* The members up to the brace, the next at the offset; p.tsize holds the largest of a union.
RECURSIVE Members(_, _, _, _, _)
Members(p, bt, mbt, union, offset) ==
  LET m == MemberType(p)
      s == Stars(p, mbt)
      x == s.p.toks[s.p.i].id
      a == Extents(Skip(s.p), <<>>, "Glo")
      ty == IF a.dims = <<>> THEN s.t ELSE s.t + PTR + Len(a.dims)
      end == offset + 4 * Words(SizeOf(p, s.t) * Volume(a.dims))
      member == [of |-> bt, id |-> x, offset |-> offset, type |-> ty, dims |-> a.dims]
      q == [a.p EXCEPT !.members = Append(@, member), !.ty = ty,
                       !.tsize[bt \div 4 + 1] = IF union THEN Max({@, end}) ELSE @]
  IN IF Failed(p) THEN p
     ELSE IF mbt = 0 - 1
     THEN IF T(p) = "}" THEN (IF union THEN Skip(p) ELSE [Skip(p) EXCEPT !.tsize[bt \div 4 + 1] = offset])
          ELSE Members(m.p, bt, m.t, union, offset)
     ELSE IF T(p) = ";" THEN Members(Skip(p), bt, 0 - 1, union, offset)
     ELSE IF T(s.p) # "Id" THEN Err(s.p, "bad struct member definition")
     ELSE Members(IF T(q) = "," THEN Skip(q) ELSE q, bt, mbt, union, IF union THEN 0 ELSE end)

\* struct or union, with a tag, with members, or both.
StructType(p) ==
  LET q == Skip(p)
      tagged == T(q) = "Id"
      x == q.toks[q.i].id
      known == tagged /\ Sym(q, x).type # 0
      bt == IF known THEN Sym(q, x).type ELSE 4 * p.tnew
      new == IF known THEN q ELSE [q EXCEPT !.tnew = @ + 1]
      r == IF ~tagged THEN new ELSE Skip(SetSym(new, x, [Sym(new, x) EXCEPT !.type = bt]))
      duplicate == \E k \in DOMAIN p.members : p.members[k].of = bt
  IN [p |-> IF T(r) # "{" THEN r
            ELSE IF duplicate THEN Err(r, "duplicate structure definition")
            ELSE Members([Skip(r) EXCEPT !.tsize[bt \div 4 + 1] = 0], bt, 0 - 1, T(p) = "Union", 0),
      t |-> bt]

\* init_array(): values at i, an inner brace level per dimension but the last (cursor), and what a
\* closed brace leaves out is skipped.
RECURSIVE InitValues(_, _, _, _, _, _)
InitValues(p, d, inc, i, cursor, empty) ==
  LET next(q) == IF T(q) = "," THEN Skip(q) ELSE q
      off == i % inc[cursor + 1]
      after == IF off # 0 \/ empty THEN i + inc[cursor + 1] - off ELSE i
      e == Literal(Expr(p, "Cond"), "non-literal initializer")
      match == Plain(d.type) - PTR
      v == IF e.ty = match THEN e.n.v ELSE IF match = FLOAT THEN FloatBits(e.n.v) ELSE FloatValue(e.n.v)
      stored == [e EXCEPT !.globals = (d.val + 4 * i :> v) @@ @,
                          !.n = p.n]
  IN IF Failed(p) THEN p
     ELSE IF T(p) = "{"
     THEN IF cursor = 0 THEN Err(p, "overly nested initializer")
          ELSE InitValues(Skip(p), d, inc, i, cursor - 1, TRUE)
     ELSE IF T(p) = "}"
     THEN IF cursor + 1 = Len(inc) THEN Skip(p) ELSE InitValues(next(Skip(p)), d, inc, after, cursor + 1, empty)
     ELSE IF Failed(e) THEN e
     ELSE InitValues(next(stored), d, inc, i + 1, cursor, FALSE)
InitArray(p, d) ==
  LET k == Len(d.dims)
      inc == [j \in 1 .. k |-> Volume(SubSeq(d.dims, k - j + 1, k))]
  IN IF d.class # "Glo" THEN Err(p, "only global array initialization supported")
     ELSE IF Plain(d.type) \notin {INT + PTR, FLOAT + PTR} THEN Err(p, "array-init must be literal ints, floats, or strings")
     ELSE InitValues(p, d, inc, 0, k, FALSE)

InitLocal(p, d, ty, before) ==
  LET r == Expr(p, "Assign")
  IN IF Failed(r) THEN r
     ELSE Node(Check(r, TypeCheck("Assign", ty, r.ty, r.n)),
               Begin(before, AssignTo([k |-> "Loc", v |-> p.loc - d.val], r.n, r.ty, ty)), ty)
InitGlobal(p, d, ty) ==
  LET e == Expr(p, "Cond")
      r == IF Failed(e) THEN e
           ELSE Literal(Check(e, TypeCheck("Assign", ty, e.ty, e.n)), "global assignment must eval to lit expr")
  IN IF Failed(r) THEN r
     ELSE IF (r.n.k = "Num" /\ ty \in {CHAR, INT}) \/ (r.n.k = "NumF" /\ ty = FLOAT)
     THEN [r EXCEPT !.globals = (d.val :> r.n.v) @@ @, !.n = p.n]
     ELSE Err(r, "unsupported global initializer")

\* A variable hides what its name was, and takes its place in the data, the frame or the parameters.  The
\* type kept with the hidden is the new one, which the name has by then.
VarDecl(p, x, t, ctx, made) ==
  LET d == [Sym(p, x) EXCEPT !.type = t]
      hidden == [d EXCEPT !.hclass = d.class, !.class = ctx, !.htype = d.type, !.hval = d.val, !.hdims = d.dims]
      a == Extents(SetSym(p, x, hidden), <<>>, ctx)
      ty == IF a.dims = <<>> THEN t ELSE t + PTR + Len(a.dims)
      size == 4 * Words(SizeOf(p, t) * Volume(a.dims))
      ld == p.ld + (CASE ctx = "Glo" -> 0 [] ctx = "Loc" -> size \div 4 [] ctx = "Par" -> 1)
      val == CASE ctx = "Glo" -> p.data [] ctx = "Loc" -> ld [] ctx = "Par" -> p.ld
      v == [hidden EXCEPT !.type = ty, !.val = val, !.dims = IF a.dims = <<>> THEN @ ELSE a.dims]
      q == [SetSym(a.p, x, v) EXCEPT !.ld = ld, !.ty = ty, !.data = IF ctx = "Glo" THEN @ + size ELSE @]
  IN IF Failed(a.p) THEN a.p
     ELSE IF IsStruct(t) /\ SizeOf(p, t) = 0 THEN Err(p, "struct/union forward declaration is unsupported")
     ELSE IF ctx = "Par" /\ IsStruct(ty) THEN Err(p, "struct parameters must be pointers")
     ELSE IF q.data > DataBase + DataBytes THEN Err(p, "program data exceeds data segment")
     ELSE IF T(q) # "Assign" THEN q
     ELSE IF ctx = "Par" THEN Err(q, "default arguments not supported")
     ELSE IF T(Skip(q)) = "{" /\ a.dims # <<>> THEN InitArray(Skip(q), v)
     ELSE IF ctx = "Loc" THEN InitLocal(Skip(q), v, ty, IF made THEN p.n ELSE End)
     ELSE InitGlobal(Skip(q), v, ty)

(***************************************************************************)
(* Functions                                                               *)
(***************************************************************************)
\* The parameters up to the parenthesis, each float counted by the type read last.
RECURSIVE Parameters(_, _)
Parameters(p, floats) ==
  IF Failed(p) THEN [p |-> p, floats |-> floats]
  ELSE IF T(p) = ")" THEN [p |-> Skip(p), floats |-> floats]
  ELSE LET q == Stmt(p, "Par")
       IN Parameters(IF T(q) = "," THEN Skip(q) ELSE q, Append(floats, Truth(q.ty = FLOAT)))
ParameterTypes(q) == TypesOf(q.floats) - Len(q.floats) + q.p.ld

\* A prototype: code that jumps to where a word says, the word being written with the body.
Prototype(s0) ==
  LET s == EmitAll(IF E(s0) % 2 = 1 THEN Emit(s0, Op("nop", 0, 0, 0)) ELSE s0,
                   <<Op("ldrpc", 0, 0, 0), Op("b", 0, 0, 1)>>)
  IN [s |-> Emit(EmitWord(s, 0), Op("bx", 0, 0, 0)), at |-> E(s)]

\* check_label(): an identifier and a colon before a statement.
CheckLabel(p) ==
  LET x == p.toks[p.i].id  d == Sym(p, x)
  IN IF Failed(p) \/ T(p) # "Id" \/ T(Skip(p)) # ":" THEN p
     ELSE IF d.class # "None" \/ d.type \notin {0, -1} THEN Err(p, "invalid label")
     ELSE [SetSym(Skip(Skip(p)), x, [d EXCEPT !.type = -1]) EXCEPT !.n = Begin(p.n, [k |-> "Label", l |-> x])]
\* The statements up to the brace, one after the other in n.
RECURSIVE Statements(_, _)
Statements(p, ctx) ==
  IF Failed(p) \/ T(p) = "}" THEN p
  ELSE LET l == CheckLabel(p)  q == Stmt(l, ctx)
       IN Statements(IF q.n = l.n THEN q ELSE [q EXCEPT !.n = Begin(l.n, @)], ctx)

\* The symbols of a function give way to those they hid; its labels are gone.
Unwind(p) ==
  LET undefined == {x \in DOMAIN p.syms : p.syms[x].class = "None" /\ p.syms[x].type = -1
                                          /\ LabelOf(p.s, x).at = 0}
      restored(d) == IF d.class \in {"Loc", "Par"}
                     THEN [d EXCEPT !.class = d.hclass, !.type = d.htype, !.val = d.hval, !.dims = d.hdims]
                     ELSE IF d.class = "None" /\ d.type = -1 THEN Unknown ELSE d
  IN IF undefined # {} THEN Err(p, "label not defined")
     ELSE [p EXCEPT !.syms = [x \in DOMAIN @ |-> restored(@[x])], !.s.labels = <<>>]

FunctionBody(p, x) ==
  LET d == Sym(p, x)
      s == IF d.forward = 0 THEN p.s ELSE [p.s EXCEPT !.code[d.forward + 1] = Word(d.val)]
      in == [SetSym(Skip(p), x, [d EXCEPT !.forward = 0]) EXCEPT !.ld = @ + 1, !.loc = p.ld + 1, !.n = End, !.s = s]
      body == Statements(in, "Loc")
  IN IF Failed(body) THEN body
     ELSE IF body.rtf = 0 /\ body.rtt # -1 THEN Err(body, "expecting return value")
     ELSE [body EXCEPT !.s = Gen(@, [k |-> "Enter", n |-> body.ld - body.loc, x |-> body.n])]

FuncDecl(p, x, t, ctx) ==
  LET d == Sym(p, x)
      in == [SetSym(Skip(p), x, [d EXCEPT !.type = t, !.class = "Func", !.val = E(p.s) + 1]) EXCEPT !.ld = 0, !.ty = t]
      a == Parameters(in, <<>>)
      types == ParameterTypes(a)
      declared == SetSym(a.p, x, [Sym(a.p, x) EXCEPT !.dims = <<types>>])
      proto == Prototype(a.p.s)
  IN IF ctx # "Glo" THEN Err(p, "nested function")
     ELSE IF IsStruct(t) THEN Err(p, "return type can't be struct")
     ELSE IF d.class = "Func" /\ d.forward = 0 THEN Err(p, "duplicate global definition")
     ELSE IF Failed(a.p) THEN a.p
     ELSE IF d.forward # 0 /\ d.dims # <<types>> THEN Err(p, "parameters don't match prototype")
     ELSE IF T(declared) = ";"
     THEN Unwind([SetSym(declared, x, [Sym(declared, x) EXCEPT !.forward = proto.at]) EXCEPT !.s = proto.s])
     ELSE IF T(declared) # "{" THEN Err(declared, "bad function definition")
     ELSE Unwind(FunctionBody(declared, x))

\* The names after a type, up to a semicolon, brace, comma or parenthesis.  made: one had an initializer.
RECURSIVE Declarators(_, _, _, _, _)
Declarators(p, bt, void, ctx, made) ==
  LET s == Stars(p, bt)
      x == s.p.toks[s.p.i].id
      q == Skip(s.p)
      d == Sym(q, x)
      typed == IF T(q) = "(" THEN [q EXCEPT !.rtf = 0, !.rtt = IF s.t = 0 /\ void THEN -1 ELSE s.t] ELSE q
      r == IF T(q) = "(" THEN FuncDecl(typed, x, s.t, ctx) ELSE VarDecl(q, x, s.t, ctx, made)
  IN IF Failed(p) \/ T(p) \in {";", "}", ",", ")"} THEN p
     ELSE IF ctx # "Par" /\ T(s.p) # "Id" THEN Err(s.p, "bad declaration")
     ELSE IF ctx # "Par" /\ ClassRank(d.class) >= ClassRank(ctx) THEN Err(s.p, "duplicate definition")
     ELSE IF d.forward # 0 /\ d.type # s.t THEN Err(q, "Function return type does not match prototype")
     ELSE IF T(q) = "(" /\ made THEN Err(q, "func decl can't be mixed with var decl(s)")
     ELSE Declarators(IF ctx # "Par" /\ T(r) = "," THEN Skip(r) ELSE r, bt, void, ctx, made \/ r.n # p.n)

TypeTokens == {"Char", "Void", "Int", "Float", "Struct", "Union"}
Declaration(p, ctx) ==
  LET t == IF T(p) \in {"Struct", "Union"} THEN StructType(p)
           ELSE [p |-> Skip(p), t |-> IF T(p) = "Void" THEN CHAR ELSE BaseTypes[T(p)]]
  IN Declarators([t.p EXCEPT !.ty = IF T(t.p) \in {";", "}", ",", ")"} THEN @ ELSE t.t], t.t, T(p) = "Void", ctx, FALSE)

(***************************************************************************)
(* Statements                                                              *)
(***************************************************************************)
\* The counters of loops and switches around a statement.
Within(p, ctx, brk, cnt, swt) ==
  LET q == Stmt([p EXCEPT !.brkc = @ + brk, !.cntc = @ + cnt, !.swtc = @ + swt], ctx)
  IN [q EXCEPT !.brkc = p.brkc, !.cntc = p.cntc, !.swtc = p.swtc]
Condition(p) == Expect(Expr(Expect(p, "(", "open parenthesis expected"), "Assign"), ")", "close parenthesis expected")

IfStmt(p, ctx) ==
  LET c == Condition(Skip(p))
      yes == Stmt(c, ctx)
      no == IF T(yes) = "Else" THEN Stmt(Skip(yes), ctx) ELSE yes
  IN [no EXCEPT !.n = [k |-> "Cond", c |-> c.n, a |-> yes.n, b |-> IF T(yes) = "Else" THEN no.n ELSE None]]
WhileStmt(p, ctx) ==
  LET c == Condition(Skip(p))
      body == Within(c, ctx, 1, 1, 0)
  IN [body EXCEPT !.n = [k |-> "While", body |-> body.n, cond |-> c.n]]
DoStmt(p, ctx) ==
  LET body == Within(Skip(p), ctx, 1, 1, 0)
      c == Condition(Expect(body, "While", "while expected"))
  IN [c EXCEPT !.n = [k |-> "DoWhile", body |-> body.n, cond |-> c.n]]
\* An expression list of for: empty, or expressions with commas.
ForList(p, close) == IF T(p) = close THEN [p EXCEPT !.n = End] ELSE CommaList(Expr([p EXCEPT !.n = End], "Assign"))
ForStmt(p, ctx) ==
  LET init == ForList(Expect(Skip(p), "(", "open parenthesis expected"), ";")
      cond == Expect(init, ";", "semicolon expected")
      c == IF T(cond) = ";" THEN [cond EXCEPT !.n = None] ELSE Expr(cond, "Assign")
      incr == ForList(Expect(c, ";", "semicolon expected"), ")")
      body == Within(Expect(incr, ")", "close parenthesis expected"), ctx, 1, 1, 0)
  IN [body EXCEPT !.n = [k |-> "For", init |-> init.n, cond |-> c.n, incr |-> incr.n, body |-> body.n]]
SwitchStmt(p, ctx) ==
  LET c == Condition(Skip(p))
      body == Within(c, ctx, 1, 0, 1)
  IN [body EXCEPT !.n = [k |-> "Switch", cond |-> c.n, cas |-> body.n]]
CaseStmt(p, ctx) ==
  LET v == Expr(Skip(p), "Or")
      x == Stmt(Expect(IF v.n.k = "Num" THEN [v EXCEPT !.n = End] ELSE Err(v, "case label not a numeric literal"),
                       ":", "colon expected"), ctx)
  IN IF p.swtc = 0 THEN Err(p, "case-statement outside of switch")
     ELSE [x EXCEPT !.n = [k |-> "Case", v |-> v.n, x |-> x.n]]
DefaultStmt(p, ctx) ==
  LET x == Stmt(Expect(Skip(p), ":", "colon expected"), ctx)
  IN IF p.swtc = 0 THEN Err(p, "default-statement outside of switch") ELSE [x EXCEPT !.n = [k |-> "Default", x |-> x.n]]
JumpStmt(p) ==
  IF (IF T(p) = "Break" THEN p.brkc ELSE p.cntc) = 0 THEN Err(p, "misplaced statement")
  ELSE [Expect(Skip(p), ";", "semicolon expected") EXCEPT !.n = [k |-> T(p)]]
ReturnStmt(p) ==
  LET e == IF T(Skip(p)) = ";" THEN [Skip(p) EXCEPT !.n = None] ELSE Expr(Skip(p), "Assign")
      bad == IF Failed(e) THEN ""
             ELSE IF e.n = None THEN (IF p.rtt = -1 THEN "" ELSE "return value expected")
             ELSE IF p.rtt = -1 THEN "not expecting return value" ELSE TypeCheck("Eq", p.rtt, e.ty, e.n)
  IN [Expect(Check(e, bad), ";", "semicolon expected") EXCEPT !.n = [k |-> "Return", x |-> e.n], !.rtf = 1]
GotoStmt(p) ==
  LET q == Skip(p)  x == q.toks[q.i].id  d == Sym(q, x)
  IN IF T(q) # "Id" \/ d.type \notin {0, -1} \/ d.class # "None" THEN Err(q, "goto expects label")
     ELSE Expect([SetSym(Skip(q), x, [d EXCEPT !.type = -1]) EXCEPT !.n = [k |-> "Goto", l |-> x]],
                 ";", "semicolon expected")
ExpressionStmt(p) ==
  LET e == Expr(p, "Assign")
  IN IF Failed(e) \/ T(e) \in {";", ","} THEN Skip(e) ELSE Err(e, "semicolon expected")

Stmt(p, ctx) ==
  CASE Failed(p) -> p
    [] ctx = "Glo" /\ T(p) \notin TypeTokens \cup {"Enum"} -> Err(p, "syntax: statement used outside function")
    [] T(p) = "Enum" -> EnumDecl(p, ctx)
    [] T(p) \in TypeTokens -> Declaration(p, ctx)
    [] T(p) = "If" -> IfStmt(p, ctx)
    [] T(p) = "While" -> WhileStmt(p, ctx)
    [] T(p) = "DoWhile" -> DoStmt(p, ctx)
    [] T(p) = "For" -> ForStmt(p, ctx)
    [] T(p) = "Switch" -> SwitchStmt(p, ctx)
    [] T(p) = "Case" -> CaseStmt(p, ctx)
    [] T(p) = "Default" -> DefaultStmt(p, ctx)
    [] T(p) \in {"Break", "Continue"} -> JumpStmt(p)
    [] T(p) = "Return" -> ReturnStmt(p)
    [] T(p) = "Goto" -> GotoStmt(p)
    [] T(p) = "{" -> LET b == Statements([Skip(p) EXCEPT !.n = End], ctx) IN Skip(b)
    [] T(p) = ";" -> [Skip(p) EXCEPT !.n = End]
    [] OTHER -> ExpressionStmt(p)

(***************************************************************************)
(* The program                                                             *)
(***************************************************************************)
\* The parser before the first token: the ints of the language, and no identifier.
ParseStart(toks, opts) ==
  [toks |-> toks, i |-> 1, n |-> End, ty |-> 0, syms |-> <<>>, ld |-> 0, loc |-> 0, brkc |-> 0, cntc |-> 0, swtc |-> 0,
   rtf |-> 0, rtt |-> 0, tsize |-> <<1, 4, 4, 0, 0, 0>>, tnew |-> 3, members |-> <<>>, data |-> DataBase,
   globals |-> <<>>, s |-> GenStart(opts)]

RECURSIVE Units(_)
Units(p) == IF Failed(p) \/ T(p) = "EOF" THEN p ELSE Units(Skip(Stmt(p, "Glo")))

\* cc(): every unit, then the functions declared and not defined, and main.
Compiled(toks, opts) ==
  LET p == Units(ParseStart(toks, opts))
  IN IF Failed(p) THEN p
     ELSE IF \E x \in DOMAIN p.syms : p.syms[x].class = "Func" /\ p.syms[x].forward # 0
     THEN Err(p, "undeclared forward function")
     ELSE IF Sym(p, "main").class # "Func" THEN Err(p, "main() not defined")
     ELSE p

=============================================================================
