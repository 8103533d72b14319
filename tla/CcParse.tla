------------------------------ MODULE CcParse ------------------------------
(***************************************************************************)
(* The parser of cc/cc_parse.c: expressions by precedence climbing, with   *)
(* types checked and constants folded on the way, then declarations,       *)
(* statements and functions, each function being generated when its body   *)
(* has been read.  A token is a record; the parser's state is a record     *)
(* that every operator takes and returns, with the tree last built in n.   *)
(***************************************************************************)
EXTENDS CcGen

Tok(t) == [t |-> t, id |-> "", v |-> 0]
IdTok(x) == [t |-> "Id", id |-> x, v |-> 0]
NumTok(v) == [t |-> "Num", id |-> "", v |-> v]

\* The operators, lowest precedence first, as the enumeration of cc_tokns.h has them.
Levels == <<"Assign", "OrAssign", "XorAssign", "AndAssign", "ShlAssign", "ShrAssign", "AddAssign", "SubAssign",
            "MulAssign", "DivAssign", "ModAssign", "Cond", "Lor", "Lan", "Or", "Xor", "And", "Eq", "Ne", "Ge", "Lt",
            "Gt", "Le", "Shl", "Shr", "Add", "Sub", "Mul", "Div", "Mod", "Inc", "Dec", "Dot", "Arrow", "Bracket">>
LevelOf == [t \in {Levels[k] : k \in DOMAIN Levels} |-> CHOOSE k \in DOMAIN Levels : Levels[k] = t]
Level(t) == IF t \in DOMAIN LevelOf THEN LevelOf[t] ELSE 0
\* Variant: a difference reads its right operand as a sum does its left.
RightLevelLoose == [Lor |-> "Lan", Lan |-> "Or", Or |-> "Xor", Xor |-> "And", And |-> "Eq", Eq |-> "Ge", Ne |-> "Ge",
               Ge |-> "Shl", Lt |-> "Shl", Gt |-> "Shl", Le |-> "Shl", Shl |-> "Add", Shr |-> "Add",
               Add |-> "Mul", Sub |-> "Add", Mul |-> "Inc", Div |-> "Inc", Mod |-> "Inc"]
\* The level an operator reads its right operand with.
RightLevel == [Lor |-> "Lan", Lan |-> "Or", Or |-> "Xor", Xor |-> "And", And |-> "Eq", Eq |-> "Ge", Ne |-> "Ge",
               Ge |-> "Shl", Lt |-> "Shl", Gt |-> "Shl", Le |-> "Shl", Shl |-> "Add", Shr |-> "Add",
               Add |-> "Mul", Sub |-> "Mul", Mul |-> "Inc", Div |-> "Inc", Mod |-> "Inc"]
\* What a compound assignment does before it assigns.
CompoundOf == [OrAssign |-> "Or", XorAssign |-> "Xor", AndAssign |-> "And", ShlAssign |-> "Shl", ShrAssign |-> "Shr",
               AddAssign |-> "Add", SubAssign |-> "Sub", MulAssign |-> "Mul", DivAssign |-> "Div", ModAssign |-> "Mod"]
Relations == {"Eq", "Ne", "Ge", "Lt", "Gt", "Le"}
FloatOf == [Add |-> "AddF", Sub |-> "SubF", Mul |-> "MulF", Div |-> "DivF", Eq |-> "EqF", Ne |-> "NeF",
            Ge |-> "GeF", Lt |-> "LtF", Gt |-> "GtF", Le |-> "LeF"]

\* Nodes of the tree.
Num(v) == [k |-> "Num", v |-> v]
NumF(v) == [k |-> "NumF", v |-> v]
Oper(k, l, r) == [k |-> k, l |-> l, r |-> r]
Load(t, x) == [k |-> "Load", t |-> t, x |-> x]
Begin(a, b) == [k |-> "{", a |-> a, b |-> b]
AssignTo(l, r, from, t) == [k |-> "Assign", l |-> l, r |-> r, from |-> from, t |-> t]

\* Classes of identifiers, in the order of their numbers.
Classes == <<"None", "Func", "Syscall", "Main", "Glo", "Par", "Loc", "Num", "NumF", "Label">>
ClassRank(c) == CHOOSE k \in DOMAIN Classes : Classes[k] = c
Unknown == [class |-> "None", type |-> 0, val |-> 0, dims |-> <<>>, forward |-> 0,
            hclass |-> "None", htype |-> 0, hval |-> 0, hdims |-> <<>>]

T(p) == IF p.i > Len(p.toks) THEN "EOF" ELSE p.toks[p.i].t
Sym(p, x) == IF x \in DOMAIN p.syms THEN p.syms[x] ELSE Unknown
SetSym(p, x, v) == [p EXCEPT !.syms = [y \in DOMAIN @ \cup {x} |-> IF y = x THEN v ELSE @[y]]]
\* id: the identifier last read
LastId(p) == LET ids == {j \in 1 .. p.i : j <= Len(p.toks) /\ p.toks[j].t = "Id"} IN p.toks[Max(ids)].id
Skip(p) == [p EXCEPT !.i = @ + 1]
Err(p, msg) == [p EXCEPT !.s = Fatal(@, msg)]
Failed(p) == p.s.err # ""
Expect(p, t, msg) == IF Failed(p) THEN p ELSE IF T(p) = t THEN Skip(p) ELSE Err(p, msg)
Node(p, n, ty) == [p EXCEPT !.n = n, !.ty = ty]
Check(p, msg) == IF msg = "" THEN p ELSE Err(p, msg)

IsPtr(t) == t >= PTR
IsStruct(t) == t > ATOM_TYPE /\ t < PTR
PtrLevel(t) == (t \div PTR) % 4
Rank(t) == t % 4
\* An object's own type, without the rank of an array.
Plain(t) == t - Rank(t)
SizeOf(p, t) == IF IsPtr(t) THEN 4 ELSE p.tsize[t \div 4 + 1]
Log2(v) == CHOOSE k \in 0 .. WordBits : 2 ^ k = v
IsPowerOf2(v) == \E k \in 0 .. WordBits : 2 ^ k = v

\* typecheck(): the complaint about an operation on types tl and tr, the right operand being n.
TypeCheck(op, tl, tr, n) ==
  LET lp == IsPtr(tl)  rp == IsPtr(tr)  li == tl < FLOAT  ri == tr < FLOAT
      zero == n.k = "Num" /\ n.v = 0
  IN IF PtrLevel(tl) # PtrLevel(tr)
     THEN IF \/ op = "Add" /\ ~(lp /\ rp) /\ ((li /\ ~lp) \/ (ri /\ ~rp))
             \/ op = "Sub" /\ lp /\ ~rp /\ ri
             \/ op = "Assign" /\ lp /\ ~rp /\ zero
             \/ op \in Relations /\ zero
          THEN "" ELSE "bad pointer arithmetic or cast needed"
     ELSE IF lp /\ rp /\ op \notin {"Assign", "Sub"} \cup Relations THEN "bad pointer arithmetic"
     ELSE IF ~lp /\ ~rp /\ op # "Assign" /\ li # ri THEN "cast operation needed"
     ELSE IF ~lp /\ ~rp /\ (IsStruct(tl) \/ IsStruct(tr)) THEN "illegal operation with dereferenced struct"
     ELSE ""
BitOpCheck(tl, tr) == IF tl >= FLOAT \/ tr >= FLOAT THEN "bit operation on non-int types" ELSE ""

\* The value of an operator on constants.
FoldedRelation(op, a, b) ==
  Truth(CASE op = "Eq" -> a = b [] op = "Ne" -> a # b [] op = "Ge" -> a >= b
          [] op = "Lt" -> a < b [] op = "Gt" -> a > b [] op = "Le" -> a <= b)
\* A negative count shifts the other way.
FoldedShift(op, a, b) == IF (op = "Shl") = (b >= 0) THEN ShiftLeft(a, Abs(b)) ELSE ShiftRight(a, Abs(b))
Folded(op, a, b) ==
  CASE op = "Lor" -> Truth(a # 0 \/ b # 0)
    [] op = "Lan" -> Truth(a # 0 /\ b # 0)
    [] op = "Or" -> BitOr(a, b)
    [] op = "Xor" -> BitXor(a, b)
    [] op = "And" -> BitAnd(a, b)
    [] op \in Relations -> FoldedRelation(op, a, b)
    [] op \in {"Shl", "Shr"} -> FoldedShift(op, a, b)
    [] op = "Add" -> Wrap(a + b)
    [] op = "Sub" -> Wrap(a - b)
    [] op = "Mul" -> Wrap(a * b)
    [] op = "Div" -> Quotient(a, b)
    [] op = "Mod" -> Remainder(a, b)
\* Relations but == and != compare values, those two compare bits.
FoldedFloat(op, a, b) ==
  CASE op \in {"Eq", "Ne"} -> Num(FoldedRelation(op, a, b))
    [] op \in Relations -> Num(FoldedRelation(op, FloatValue(a), FloatValue(b)))
    [] op = "Add" -> NumF(FopResult("fadd", a, b)[1])
    [] op = "Sub" -> NumF(FopResult("fsub", a, b)[1])
    [] op = "Mul" -> NumF(FopResult("fmul", a, b)[1])
    [] op = "Div" -> NumF(FopResult("fdiv", a, b)[1])

Fold2(op, b, n) == IF b.k = "Num" /\ n.k = "Num" THEN Num(Folded(op, b.v, n.v)) ELSE Oper(op, b, n)
FoldFloat(op, b, n) ==
  IF b.k = "NumF" /\ n.k = "NumF" THEN FoldedFloat(op, b.v, n.v) ELSE Oper(FloatOf[op], b, n)
\* A constant operand that is a power of two becomes a shift or a mask.
Reduced(op, b, n) ==
  IF b.k # "Num" /\ n.k = "Num" /\ n.v > 0 /\ IsPowerOf2(n.v)
  THEN IF op = "Mul" THEN Oper("Shl", b, Num(Log2(n.v)))
       ELSE IF op = "Div" THEN Oper("Shr", b, Num(Log2(n.v)))
       ELSE Oper("And", b, Num(n.v - 1))
  ELSE Fold2(op, b, n)

(***************************************************************************)
(* Binary operators.  b and t are the left operand and its type, p.n and   *)
(* p.ty the right one's.                                                   *)
(***************************************************************************)
\* Sums scale the int operand of a pointer by the size of what it points at.
InfixAdd(p, b, t) ==
  LET n == p.n
      left == IF PtrLevel(t) # 0 \/ PtrLevel(p.ty) # 0 THEN IsPtr(t) ELSE t >= p.ty
      ty == IF left THEN t ELSE p.ty
      sz == StepOf(ty, p.tsize)
      l == IF b.k = "Num" /\ ~left THEN Num(b.v * sz) ELSE b
      r == IF n.k = "Num" /\ left THEN Num(n.v * sz) ELSE n
      scaled == (n.k = "Num" /\ left) \/ (b.k = "Num" /\ ~left) \/ sz = 1
  IN IF p.ty = FLOAT THEN Node(p, FoldFloat("Add", b, n), FLOAT)
     ELSE IF l.k = "Num" /\ r.k = "Num" THEN Node(p, Num(Wrap(l.v + r.v)), ty)
     ELSE IF scaled THEN Node(p, Oper("Add", l, r), ty)
     ELSE IF left THEN Node(p, Oper("Add", b, Oper("Mul", n, Num(sz))), ty)
     ELSE Node(p, Oper("Add", n, Oper("Mul", b, Num(sz))), ty)

InfixSub(p, b, t) ==
  LET n == p.n
      sz == StepOf(t, p.tsize)
      scale(x, up) == IF sz = 1 THEN x
                      ELSE IF IsPowerOf2(sz) THEN Oper(IF up THEN "Shl" ELSE "Shr", x, Num(Log2(sz)))
                      ELSE Oper(IF up THEN "Mul" ELSE "Div", x, Num(sz))
  IN IF p.ty = FLOAT THEN Node(p, FoldFloat("Sub", b, n), FLOAT)
     ELSE IF ~IsPtr(t) THEN Node(p, Fold2("Sub", b, n), INT)
     ELSE IF IsPtr(p.ty)
     THEN Node(p, IF b.k = "Num" /\ n.k = "Num" THEN Num(Quotient(b.v - n.v, sz))
                  ELSE scale(Oper("Sub", b, n), FALSE), INT)
     ELSE Node(p, IF n.k = "Num" THEN Fold2("Sub", b, Num(n.v * sz)) ELSE Oper("Sub", b, scale(n, TRUE)), t)

InfixRelation(p, op, b, t) ==
  Node(Check(p, TypeCheck(op, t, p.ty, p.n)), IF p.ty = FLOAT THEN FoldFloat(op, b, p.n) ELSE Fold2(op, b, p.n), INT)
InfixProduct(p, op, b, t) ==
  LET checked == Check(p, TypeCheck(op, t, p.ty, p.n))
  IN IF p.ty # FLOAT THEN Node(checked, Reduced(op, b, p.n), INT)
     ELSE IF op = "Mod" THEN Err(checked, "use fmodf() for float modulo")
     ELSE Node(checked, FoldFloat(op, b, p.n), FLOAT)

InfixBinary(p, op, b, t) ==
  CASE Failed(p) -> p
    [] op \in {"Lor", "Lan"} -> Node(p, Fold2(op, b, p.n), INT)
    [] op \in {"Or", "Xor", "And", "Shl", "Shr"} -> Node(Check(p, BitOpCheck(t, p.ty)), Fold2(op, b, p.n), INT)
    [] op \in Relations -> InfixRelation(p, op, b, t)
    [] op = "Add" -> InfixAdd(Check(p, TypeCheck(op, t, p.ty, p.n)), b, t)
    [] op = "Sub" -> InfixSub(Check(p, TypeCheck(op, t, p.ty, p.n)), b, t)
    [] op \in {"Mul", "Div", "Mod"} -> InfixProduct(p, op, b, t)

(***************************************************************************)
(* expr()                                                                  *)
(***************************************************************************)
RECURSIVE Expr(_, _)
RECURSIVE Climb(_, _)

\* The arguments up to the parenthesis: trees, and the bits that tell floats.
RECURSIVE Arguments(_, _, _)
Arguments(p, args, floats) ==
  IF Failed(p) THEN [p |-> p, args |-> args, floats |-> floats]
  ELSE IF T(p) = ")" THEN [p |-> Skip(p), args |-> args, floats |-> floats]
  ELSE LET a == Expr(p, "Assign")
           q == IF T(a) = "," THEN IF T(Skip(a)) = ")" THEN Err(a, "unexpected comma in function call") ELSE Skip(a)
                ELSE IF T(a) # ")" THEN Err(a, "missing comma in function call") ELSE a
       IN Arguments(q, Append(args, a.n), Append(floats, Truth(a.ty = FLOAT)))
\* Function types: a bit per parameter, the number of floats, the number of parameters.
TypesOf(floats) ==
  FoldLeft(LAMBDA v, f : 2 * v + f, 0, floats) * 1024 + FoldLeft(LAMBDA v, f : v + f, 0, floats) * 32 + Len(floats)
\* A syscall's type in externs: all of its parameters are floats or none is.
ExternTypes(x) == TypesOf([j \in 1 .. Externs[x].params |-> Truth(Externs[x].floats > 0)])

Call(p, x) ==
  LET d == Sym(p, x)
      a == Arguments(Skip(p), <<>>, <<>>)
      types == TypesOf(a.floats)
      q == a.p
  IN IF d.class = "Func"
     THEN IF d.val = 0 THEN Err(p, "Unknown external function")
          ELSE IF d.dims # <<types>> THEN Err(q, "argument type mismatch")
          ELSE Node(q, [k |-> "Func", f |-> d.val, types |-> types, args |-> a.args], d.type)
     ELSE IF d.class # "None" THEN Err(p, "bad function call")
     ELSE IF x \notin DOMAIN Externs THEN Err(p, "Unknown external function")
     ELSE IF ~Externs[x].prints /\ types # ExternTypes(x) THEN Err(q, "argument type mismatch")
     ELSE Node(q, [k |-> "Syscall", f |-> x, types |-> types, args |-> a.args],
               IF Externs[x].retFloat THEN FLOAT ELSE INT)

\* An identifier that is not called: a constant, or the variable's address, loaded if not an array's.
Variable(p, x) ==
  LET d == Sym(p, x)
      address == IF d.class = "Glo" THEN Num(d.val) ELSE [k |-> "Loc", v |-> p.loc - d.val]
      ty == Plain(d.type)
  IN CASE d.class = "Num" -> Node(p, Num(d.val), INT)
       [] d.class = "NumF" -> Node(p, Num(d.val), FLOAT)
       [] d.class = "Func" -> Node(p, Num(d.val), INT)
       [] d.class \in {"Loc", "Par", "Glo"} ->
            Node(p, IF Rank(d.type) # 0 /\ d.class # "Par" THEN address ELSE Load(ty, address), ty)
       [] OTHER -> Err(p, "undefined variable")

Identifier(p0) ==
  LET x == p0.toks[p0.i].id  p == Skip(p0)
  IN IF T(p) = "(" THEN Call(p, x) ELSE Variable(p, x)

BaseTypes == [Char |-> CHAR, Int |-> INT, Float |-> FLOAT]
RECURSIVE Stars(_, _)
\* The pointer levels after a type.
Stars(p, t) == IF T(p) = "Mul" THEN Stars(Skip(p), t + PTR) ELSE [p |-> p, t |-> t]
\* A type in parentheses: char, int, float, or a struct by its tag; then the stars.
TypeName(p) ==
  IF T(p) \in DOMAIN BaseTypes THEN Stars(Skip(p), BaseTypes[T(p)])
  ELSE LET q == Skip(p)  t == IF T(q) = "Id" THEN Sym(q, q.toks[q.i].id).type ELSE 0
       IN IF IsStruct(t) THEN Stars(Skip(q), t) ELSE [p |-> Err(p, "bad struct/union type"), t |-> INT]

\* Of a name, a number, a type, or (what no other token ends) of an enumeration.
SizeOfOperand(p0) ==
  LET p == Expect(Skip(p0), "(", "open parenthesis expected in sizeof")
      d == IF T(p) = "Id" THEN Sym(p, p.toks[p.i].id) ELSE Unknown
      named == T(p) = "Id"
      t == IF named THEN [p |-> Skip(p), t |-> d.type]
           ELSE IF T(p) \in {"Num", "NumF"} THEN [p |-> Skip(p), t |-> INT]
           ELSE IF T(p) \in DOMAIN BaseTypes \cup {"Struct", "Union"} THEN TypeName(p) ELSE Stars(p, INT)
      one == IF Rank(t.t) # 0 THEN SizeOf(p, Plain(t.t) - PTR) ELSE SizeOf(p, t.t)
      all == IF named /\ Rank(t.t) # 0 THEN FoldLeft(LAMBDA v, x : v * x, one, d.dims) ELSE one
  IN IF Failed(t.p) THEN t.p ELSE Node(Expect(t.p, ")", "close parenthesis expected in sizeof"), Num(all), INT)

\* A cast converts between int and float only.
Cast(p0) ==
  LET t == TypeName(p0)
      p == Expr(Expect(t.p, ")", "bad cast"), "Inc")
      n == p.n
  IN IF Failed(p) \/ t.t = p.ty \/ (t.t # FLOAT /\ p.ty # FLOAT) THEN [p EXCEPT !.ty = t.t]
     ELSE IF t.t = FLOAT /\ p.ty < FLOAT
     THEN Node(p, IF n.k = "Num" THEN NumF(FloatBits(n.v)) ELSE [k |-> "CastF", way |-> "ITOF", x |-> n], FLOAT)
     ELSE IF t.t < FLOAT /\ p.ty = FLOAT
     THEN Node(p, IF n.k = "NumF" THEN Num(FloatValue(n.v)) ELSE [k |-> "CastF", way |-> "FTOI", x |-> n], t.t)
     ELSE Err(p, "explicit cast required")

RECURSIVE CommaList(_)
CommaList(p) ==
  IF ~Failed(p) /\ T(p) = ","
  THEN LET q == Expr(Skip(p), "Assign") IN CommaList([q EXCEPT !.n = Begin(p.n, q.n)])
  ELSE p
Parenthesized(p) ==
  IF T(p) \in {"Char", "Int", "Float", "Struct", "Union"} THEN Cast(p)
  ELSE Expect(CommaList(Expr(p, "Assign")), ")", "close parenthesis expected")

\* The prefix operators; the operand has been read.
Prefix(p, op) ==
  LET n == p.n  ty == p.ty
      const == n.k = "Num"
  IN CASE Failed(p) -> p
       [] op = "Mul" -> IF ~IsPtr(ty) THEN Err(p, "bad dereference") ELSE Node(p, Load(ty - PTR, n), ty - PTR)
       [] op = "And" -> IF n.k # "Load" THEN Err(p, "bad address-of") ELSE Node(p, n.x, ty + PTR)
       [] op = "!" -> IF IsStruct(ty) THEN Err(p, "!(struct/union) is meaningless")
                      ELSE Node(p, IF const THEN Num(Truth(n.v = 0)) ELSE Oper("Eq", n, Num(0)), INT)
       [] op = "~" -> IF ty > ATOM_TYPE THEN Err(p, "~ptr is illegal")
                      ELSE Node(p, IF const THEN Num(-1 - n.v) ELSE Oper("Xor", n, Num(-1)), INT)
       [] op = "Add" -> IF ty > ATOM_TYPE THEN Err(p, "unary '+' illegal on ptr") ELSE p
       [] op = "Sub" -> IF ty > ATOM_TYPE THEN Err(p, "unary '-' illegal on ptr")
                        ELSE IF const THEN Node(p, Num(Wrap(-n.v)), IF ty = FLOAT THEN FLOAT ELSE INT)
                        ELSE IF n.k = "NumF" THEN Node(p, NumF(FloatNegated(n.v)), ty)
                        ELSE IF ty = FLOAT THEN Node(p, Oper("MulF", n, NumF(FloatBits(-1))), FLOAT)
                        ELSE Node(p, Oper("Mul", n, Num(-1)), INT)
       [] op \in {"Inc", "Dec"} ->
            IF ty = FLOAT THEN Err(p, "no ++/-- on float")
            ELSE IF n.k # "Load" THEN Err(p, "bad lvalue in pre-increment")
            ELSE Node(p, [k |-> op, t |-> n.t, x |-> n.x, step |-> StepOf(n.t, p.tsize)], ty)
PrefixOps == {"Mul", "And", "!", "~", "Add", "Sub", "Inc", "Dec"}

Primary(p) ==
  CASE T(p) = "Id" -> Identifier(p)
    [] T(p) = "Num" -> Node(Skip(p), Num(p.toks[p.i].v), INT)
    [] T(p) = "NumF" -> Node(Skip(p), NumF(p.toks[p.i].v), FLOAT)
    [] T(p) = "Sizeof" -> SizeOfOperand(p)
    [] T(p) = "(" -> Parenthesized(Skip(p))
    [] T(p) \in PrefixOps -> Prefix(Expr(Skip(p), "Inc"), T(p))
    [] OTHER -> Err(p, "bad expression")

Assignment(p) ==
  LET r == Expr(Skip(p), "Assign")
  IN IF Rank(p.ty) # 0 THEN Err(p, "Cannot assign to array type lvalue")
     ELSE IF p.n.k # "Load" THEN Err(p, "bad lvalue in assignment")
     ELSE IF Failed(r) THEN r
     ELSE Node(Check(r, TypeCheck("Assign", p.ty, r.ty, r.n)), AssignTo(p.n.x, r.n, r.ty, p.ty), p.ty)

\* The target's address stays in r0, from where the left operand is loaded.
CompoundAssignment(p) ==
  LET op == CompoundOf[T(p)]
      first == InfixBinary(Expr(Skip(p), "Assign"), op, Load(p.ty, End), p.ty)
      r == Climb(first, "Assign")
  IN IF Rank(p.ty) # 0 THEN Err(p, "Cannot assign to array type lvalue")
     ELSE IF p.n.k # "Load" THEN Err(p, "bad lvalue in assignment")
     ELSE IF Failed(r) THEN r
     ELSE Node(r, AssignTo(p.n.x, r.n, r.ty, p.ty), p.ty)

Conditional(p) ==
  LET yes == Expr(Skip(p), "Assign")
      no == Expr(Expect(yes, ":", "conditional missing colon"), "Cond")
  IN IF Failed(no) THEN no
     ELSE IF yes.ty # no.ty THEN Err(no, "both results need same type")
     ELSE Node(no, [k |-> "Cond", c |-> p.n, a |-> yes.n, b |-> no.n], no.ty)

\* x++: the variable is stepped, and the step undone in the value.
Postfix(p) ==
  LET sz == StepOf(p.ty, p.tsize)
      stepped == [k |-> T(p), t |-> p.n.t, x |-> p.n.x, step |-> StepOf(p.n.t, p.tsize)]
  IN IF p.ty = FLOAT THEN Err(p, "no ++/-- on float")
     ELSE IF p.n.k # "Load" THEN Err(p, "bad lvalue in post-increment")
     ELSE Node(Skip(p), Oper(IF T(p) = "Inc" THEN "Sub" ELSE "Add", stepped, Num(sz)), p.ty)

(***************************************************************************)
(* Subscripts.  dims are the array's extents (none: a pointer); the loop   *)
(* reads one subscript per dimension, sums the constant ones in sum and    *)
(* the others in the tree f, and elides a constant into a member's offset. *)
(***************************************************************************)
RECURSIVE Subscripts(_, _)
Subscripts(p, a) ==
  IF Failed(p) THEN [a EXCEPT !.p = p]
  ELSE IF a.dims # <<>> /\ T(p) # "Bracket" THEN [a EXCEPT !.p = p, !.partial = TRUE]
  ELSE LET q == Expr(Skip(p), "Assign")
           r == IF Failed(q) THEN q ELSE IF q.ty >= FLOAT THEN Err(q, "non-int array index")
                ELSE Expect(q, "]", "close bracket expected")
           \* the product of the extents after this one
           factor == FoldLeft(LAMBDA v, x : v * x, 1, SubSeq(a.dims, Len(a.dims) - a.ii + 1, Len(a.dims)))
           elided == a.b.k = "Add" /\ a.b.r.k = "Num"
           term == IF factor > 1 THEN Oper("Mul", r.n, Num(factor)) ELSE r.n
           next == IF a.dims = <<>> THEN [a EXCEPT !.f = r.n]
                   ELSE IF r.n.k = "Num"
                   THEN IF elided THEN [a EXCEPT !.b.r.v = @ + factor * r.n.v * a.sz]
                        ELSE [a EXCEPT !.sum = @ + factor * r.n.v]
                   ELSE [a EXCEPT !.f = IF @ = None THEN term ELSE Oper("Add", @, term)]
       IN IF Failed(r) THEN [a EXCEPT !.p = r]
          ELSE IF a.ii <= 0 THEN [next EXCEPT !.p = r]
          ELSE Subscripts(r, [next EXCEPT !.ii = @ - 1])

Bracket(p, t, dims) ==
  LET elem == t - PTR
      a == Subscripts(p, [p |-> p, b |-> p.n, ii |-> Len(dims) - 1, dims |-> dims, sum |-> 0, f |-> None,
                          sz |-> SizeOf(p, elem), partial |-> FALSE])
      q == a.p
      \* the subscript: its terms and the constant one, then scaled
      index == IF dims # <<>> /\ a.sum # 0
               THEN IF a.f # None THEN Oper("Add", a.f, Num(a.sum)) ELSE Num(a.sum) ELSE a.f
      scaled == IF index.k = "Num" THEN Num(index.v * a.sz)
                ELSE IF a.sz > 1 THEN Oper("Mul", index, Num(a.sz)) ELSE index
      address == IF index = None THEN a.b ELSE Fold2("Add", a.b, scaled)
  IN IF Failed(q) THEN q
     ELSE IF a.partial THEN [q EXCEPT !.n = address]
     ELSE Node(q, Load(IF IsPtr(elem) THEN INT ELSE elem, address), elem)

\* A member's address; an array member goes on to its subscripts.
Member(p, t) ==
  LET q == Skip(p)
      name == q.toks[q.i].id
      known == {k \in DOMAIN p.members : p.members[k].of = t - PTR /\ p.members[k].id = name}
      m == p.members[Max(known)]
      address == IF m.offset = 0 THEN p.n ELSE Oper("Add", p.n, Num(m.offset))
      ty == Plain(m.type)
  IN IF t <= PTR + ATOM_TYPE \/ t >= PTR2 THEN Err(p, "structure expected")
     ELSE IF T(q) # "Id" THEN Err(q, "structure member expected")
     ELSE IF known = {} THEN Err(q, "structure member not found")
     ELSE IF Rank(m.type) = 0 THEN Node(Skip(q), Load(IF IsPtr(ty) THEN INT ELSE ty, address), ty)
     ELSE Bracket(Node(Skip(q), address, ty), ty, m.dims)

Infix(p) ==
  CASE T(p) = "Assign" -> Assignment(p)
    [] T(p) = "Cond" -> Conditional(p)
    [] T(p) \in DOMAIN RightLevel -> InfixBinary(Expr(Skip(p), RightLevel[T(p)]), T(p), p.n, p.ty)
    [] T(p) \in {"Inc", "Dec"} -> Postfix(p)
    [] T(p) = "Dot" -> Member(IF p.n.k = "Load" /\ IsStruct(p.n.t) THEN [p EXCEPT !.n = @.x] ELSE p, p.ty + PTR)
    [] T(p) = "Arrow" -> Member(p, p.ty)
    [] T(p) = "Bracket" -> IF ~IsPtr(p.ty) THEN Err(p, "pointer type expected")
                           ELSE LET d == Sym(p, LastId(p)) IN Bracket(p, p.ty, IF Rank(d.type) # 0 THEN d.dims ELSE <<>>)

Climb(p, lev) ==
  IF Failed(p) \/ Level(T(p)) < LevelOf[lev] THEN p
  ELSE IF T(p) \in DOMAIN CompoundOf THEN CompoundAssignment(p)
  ELSE Climb(Infix(p), lev)

Expr(p, lev) ==
  IF Failed(p) THEN p
  ELSE LET q == [p EXCEPT !.s = CheckPcRelative(@)] IN Climb(Primary(q), lev)

=============================================================================
