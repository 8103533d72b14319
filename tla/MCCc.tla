-------------------------------- MODULE MCCc --------------------------------
(***************************************************************************)
(* Programs for the compiler, in families: each is a function from keys to *)
(* jobs.                                                                   *)
(***************************************************************************)
EXTENDS Cc, CcLang

Usual == [nopeep |-> FALSE, uchar |-> FALSE, exe |-> FALSE]
Job(program) == [program |-> program, opts |-> Usual, known |-> ""]
Refused(program, why) == [Job(program) EXCEPT !.known = why]
NoPeep(j) == [j EXCEPT !.opts.nopeep = TRUE]
AsFile(j) == [j EXCEPT !.opts.exe = TRUE]

I(v) == IF v < 0 THEN U("Sub", N(-v)) ELSE N(v)
Set2(l, r) == A("Assign", l, r)
Out(e) == Do(Apply("put1", <<e>>))
Outs(es) == [k \in DOMAIN es |-> Out(es[k])]
Ints(names) == [k \in DOMAIN names |-> Par(INT, names[k])]
Args(vs) == [k \in DOMAIN vs |-> I(vs[k])]
VarA == V("a")
VarB == V("b")
VarI == V("i")
BinaryOps == DOMAIN Prec

(***************************************************************************)
(* Expressions                                                             *)
(***************************************************************************)
\* a o1 b o2 c, grouped either way.
Pairs ==
  [k \in {<<"pair", o1, o2, v>> : o1 \in BinaryOps, o2 \in BinaryOps, v \in 1 .. 2} |->
     LET e1 == B(k[3], B(k[2], VarA, VarB), V("c"))
         e2 == B(k[2], VarA, B(k[3], VarB, V("c")))
         args == Args(<<<<9, 2, 1>>, <<-7, 3, 2>>>>[k[4]])
     IN Job(<<Fun(INT, "f", Ints(<<"a", "b", "c">>), <<Ret(e1)>>), Fun(INT, "g", Ints(<<"a", "b", "c">>), <<Ret(e2)>>),
              Main(<<Out(Apply("f", args)), Ret(Apply("g", args))>>)>>)]

\* An operator with a literal on either side, and on both.
Literals ==
  [k \in {<<"literal", op, c, v>> : op \in BinaryOps, c \in {1, 2, 3, 4, 8, 100, 256, 300}, v \in {-7, 0, 5}} |->
     LET c == I(k[3])
     IN Job(<<Fun(INT, "f", Ints(<<"a">>), <<Ret(B(k[2], VarA, c))>>), Fun(INT, "g", Ints(<<"a">>), <<Ret(B(k[2], c, VarA))>>),
              Main(<<Out(Apply("f", <<I(k[4])>>)), Out(B(k[2], I(k[4]), c)), Out(Apply("g", <<N(2)>>)), Ret(N(0))>>)>>)]

Unaries ==
  [k \in {<<"unary", o1, o2, v>> : o1 \in {"!", "~", "Sub", "Add"}, o2 \in {"!", "~", "Sub", "Add"}, v \in {-3, 0, 1, 300}} |->
     Job(<<Main(<<Int1("a", I(k[4])), Out(U(k[2], U(k[3], VarA))), Out(U(k[2], U(k[3], I(k[4])))),
                  Ret(B("Mul", U(k[2], VarA), U(k[3], VarA)))>>)>>)]

\* Assignments and steps of every kind of object, for their effect and for their value.
Target == [local |-> V("x"), global |-> V("g"), element |-> Idx(V("v"), VarI), pointed |-> U("Mul", V("p")), char |-> V("c"),
           chars |-> Idx(V("t"), VarI), member |-> Arrow(V("q"), "n"), inner |-> Dot(V("s"), "m")]
Objects ==
  <<Struct("S", <<Var(CHAR, "l", <<>>, <<>>), Var(INT, "n", <<>>, <<>>), Var(INT, "m", <<>>, <<>>)>>), Var(INT, "g", <<>>, <<N(6)>>)>>
Prepared(t) ==
  <<Int1("x", N(1)), Var(INT, "v", <<3>>, <<>>), Var(CHAR, "c", <<>>, <<N(5)>>), Var(CHAR, "t", <<2>>, <<>>),
    Var(STRUCT1, "s", <<>>, <<>>), Var(STRUCT1 + PTR, "q", <<>>, <<U("And", V("s"))>>),
    Var(INT + PTR, "p", <<>>, <<U("And", V("x"))>>), Int1("i", N(1)), Do(Set2(Target[t], N(41)))>>
Shown == Outs(<<V("x"), V("g"), Idx(V("v"), N(1)), V("c"), Idx(V("t"), N(1)), Dot(V("s"), "n"), Arrow(V("q"), "m")>>)
Assignments ==
  [k \in {<<"assign", op, t>> : op \in DOMAIN CompoundOf \cup {"Assign"}, t \in DOMAIN Target \ {"chars"}} |->
     Job(Objects \o <<Main(Prepared(k[3]) \o <<Do(A(k[2], Target[k[3]], N(3))), Out(A(k[2], Target[k[3]], VarI))>>
                           \o Shown \o <<Ret(Target[k[3]])>>)>>)]
Steps ==
  [k \in {<<"step", post, op, t>> : post \in BOOLEAN, op \in {"Inc", "Dec"}, t \in DOMAIN Target} |->
     LET step == IF k[2] THEN Post(k[3], Target[k[4]]) ELSE Pre(k[3], Target[k[4]])
     IN Job(Objects \o <<Main(Prepared(k[4]) \o <<Do(step), Out(step)>> \o Shown \o <<Ret(B("Mul", Target[k[4]], step))>>)>>)]

\* Conditions, as the value of an expression and where they choose; with and without the optimizer.
Conditionals ==
  [k \in {<<"choice", o1, o2, x, y, z>> : o1 \in {"Lor", "Lan"}, o2 \in {"Lor", "Lan"}, x \in 0 .. 1, y \in 0 .. 1, z \in 0 .. 1} |->
     LET e == B(k[2], V("x"), B(k[3], V("y"), V("z")))
         args == Args(<<k[4], k[5], k[6]>>)
         made == Job(<<Fun(INT, "f", Ints(<<"x", "y", "z">>),
                          <<IfElse(e, Out(N(1)), Out(N(2))), If(U("!", e), Out(N(3))),
                            Out(B("Add", Q(e, N(4), V("x")), N(1))), Ret(B("Sub", e, V("y")))>>),
                      Main(<<Ret(Apply("f", args))>>)>>)
     IN IF k[6] = 0 THEN NoPeep(made) ELSE made]

(***************************************************************************)
(* Statements                                                              *)
(***************************************************************************)
Below(x, n) == B("Lt", V(x), N(n))
LoopOf(kind, x, n, s) ==
  CASE kind = "while" -> <<Do(Set2(V(x), N(0))), While(Below(x, n), Block(<<Do(Post("Inc", V(x))), s>>))>>
    [] kind = "do" -> <<Do(Set2(V(x), N(0))), DoWhile(Block(<<Do(Pre("Inc", V(x))), s>>), Below(x, n))>>
    [] kind = "for" -> <<For(<<Set2(V(x), N(0))>>, <<Below(x, n)>>, <<Post("Inc", V(x))>>, s)>>
    [] kind = "ever" -> <<For(<<Set2(V(x), N(0)), Set2(VarA, V(x))>>, <<>>, <<Post("Inc", V(x))>>,
                              IfElse(B("Ge", V(x), N(n)), Break, s))>>
LoopKinds == {"while", "do", "for", "ever"}
Leaving(j) == CASE j = "break" -> Break [] j = "continue" -> Continue [] j = "return" -> Ret(VarA) [] j = "goto" -> Goto("out") [] j = "none" -> Nothing
\* A jump in a loop in a loop.
Loops ==
  [k \in {<<"loop", outer, inner, j>> : outer \in LoopKinds, inner \in LoopKinds, j \in {"break", "continue", "return", "goto", "none"}} |->
     LET body == Block(<<If(B("Eq", B("Add", VarI, V("j")), N(2)), Leaving(k[4])), Out(B("Add", B("Mul", VarI, N(10)), V("j")))>>)
     IN Job(<<Main(<<Int1("i", N(0)), Int1("j", N(0)), Int1("a", N(50))>>
                   \o LoopOf(k[2], "i", 2, Block(LoopOf(k[3], "j", 2, body) \o <<Out(VarI)>>))
                   \o <<Label("out", Out(V("j"))), Ret(VarI)>>)>>)]

\* A goto back to a label, past a declaration, and out of a block.
Gotos ==
  [k \in {<<"goto", n>> : n \in 0 .. 3} |->
     Job(<<Main(<<Int1("i", N(0)), Label("again", Out(VarI)), Do(Post("Inc", VarI)), If(Below("i", k[2]), Goto("again")),
                  Block(<<If(B("Eq", VarI, N(k[2])), Goto("end")), Out(N(77))>>), Label("end", Ret(VarI))>>)>>)]

\* A switch: its labels and what ends each case, the default's place, and what is around it.
CaseOf(v, ends) == <<Case(v, Out(N(10 * v)))>> \o (IF ends = "none" THEN <<>> ELSE <<Leaving(ends)>>)
SwitchBody(place, ends) ==
  LET d == <<Default(Out(N(99))), Break>>
  IN (IF place = "first" THEN d ELSE <<>>) \o CaseOf(1, ends) \o (IF place = "middle" THEN d ELSE <<>>) \o CaseOf(2, "break")
     \o (IF place = "last" THEN d ELSE <<>>)
Switches ==
  [k \in {<<"switch", place, ends, v>> : place \in {"no", "first", "middle", "last"},
                                         ends \in {"break", "continue", "return", "goto", "none"}, v \in 0 .. 2} |->
     Job(<<Main(<<Int1("i", N(0)), Int1("a", N(k[4])),
                  For(<<Set2(VarI, N(0))>>, <<Below("i", 2)>>, <<Post("Inc", VarI)>>,
                      Block(<<Switch(VarA, SwitchBody(k[2], k[3])), Out(VarI)>>)),
                  Label("out", Ret(VarA))>>)>>)]
\* A switch in a switch: the whole of a case, or after another statement of it.
Nested ==
  [k \in {<<"nested", whole, v, w>> : whole \in BOOLEAN, v \in 1 .. 3, w \in 1 .. 3} |->
     LET inner == Switch(VarB, <<Case(1, Out(N(5))), Break, Case(2, Out(N(6))), Break>>)
         cases == IF k[2] THEN <<Case(1, inner), Break>> ELSE <<Case(1, Out(N(3))), inner, Break>>
         program == <<Main(<<Int1("a", N(k[3])), Int1("b", N(k[4])),
                             Switch(VarA, cases \o <<Case(2, Out(N(8))), Break, Default(Out(N(9)))>>), Ret(VarA)>>)>>
     IN IF k[2] THEN Job(program) ELSE Refused(program, "unexpected compiler error")]

(***************************************************************************)
(* Objects and functions                                                   *)
(***************************************************************************)
Arrays ==
  [k \in {<<"array", d, x, y>> : d \in 1 .. 3, x \in 0 .. 1, y \in 0 .. 1} |->
     LET dims == SubSeq(<<2, 3, 2>>, 1, k[2])
         at(e, i, j, l) == CASE k[2] = 1 -> Idx(e, i) [] k[2] = 2 -> Idx(Idx(e, i), j) [] k[2] = 3 -> Idx(Idx(Idx(e, i), j), l)
         x == I(k[3])
         y == I(k[4])
         values == [j \in 1 .. Volume(dims) |-> N(20 + j)]
     IN Job(<<Var(INT, "g", dims, IF k[2] = 1 THEN values ELSE <<>>), Var(FLOAT, "h", <<2>>, <<Fl(3), Fl(4)>>),
              Main(<<Int1("i", x), Int1("j", y), Var(INT, "v", dims, <<>>), Int1("e", N(9)),
                     Do(Set2(at(V("v"), VarI, V("j"), N(1)), N(33))), Do(A("AddAssign", at(V("v"), x, y, N(1)), N(2))),
                     Do(Set2(at(V("g"), N(1), N(2), VarI), at(V("v"), VarI, y, N(1)))),
                     Out(at(V("g"), N(1), N(2), x)), Out(at(V("v"), x, V("j"), N(1))), Out(V("e")),
                     Out(To(INT, Idx(V("h"), VarI))),
                     Ret(at(V("v"), VarI, V("j"), I(1)))>>)>>)]

\* Pointers into an array of ints, chars or structures' members: steps, differences, comparisons.
Pointers ==
  [k \in {<<"pointer", t, n>> : t \in {INT, CHAR}, n \in 0 .. 2} |->
     LET p == V("p")
         q == V("q")
     IN Job(<<Fun(INT, "f", <<Par(k[2] + PTR, "p"), Par(INT, "i")>>, <<Do(Set2(Idx(p, VarI), N(7))), Ret(U("Mul", B("Add", p, VarI)))>>),
              Main(<<Var(k[2], "v", <<4>>, <<>>), Var(k[2] + PTR, "p", <<>>, <<>>), Var(k[2] + PTR, "q", <<>>, <<>>), Int1("i", N(k[3])),
                     Do(Set2(p, V("v"))), Do(Set2(q, B("Add", p, VarI))), Do(Set2(U("Mul", q), N(4))), Do(Set2(Idx(V("v"), N(3)), N(5))),
                     Out(B("Sub", q, p)), Out(B("Eq", q, p)), Out(B("Ge", p, q)), Out(Idx(V("v"), VarI)), Do(Post("Inc", q)),
                     Out(B("Sub", q, p)), Out(U("Mul", B("Add", N(3), p))), Out(Idx(B("Sub", q, N(1)), N(0))),
                     Ret(Apply("f", <<p, VarI>>))>>)>>)]

Structs ==
  [k \in {<<"struct", i>> : i \in 0 .. 1} |->
     Job(<<Struct("S", <<Var(CHAR, "c", <<>>, <<>>), Var(INT, "v", <<2>>, <<>>), Var(STRUCT1 + PTR, "next", <<>>, <<>>), Var(INT, "n", <<>>, <<>>)>>),
           Fun(INT, "f", <<Par(STRUCT1 + PTR, "p")>>, <<Ret(B("Add", Arrow(V("p"), "n"), Idx(Arrow(V("p"), "v"), N(k[2]))))>>),
           Main(<<Var(STRUCT1, "s", <<>>, <<>>), Var(STRUCT1, "t", <<>>, <<>>), Int1("i", N(k[2])),
                  Do(Set2(Dot(V("s"), "n"), N(4))), Do(Set2(Idx(Dot(V("s"), "v"), VarI), N(30))), Do(Set2(Dot(V("s"), "c"), N(6))),
                  Do(Set2(Dot(V("t"), "next"), U("And", V("s")))), Out(Arrow(Dot(V("t"), "next"), "n")), Out(Dot(V("s"), "c")),
                  Do(Post("Inc", Arrow(Dot(V("t"), "next"), "n"))), Out(SizeT(STRUCT1)), Ret(Apply("f", <<Dot(V("t"), "next")>>))>>)>>)]

Floats ==
  [k \in {<<"float", op, x, y>> : op \in {"Add", "Sub", "Mul", "Div"} \cup Relations, x \in {-2, 0, 3}, y \in {-2, 0, 3}} |->
     LET fl(v) == IF v < 0 THEN U("Sub", Fl(-v)) ELSE Fl(v)
         e == B(k[2], V("x"), V("y"))
         shown(b) == IF k[2] \in Relations THEN Out(b) ELSE Out(To(INT, b))
     IN Job(<<Fun(FLOAT, "f", <<Par(FLOAT, "x"), Par(INT, "i"), Par(FLOAT, "y")>>, <<Do(A("AddAssign", V("x"), Fl(0))), Ret(B("Sub", V("y"), V("x")))>>),
              Main(<<Var(FLOAT, "x", <<>>, <<fl(k[3])>>), Var(FLOAT, "y", <<>>, <<fl(k[4])>>), Int1("i", N(2)),
                     shown(e), shown(B(k[2], fl(k[3]), fl(k[4]))), Do(Set2(VarI, Apply("f", <<V("x"), VarI, V("y")>>))), Out(VarI),
                     Do(Apply("fput", <<B("Mul", V("x"), U("Sub", To(FLOAT, VarI)))>>)),
                     Do(Set2(V("x"), VarI)), If(V("x"), Out(N(1))), Ret(To(INT, V("x")))>>)>>)]

Chars ==
  [k \in {<<"char", v, u>> : v \in {5, 200, 300}, u \in BOOLEAN} |->
     [Job(<<Fun(INT, "f", <<Par(CHAR, "c")>>, <<Ret(V("c"))>>),
            Main(<<Var(CHAR, "c", <<>>, <<N(k[2])>>), Out(V("c")), Out(Apply("f", <<N(k[2])>>)), Do(Set2(V("c"), B("Add", V("c"), N(100)))),
                   Do(A("ShrAssign", V("c"), N(1))), Ret(V("c"))>>)>>)
        EXCEPT !.opts.uchar = k[3]]]

\* Functions of n parameters, before and after they are defined, nested and recursive; from a file.
Calls ==
  [k \in {<<"call", n, proto, file>> : n \in 1 .. 5, proto \in BOOLEAN, file \in BOOLEAN} |->
     LET names == SubSeq(<<"a", "b", "c", "d", "e">>, 1, k[2])
         sum == FoldLeft(LAMBDA e, x : B("Add", B("Mul", e, N(3)), V(x)), N(1), names)
         f == Fun(INT, "f", Ints(names), <<Int1("x", sum), If(B("Gt", VarA, N(0)), Ret(B("Sub", V("x"), Apply("f",
                    [j \in DOMAIN names |-> IF j = 1 THEN B("Sub", VarA, N(1)) ELSE V(names[j])])))), Ret(V("x"))>>)
         args == [j \in DOMAIN names |-> IF j = 2 THEN Apply("put2", <<N(7), N(8)>>) ELSE I(j - 1)]
         main == Main(<<Out(Apply("f", args)), Do(Apply("put3", <<N(1), Apply("put1", <<N(2)>>), Apply("h", <<>>)>>)),
                        Do(Apply("printf", [j \in DOMAIN names |-> I(40 + j)])), Ret(B("Div", N(50), Apply("h", <<>>)))>>)
         h == Fun(INT, "h", <<>>, <<Do(Comma(Apply("put1", <<N(11)>>), Apply("put1", <<N(12)>>))), Ret(I(-4))>>)
         made == Job(IF k[3] THEN <<Proto(INT, "f", Ints(names)), Proto(INT, "h", <<>>), main, h, f>> ELSE <<h, f, main>>)
     IN IF k[4] THEN AsFile(made) ELSE made]

\* External functions of as many arguments as registers, and of more.
Arguments5 ==
  [k \in {<<"arguments", n>> : n \in 1 .. 5} |->
     Job(<<Main(<<Do(Apply(<<"put1", "put2", "put3", "put4", "put5">>[k[2]], [j \in 1 .. k[2] |-> N(j)])), Ret(N(0))>>)>>)]

\* Names: a global hidden by a parameter and a local, blocks, functions without a value.
Names ==
  [k \in {<<"names", v>> : v \in 1 .. 4} |->
     LET twice(x) == Block(<<Int1(x, N(3)), Out(V(x))>>)
         program(ss) == <<Var(INT, "a", <<>>, <<N(20)>>), Fun(VOID, "f", Ints(<<"a">>), <<Out(VarA), Do(Post("Inc", VarA)), If(VarA, RetVoid), Out(N(1))>>),
                          Fun(INT, "g", <<>>, <<Int1("a", N(6)), Ret(VarA)>>), Main(ss)>>
     IN CASE k[2] = 1 -> Job(program(<<Do(Apply("f", <<N(2)>>)), Out(VarA), Out(Apply("g", <<>>)), Ret(VarA)>>))
          [] k[2] = 2 -> Job(program(<<twice("x"), Do(Apply("f", <<I(-1)>>)), Ret(VarA)>>))
          [] k[2] = 3 -> Refused(program(<<twice("x"), twice("x"), Ret(VarA)>>), "duplicate definition")
          [] k[2] = 4 -> Refused(<<Fun(FLOAT, "f", <<Par(VOID, "")>>, <<Ret(Fl(1))>>), Main(<<Ret(To(INT, Apply("f", <<>>)))>>)>>, "argument type mismatch")]

\* A global that a function hides, by a parameter or a local, with its own type or another.
Hiding ==
  [k \in {<<"hiding", t, u, local>> : t \in {CHAR, INT, FLOAT}, u \in {CHAR, INT, FLOAT, INT + PTR}, local \in BOOLEAN} |->
     LET u == k[3]
         f == Fun(INT, "f", <<Par(u, IF k[4] THEN "b" ELSE "a")>>,
                  (IF k[4] THEN <<Var(u, "a", <<>>, <<VarB>>)>> ELSE <<>>)
                  \o <<Ret(IF u = INT + PTR THEN Idx(VarA, N(0)) ELSE To(INT, VarA))>>)
         arg == CASE u = FLOAT -> Fl(2) [] u = INT + PTR -> U("And", VarI) [] OTHER -> N(2)
         why == IF u = INT + PTR THEN "bad pointer arithmetic or cast needed" ELSE ""
     IN Refused(<<Var(k[2], "a", <<>>, <<IF k[2] = FLOAT THEN Fl(20) ELSE N(20)>>), f,
              Main(<<Int1("i", N(7)), Out(Apply("f", <<arg>>)), Out(To(INT, VarA)), Do(Set2(VarA, N(300))),
                     Ret(To(INT, VarA))>>)>>, why)]

\* n statements with literals of their own: beyond the reach of branches and of the pool.
Lengths ==
  [k \in {<<"length", kind, n>> : kind \in LoopKinds \cup {"if", "case"}, n \in 1 .. 14} |->
     LET ss == Block([j \in 1 .. k[3] |-> Do(A("AddAssign", VarA, N(300 + 7 * j)))])
     IN Job(<<Main(<<Int1("a", N(0)), Int1("i", N(0))>>
                   \o (CASE k[2] = "if" -> <<IfElse(B("Eq", VarI, N(0)), ss, Out(VarI)), If(VarA, ss)>>
                         [] k[2] = "case" -> <<Switch(VarI, <<Case(1, ss), Break, Default(ss)>>)>>
                         [] OTHER -> LoopOf(k[2], "i", 2, ss))
                   \o <<Out(VarA), Ret(VarI)>>)>>)]

MCJobs ==
  Pairs @@ Literals @@ Unaries @@ Assignments @@ Steps @@ Conditionals @@ Loops @@ Gotos @@ Switches @@ Nested @@ Arrays @@ Pointers
  @@ Structs @@ Floats @@ Chars @@ Calls @@ Arguments5 @@ Names @@ Hiding @@ Lengths
=============================================================================
