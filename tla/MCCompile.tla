----------------------------- MODULE MCCompile -----------------------------
(* Small programs for Compiled, beside the Datalog programs: a behaviour       *)
(* compiles one or evaluates the other.                                       *)
EXTENDS MCDatalog, Compiled

I(n) == IntLit(n)
Str(t) == StringLit(t)
True == BoolLit(TRUE)
IntVar(x) == VarRef(x, IntType)
Ints == ListOf("int")
Sum(a, b) == BinaryExpr("+", a, b, "int")
Less(a, b) == BinaryExpr("<", a, b, "bool")
And(a, b) == BinaryExpr("and", a, b, "bool")
Or(a, b) == BinaryExpr("or", a, b, "bool")
Same(a, b) == BinaryExpr("==", a, b, "bool")
Quotient(a, b) == BinaryExpr("/", a, b, "int")
PrintInt(e) == CallStmt("mochi_print_i64", <<e>>)
Only(c, s) == IfStmt(c, <<s>>, <<>>)
Main(body) == Function("main", <<>>, Unit, body)
Script(body) == Source(<<>>, <<>>, <<Main(body)>>)

(* Typing: a declaration of x and two uses, straight or in a block.           *)
XList == VarRef("x", Ints)
XS == VarRef("xs", Ints)
Declarations ==
  {LetStmt("x", IntType, I(1), TRUE), LetStmt("x", IntType, I(1), FALSE),
   LetStmt("x", IntType, NoExpr, TRUE), LetStmt("x", IntType, Str(<<"a">>), TRUE),
   LetStmt("x", StringType, Str(<<"a">>), TRUE),
   LetStmt("x", Ints, ListLit(<<I(1)>>, Ints), TRUE),
   LetStmt("x", Ints, ListLit(<<I(1)>>, Ints), FALSE),
   LetStmt("x", Ints, ListLit(<<Str(<<"a">>)>>, Ints), FALSE),
   LetStmt("x", MapOf("string", "int"),
           MapLit(<<Str(<<"a">>), I(1), Str(<<"a">>), I(2)>>, MapOf("string", "int")), TRUE)}
Uses ==
  {AssignStmt("x", I(2)), AssignStmt("x", Str(<<"b">>)), AssignStmt("x", IntVar("y")),
   AssignStmt("x", AppendExpr(XList, I(2), Ints)),
   AssignStmt("x", AppendExpr(XList, Str(<<"b">>), Ints)),
   LetStmt("y", IntType, IntVar("x"), TRUE),
   LetStmt("x", IntType, I(7), TRUE), LetStmt("y", Ints, XList, TRUE),
   ListSetStmt("x", I(0), I(3)), ListSetStmt("x", I(1), I(5)),
   ListSetStmt("x", Str(<<"a">>), I(3)), MapPutStmt("x", Str(<<"b">>), I(4)),
   PrintInt(IntVar("x")), PrintInt(IntVar("y")), PrintInt(LenExpr(XList, Ints)),
   PrintInt(IndexExpr(XList, I(0), Ints)), PrintInt(IndexExpr(XList, I(1), Ints)),
   PrintInt(MapGetExpr(VarRef("x", MapOf("string", "int")), Str(<<"a">>), MapOf("string", "int"))),
   BreakStmt}
OutOfRange == {ListSetStmt("x", I(1), I(5)), PrintInt(IndexExpr(XList, I(1), Ints))}
Reads == {u \in Uses : u.st = "call"}
Typing ==
  {Script(<<d>> \o body) : d \in Declarations,
     body \in {<<u, v>> : u, v \in Uses}
              \cup {<<IfStmt(True, <<u>>, <<>>), v>> : u \in Uses, v \in Reads}
              \cup {<<TryCatchStmt(<<u, v>>, "e", <<PrintInt(I(9))>>)>>
                      : u \in Reads \ OutOfRange, v \in Uses \ OutOfRange}}

(* Control: two statements in the body of a loop over i, n counting along.    *)
N == IntVar("n")
At1(s) == Only(Same(IntVar("i"), I(1)), s)
InBody ==
  {At1(BreakStmt), At1(ContinueStmt), At1(ReturnStmt(NoExpr)), AssignStmt("i", I(0)),
   PrintInt(IntVar("i")), AssignStmt("n", Sum(N, I(1))),
   AssignStmt("ys", AppendExpr(VarRef("ys", Ints), IntVar("i"), Ints)),
   ForRangeStmt("j", I(0), I(2),
     <<Only(Same(IntVar("j"), IntVar("i")), ContinueStmt), PrintInt(IntVar("j"))>>),
   ForRangeStmt("j", IntVar("i"), I(3), <<AssignStmt("n", Sum(N, IntVar("j"))), At1(BreakStmt)>>),
   TryCatchStmt(<<LetStmt("q", IntType, Quotient(I(6), IntVar("i")), FALSE), PrintInt(IntVar("q"))>>,
                "e", <<LetStmt("q", IntType, N, FALSE), PrintInt(IntVar("q")), BreakStmt>>),
   TryCatchStmt(<<ForRangeStmt("j", I(0), I(2), <<PrintInt(Quotient(I(2), IntVar("j")))>>)>>,
                "e", <<AssignStmt("n", I(5))>>)}
Loops3(body) ==
  {ForRangeStmt("i", I(0), I(3), body),
   ForEachStmt("i", VarRef("xs", Ints), IntType, body),
   WhileStmt(Less(IntVar("k"), I(3)),
             <<LetStmt("i", IntType, IntVar("k"), FALSE), AssignStmt("k", Sum(IntVar("k"), I(1)))>> \o body)}
Control ==
  {Script(<<LetStmt("n", IntType, I(0), TRUE), LetStmt("k", IntType, I(0), TRUE),
            LetStmt("xs", Ints, ListLit(<<I(0), I(1), I(2)>>, Ints), FALSE),
            LetStmt("ys", Ints, ListLit(<<>>, Ints), TRUE),
            loop, PrintInt(N), PrintInt(LenExpr(VarRef("ys", Ints), Ints))>>)
     : loop \in UNION {Loops3(<<a, b>>) : a, b \in InBody}}

(* Functions, records, unions and maps.                                       *)
Point == [name |-> "P", fields |-> <<[name |-> "a", shape |-> IntType],
                                     [name |-> "b", shape |-> StringType]>>]
Sides == [name |-> "U", variants |-> <<[name |-> "L", fields |-> <<[shape |-> IntType]>>],
                                       [name |-> "R", fields |-> <<>>]>>]
Half == Function("half", <<Param("n", IntType), Param("d", IntType)>>, IntType,
  <<Only(Same(IntVar("d"), I(1)), ReturnStmt(IntVar("n"))),
    ForRangeStmt("i", I(0), IntVar("n"),
      <<Only(Same(Sum(IntVar("i"), IntVar("i")), IntVar("n")), ReturnStmt(IntVar("i")))>>),
    ReturnStmt(Quotient(IntVar("n"), IntVar("d")))>>)
Grow == Function("grow", <<Param("xs", Ints)>>, Ints,
  <<ListSetStmt("ys", I(0), I(8)), ReturnStmt(VarRef("xs", Ints))>>)
Lost == Function("lost", <<Param("n", IntType)>>, IntType,
  <<Only(Same(IntVar("n"), I(1)), ReturnStmt(I(1)))>>)
Show == Function("show", <<Param("u", UnionOf("U"))>>, Unit,
  <<MatchStmt(UnionVarRef("u", "U"), "U",
     <<MatchArm("L", <<Bind("n", 1, IntType)>>, NoExpr,
                <<PrintInt(IntVar("n")), Only(Less(I(1), IntVar("n")), ReturnStmt(NoExpr))>>),
       MatchArm(None, <<>>, NoExpr, <<PrintInt(I(0)), PrintInt(I(1))>>)>>)>>)
Side(v, n) == VariantLit("U", v, IF v = "L" THEN <<n>> ELSE <<>>)
CallHalf(n, d) == LetStmt("h", IntType, CallExpr("half", <<n, d>>, IntType), FALSE)
P(a) == RecordLit("P", <<"a", "b">>, <<a, Str(<<"s">>)>>)
FieldA(e) == FieldAccess(e, "P", "a", "int")
MainBodies ==
  {<<CallHalf(I(n), I(d)), PrintInt(IntVar("h"))>> : n \in {2, 3}, d \in 0..2}
  \cup {<<LetStmt("n", IntType, I(n), FALSE),
          TryCatchStmt(<<CallHalf(I(3), I(d)), PrintInt(IntVar("h"))>>, "e", <<PrintInt(N)>>),
          PrintInt(N)>> : n \in {4, 5}, d \in 0..2}
  \cup {<<CallStmt("show", <<Side(v, n)>>), PrintInt(I(3))>> : v \in {"L", "R"}, n \in {I(1), I(2)}}
  \cup {<<LetStmt("p", RecordOf("P"), P(a), FALSE), PrintInt(FieldA(VarRef("p", RecordOf("P"))))>>
          : a \in {I(1), Quotient(I(1), I(0)), Str(<<"t">>)}}
  \cup {<<LetStmt("u", UnionOf("U"), Side("L", I(1)), FALSE),
          MatchStmt(UnionVarRef("u", "U"), "U",
            <<MatchArm("L", <<Bind(x, 1, IntType)>>, NoExpr, <<PrintInt(IntVar(x)), s>>),
              MatchArm(r, <<>>, NoExpr, <<>>)>>)>>
          : x \in {"a", "u"}, r \in {"R", "L", None}, s \in {PrintInt(I(2)), BreakStmt}}
  \cup {<<MatchStmt(Side("R", I(1)), "U",
            <<MatchArm(None, <<>>, NoExpr, <<PrintInt(I(1)), PrintInt(I(2))>>),
              MatchArm("R", <<>>, NoExpr, body)>>)>>
          : body \in {<<>>, <<ReturnStmt(NoExpr)>>}}
  \cup {<<MatchStmt(Side("R", I(1)), "U",
            <<MatchArm("R", <<>>, NoExpr, <<s>>), MatchArm(None, <<>>, NoExpr, <<>>)>>)>>
          : s \in {ReturnStmt(NoExpr), Only(True, PrintInt(I(1))), PrintInt(I(2))}}
  \cup {<<LetStmt("h", IntType, CallExpr("lost", <<I(n)>>, IntType), FALSE), PrintInt(IntVar("h"))>>
          : n \in {1, 2}}
  \cup {<<CallStmt("half", <<I(1)>>)>>, <<CallStmt("half", <<I(1), I(1)>>)>>,
        <<LetStmt("h", Ints, CallExpr("grow", <<ListLit(<<I(1)>>, Ints)>>, Ints), TRUE)>>,
        <<LetStmt("h", StringType, CallExpr("half", <<I(1), I(1)>>, StringType), TRUE)>>}
Calling == {Source(<<Point>>, <<Sides>>, fs \o <<Main(b)>>)
              : fs \in {<<Half, Show, Lost>>, <<Half, Show, Grow>>}, b \in MainBodies}

(* Closures: the bodies of a lifted function, what it captures, and its uses.  *)
Env == EnvRef("n", "int")
XI == IntVar("x")
S == IntVar("s")
Sig1 == <<"int", "int">>
CapN == FunCapture("n", "int", "n")
Lam == FunLit("adder", Sig1, <<CapN>>)
FVar == VarRef("f", FunOf(Sig1))
LetF == LetStmt("f", FunOf(Sig1), Lam, FALSE)
LetN(m) == LetStmt("n", IntType, I(2), m)
LetY(e) == LetStmt("y", IntType, e, FALSE)
CallF(e) == <<LetY(FunCallExpr(FVar, <<e>>, "int")), PrintInt(IntVar("y"))>>
Adder(body) == Lifted("adder", <<CapN>>, <<Param("x", IntType)>>, IntType, body)
Plain == Adder(<<ReturnStmt(Sum(Env, XI))>>)
LetS == LetStmt("s", IntType, Env, TRUE)
LiftedBodies ==
  {<<Only(Less(Env, XI), ReturnStmt(Env)), ReturnStmt(NegExpr(XI))>>,
   <<PrintInt(Env), ReturnStmt(Quotient(Env, XI))>>,
   <<LetS, WhileStmt(Less(S, Sum(Env, I(2))), <<AssignStmt("s", Sum(S, I(1)))>>), ReturnStmt(S)>>,
   <<LetS, ForRangeStmt("i", I(0), I(2), <<AssignStmt("s", Sum(S, XI))>>), ReturnStmt(S)>>,
   <<LetS, ForRangeStmt("i", I(0), I(2), <<AssignStmt("s", Sum(S, Env))>>), ReturnStmt(S)>>,
   <<TryCatchStmt(<<ReturnStmt(Quotient(Env, XI))>>, "e", <<>>), ReturnStmt(XI)>>,
   <<LetStmt("l", Ints, ListLit(<<I(4), Env>>, Ints), FALSE), ReturnStmt(XI)>>,
   <<LetStmt("n", IntType, I(1), FALSE), ReturnStmt(Env)>>,
   <<LetY(CallExpr("half", <<Env, XI>>, IntType)), ReturnStmt(IntVar("y"))>>}
\* A capture by the name of a parameter.
CapX == FunCapture("x", "int", "n")
Clash == Lifted("clash", <<CapX>>, <<Param("x", IntType)>>, IntType, <<ReturnStmt(XI)>>)
\* f as a parameter, and made by a function.
ApplyF == Function("apply", <<Param("f", FunOf(Sig1)), Param("k", IntType)>>, IntType,
                   CallF(IntVar("k")) \o <<ReturnStmt(IntVar("y"))>>)
MakeF == Function("make", <<Param("n", IntType)>>, FunOf(Sig1), <<ReturnStmt(Lam)>>)
Above == Lifted("above", <<CapN>>, <<Param("x", IntType)>>, BoolType, <<ReturnStmt(Less(Env, XI))>>)
Plus == Function("plus", <<Param("a", IntType), Param("b", IntType)>>, IntType,
                 <<PrintInt(IntVar("b")), ReturnStmt(Quotient(IntVar("a"), IntVar("b")))>>)
Letters == Function("letters", <<Param("t", StringType)>>, IntType,
                    <<ReturnStmt(StrExpr("strlen", <<VarRef("t", StringType)>>, "int"))>>)
Fns == <<Half, ApplyF, MakeF, Above, Plus, Letters, Clash>>
Texts == ListOf("string")
ListXs(s) == LetStmt("xs", Ints, ListLit(s, Ints), FALSE)
LetW == LetStmt("ws", Texts, ListLit(<<Str(<<"a", "b">>), Str(<<>>)>>, Texts), FALSE)
OfSig(f, sig) == FunLit(f, sig, <<>>)
Out(e, m) == LetStmt("zs", Ints, e, m)
Zs == VarRef("zs", Ints)
ShowZs == <<PrintInt(LenExpr(Zs, Ints)), ForEachStmt("z", Zs, IntType, <<PrintInt(IntVar("z"))>>)>>
ClosureUses ==
  {CallF(I(1)),
   <<TryCatchStmt(CallF(I(0)), "e", <<PrintInt(N)>>)>>,
   <<LetY(CallExpr("apply", <<FVar, I(1)>>, IntType)), PrintInt(IntVar("y"))>>,
   <<LetY(FunCallExpr(Lam, <<I(1)>>, "int"))>>,
   <<LetY(FunCallExpr(FVar, <<BoolLit(TRUE)>>, "int"))>>,
   <<LetY(CallExpr("adder", <<I(1)>>, IntType))>>, <<CallStmt("adder", <<I(1)>>)>>,
   <<LetStmt("g", FunOf(<<"bool", "int">>), FVar, FALSE)>>,
   <<LetStmt("g", FunOf(Sig1), CallExpr("make", <<I(5)>>, FunOf(Sig1)), FALSE),
     LetY(FunCallExpr(VarRef("g", FunOf(Sig1)), <<N>>, "int")), PrintInt(IntVar("y"))>>}
Streams ==
  {<<Out(ListMapExpr(XS, Lam, "int"), m)>> \o ShowZs : m \in BOOLEAN}
  \cup {<<LetF, Out(ListMapExpr(XS, FVar, "int"), FALSE)>> \o ShowZs,
        <<Out(ListMapExpr(XS, FunLit("above", <<"int", "bool">>, <<CapN>>), "int"), FALSE)>>,
        <<Out(ListFilterExpr(XS, FunLit("above", <<"int", "bool">>, <<CapN>>), "int"), FALSE)>> \o ShowZs,
        <<LetW, LetStmt("f", FunOf(<<"string", "int">>), OfSig("letters", <<"string", "int">>), FALSE),
          Out(ListMapExpr(VarRef("ws", Texts), VarRef("f", FunOf(<<"string", "int">>)), "int"), FALSE)>>
          \o ShowZs,
        <<Out(ListMapExpr(ListLit(<<I(1)>>, Ints), Lam, "int"), FALSE)>>,
        <<Out(ListMapExpr(XS, FunLit("clash", Sig1, <<CapX>>), "int"), FALSE)>>,
        <<Out(ListMapExpr(N, Lam, "int"), FALSE)>>, <<Out(ListMapExpr(XS, N, "int"), FALSE)>>,
        <<Out(ListMapExpr(MapLit(<<I(1), I(2)>>, MapOf("int", "int")), Lam, "int"), FALSE)>>}
  \cup {<<TryCatchStmt(<<LetY(ListFoldlExpr(XS, OfSig("plus", <<"int", "int", "int">>), I(8), "int")),
                         PrintInt(IntVar("y"))>>, "e", <<PrintInt(I(9))>>), PrintInt(N)>>}
Closures ==
  {Source(<<>>, <<>>, Fns \o <<Adder(b), Main(<<LetN(FALSE), LetF>> \o CallF(I(k)))>>)
     : b \in LiftedBodies, k \in {0, 1, 3}}
  \cup {Source(<<>>, <<>>, Fns \o <<Plain, Main(<<LetN(m), LetF>> \o u \o after)>>)
          : m \in BOOLEAN, u \in ClosureUses,
            after \in {<<>>, <<AssignStmt("n", I(7))>>, <<Only(True, AssignStmt("n", I(7))), PrintInt(N)>>}}
  \cup {Source(<<>>, <<>>, Fns \o <<Plain, Main(<<ListXs(xs), LetN(FALSE)>> \o u)>>)
          : u \in Streams, xs \in {<<>>, <<I(4), I(1), I(3)>>, <<I(2), I(0)>>}}
  \cup {Source(<<>>, <<>>, Fns \o <<Plain, Main(
          <<ListXs(<<I(1), I(5)>>), LetStmt("f", FunOf(Sig1), OfSig("half", Sig1), TRUE), loop>> \o CallF(I(1)))>>)
          : loop \in {ForEachStmt("n", XS, IntType, <<AssignStmt("f", Lam)>> \o CallF(N)),
                      ForRangeStmt("n", I(0), I(2), <<LetF>>)}}
  \cup {Source(<<>>, <<>>, <<Plain, Main(
          <<ListXs(<<I(1), I(5)>>), LetN(FALSE), LetStmt("f", FunOf(Sig1), Lam, TRUE),
            loop>> \o CallF(I(1)))>>)
          : loop \in {ForEachStmt("m", XS, IntType,
                        <<AssignStmt("f", FunLit("adder", Sig1, <<FunCapture("n", "int", "m")>>))>> \o CallF(N)),
                      ForRangeStmt("m", I(0), I(2),
                        <<AssignStmt("f", FunLit("adder", Sig1, <<FunCapture("n", "int", "m")>>))>>)}}

(* Sets, queries, strings and the nodes that are not lowered.                  *)
IntSet == SetOf("int")
SV == VarRef("s", IntSet)
AddTo(v) == AssignStmt("s", SetAddExpr(SV, v, IntSet))
HasIn(n) == CallStmt("mochi_print_bool", <<SetHasExpr(SV, I(n), IntSet)>>)
Sets ==
  {Script(<<LetStmt("s", IntSet, SetLiteralExpr(e, IntSet), m)>> \o a
           \o <<PrintInt(SetLenExpr(SV)), HasIn(1), HasIn(3)>>)
     : e \in {<<>>, <<I(1), I(2), I(1)>>, <<BoolLit(TRUE)>>}, m \in BOOLEAN,
       a \in {<<>>, <<AddTo(I(3)), AddTo(I(3))>>, <<AddTo(I(1))>>, <<AddTo(Str(<<"a">>))>>,
              <<AssignStmt("s", SetLiteralExpr(<<I(3)>>, IntSet))>>,
              <<AssignStmt("s", SetLiteralExpr(<<>>, SetOf("string")))>>}}

Arranged(e) == <<LetStmt("zs", Ints, e, TRUE), AssignStmt("zs", AppendExpr(Zs, I(6), Ints))>> \o ShowZs
TwoOf == And(Less(I(0), IntVar("x")), Less(Quotient(I(2), IntVar("x")), I(2)))
QueryOf(c) ==
  <<LetStmt("out", Ints, ListLit(<<>>, Ints), TRUE),
    QueryScopeStmt(<<ForEachStmt("x", XS, IntType,
      <<Only(c, AssignStmt("out", AppendExpr(VarRef("out", Ints), IntVar("x"), Ints)))>>)>>)>>
Arranging ==
  {Script(<<ListXs(<<I(2), I(0), I(1)>>)>> \o QueryOf(c) \o Arranged(e))
     : c \in {TwoOf, Or(Less(IntVar("x"), I(1)), Less(Quotient(I(2), IntVar("x")), I(2))),
              And(Less(Quotient(I(2), IntVar("x")), I(2)), True)},
       e \in {ListSortAscExpr(VarRef("out", Ints)), XS}
             \cup {ListSliceExpr(ListSortAscExpr(XS), I(a), I(b)) : a \in {-1, 0, 2}, b \in {-1, 1, 5}}}

T == Str(<<"a", "b">>)
TVar == VarRef("t", StringType)
PrintStr(e) == CallStmt("mochi_print_str", <<e>>)
TextUses ==
  {PrintStr(StrExpr("strat", <<TVar, I(k)>>, "string")) : k \in {0, 1}}
  \cup {PrintStr(StrExpr("substr", <<TVar, I(a), I(b)>>, "string")) : a, b \in 0..2}
  \cup {CallStmt("mochi_print_bool", <<StrExpr("strhas", <<TVar, Str(u)>>, "bool")>>)
          : u \in {<<>>, <<"b">>, <<"b", "a">>}}
  \cup {PrintStr(BinaryExpr("cat", TVar, TVar, "string")),
        PrintStr(StrExpr("strat", <<TVar, T>>, "string")),
        LetStmt("r", StringType, StrExpr("reverse", <<TVar>>, "string"), FALSE)}
KV == MapOf("int", "int")
Points == ListOfRecord("P")
Unsupported ==
  {<<PanicStmt(I(1), T)>>, <<PanicStmt(T, T)>>, <<WriteFileStmt(T, T)>>, <<AppendFileStmt(T, I(1))>>,
   <<SaveCSVStmt(T, XS)>>, <<PrintInt(ListStatExpr("sum", XS, "int"))>>,
   <<LetStmt("b", BoolType, ListContainsExpr(XS, I(1), Ints), FALSE)>>,
   <<LetStmt("b", BoolType, ListContainsExpr(XS, T, Ints), FALSE)>>,
   <<Out(MapValuesExpr(MapLit(<<I(1), I(2)>>, KV), KV), FALSE)>>,
   <<Out(SetToListExpr(SetLiteralExpr(<<I(1)>>, IntSet)), FALSE)>>,
   <<LetStmt("m", OMapOf("int", "int"), OMapLiteralExpr(<<I(1), I(2)>>, OMapOf("int", "int")), TRUE),
     OMapPutStmt("m", I(1), I(3))>>,
   <<Only(BoolLit(FALSE), PanicStmt(I(1), T))>>}
Others ==
  {Script(<<LetStmt("t", StringType, T, FALSE), u, PrintInt(I(1))>>) : u \in TextUses}
  \cup {Script(<<ListXs(<<I(1)>>)>> \o u) : u \in Unsupported}
  \cup {Script(<<LetStmt("m", KV, MapLit(<<I(1), I(2), I(2), I(0)>>, KV), TRUE), MapPutStmt("m", I(k), I(5)),
                 Out(MapKeysExpr(VarRef("m", KV), KV), FALSE),
                 PrintInt(MapLenExpr(VarRef("m", KV), KV))>> \o ShowZs) : k \in 1..3}
  \cup {Source(<<>>, <<Sides>>, <<Main(
          <<LetStmt("u", UnionOf("U"), Side("L", I(1)), FALSE),
            PrintInt(VariantFieldAccess(UnionVarRef("u", "U"), 1, "int"))>>)>>),
        Script(<<LetStmt("s", IntSet, SetLiteralExpr(<<I(1)>>, IntSet), TRUE),
                 LetStmt("r", SetOf("string"), SetAddExpr(SV, T, SetOf("string")), FALSE)>>)}
  \cup {Script(<<ListXs(<<I(1)>>), LetW,
                 LetStmt("r", StringType, StrExpr("join", <<xs, T>>, "string"), FALSE),
                 PrintStr(VarRef("r", StringType))>>) : xs \in {XS, VarRef("ws", Texts)}}
  \cup {Script(<<TryCatchStmt(<<PrintInt(Quotient(I(1), I(d)))>>, "e", <<LetY(e)>>)>>)
          : d \in {0, 1}, e \in {IntVar("e"), Sum(IntVar("e"), I(1))}}
  \cup {Source(<<Point>>, <<>>, <<Main(
          <<LetStmt("ps", Points, ListLit(ps, Points), FALSE),
            TryCatchStmt(<<LetStmt("qs", Points, ListSortAscExpr(VarRef("ps", Points)), FALSE)>>,
                         "e", <<PrintInt(I(9))>>)>>)>>) : ps \in {<<>>, <<P(I(2))>>, <<P(I(2)), P(I(1))>>}}

(* Two of a kind: unions, records and elements that Verify takes for one another. *)
Q == [name |-> "Q", fields |-> <<[name |-> "a", shape |-> IntType]>>]
Tops == [name |-> "W", variants |-> <<[name |-> "T", fields |-> <<>>]>>]
Length == Function("length", <<Param("zs", Ints)>>, Unit, <<PrintInt(LenExpr(Zs, Ints))>>)
Keep == Function("keep", <<Param("u", UnionOf("U"))>>, UnionOf("U"), <<ReturnStmt(UnionVarRef("u", "U"))>>)
Swap == Function("swap", <<>>, UnionOf("U"), <<ReturnStmt(VariantLit("W", "T", <<>>))>>)
First == Function("first", <<Param("p", RecordOf("P"))>>, IntType,
                  <<ReturnStmt(FieldA(VarRef("p", RecordOf("P"))))>>)
QOf(n) == RecordLit("Q", <<"a">>, <<I(n)>>)
Made1 == {Side("L", I(1)), VariantLit("W", "T", <<>>), VariantLit("U", "T", <<>>),
          VariantLit("U", "L", <<>>), VariantLit("U", "L", <<Str(<<>>)>>)}
LetU(e) == LetStmt("u", UnionOf("U"), e, TRUE)
MatchOn(e, b) ==
  MatchStmt(e, "U", <<MatchArm("L", <<b>>, NoExpr, <<PrintInt(I(1)), PrintInt(I(2))>>),
                      MatchArm(None, <<>>, NoExpr, <<PrintInt(I(3)), PrintInt(I(4))>>)>>)
LetPs == LetStmt("ps", Points, ListLit(<<P(I(1))>>, Points), TRUE)
Alike ==
  {Source(<<Point, Q>>, <<Sides, Tops>>, <<Length, Keep, Swap, First, Main(body)>>)
     : body \in {<<LetU(e)>> : e \in Made1}
               \cup {<<LetU(Side("R", None)), AssignStmt("u", e)>> : e \in Made1}
               \cup {<<LetU(CallExpr("keep", <<e>>, UnionOf("U"))), PrintInt(I(1))>> : e \in Made1}
               \cup {<<MatchOn(e, Bind("n", i, s))>>
                       : e \in Made1, i \in {1, 2}, s \in {IntType, StringType}}
               \cup {<<LetPs, ListSetStmt("ps", I(0), e), CallStmt("first", <<e>>),
                       PrintInt(LenExpr(VarRef("ps", Points), Points))>> : e \in {P(I(2)), QOf(2)}}
               \cup {<<CallStmt("first", <<e>>)>> : e \in {P(I(2)), QOf(2), I(2)}}
               \cup {<<CallStmt("length", <<e>>)>>
                       : e \in {ListLit(<<I(1)>>, Ints), ListLit(<<T>>, Texts), I(1)}}
               \cup {<<LetStmt("h", IntType, CallExpr("first", <<QOf(2)>>, IntType), FALSE)>>,
                     <<LetU(CallExpr("swap", <<>>, UnionOf("U")))>>}}

(* A match in a loop, one of whose arms ends the round or leaves the loop.      *)
MatchThen(jump) ==
  MatchStmt(UnionVarRef("u", "U"), "U",
    <<MatchArm("L", <<Bind("a", 1, IntType)>>, NoExpr, <<PrintInt(IntVar("a")), jump>>),
      MatchArm(None, <<>>, NoExpr, <<PrintInt(I(8)), PrintInt(I(9))>>)>>)
MatchLoops(jumps) ==
  {Source(<<>>, <<Sides>>, <<Main(
      <<LetStmt("n", IntType, I(0), TRUE), ListXs(<<I(0), I(1), I(2)>>),
        LetStmt("k", IntType, I(0), TRUE), loop, PrintInt(N)>>)>>)
     : loop \in UNION {Loops3(<<LetStmt("u", UnionOf("U"), Side(v, IntVar("i")), FALSE), MatchThen(j),
                               AssignStmt("n", Sum(N, I(1)))>>) : v \in {"L", "R"}, j \in jumps}}
JumpInMatch == MatchLoops({BreakStmt, Only(Same(IntVar("i"), I(1)), BreakStmt), ContinueStmt})

Nothing == Script(<<>>)
AllPrograms ==
  Typing \cup Control \cup Closures \cup Calling \cup Sets \cup Arranging \cup Others \cup Alike
  \cup MatchLoops({ContinueStmt, Only(Same(IntVar("i"), I(1)), ContinueStmt)}) \cup {Nothing}
\* TLC evaluates AllPrograms once, and what a .cfg substitutes at every use.
Everything == AllPrograms

(* An append to a list with two names, or to the list a loop walks.            *)
Appends == {AssignStmt(x, AppendExpr(VarRef(y, Ints), I(2), Ints)) : x, y \in {"xs", "ys"}}
Aliased ==
  {Script(<<LetStmt("xs", Ints, ListLit(<<I(1), I(3)>>, Ints), TRUE),
            LetStmt("ys", Ints, XS, TRUE), s,
            PrintInt(LenExpr(XS, Ints)), PrintInt(LenExpr(VarRef("ys", Ints), Ints))>>)
     : s \in Appends
             \cup {ForEachStmt("i", XS, IntType, <<Only(Same(IntVar("i"), I(n)), a)>>)
                     : a \in Appends, n \in {1, 3}}
             \cup {ListSetStmt("ys", I(0), I(n)) : n \in 2..9}}

(* The expressions and the blocks of these programs, by their height: those of  *)
(* the sources, and those of the Java methods, where environments are renamed.  *)
OperandsOfAll(exprs) == UNION {ToSet(Args(e)) : e \in exprs}
PartsOfAll(blocks) ==
  LET some == blocks \ {<<>>}
  IN {Tail(ss) : ss \in some} \cup UNION {ToSet(Bodies(s)) : s \in {Head(ss) : ss \in some}}
\* The expressions of a statement, the missing ones among them.
Mentions(s) ==
  Verified(s) \cup (CASE s.st = "let" -> {s.init} [] s.st = "return" -> {s.value}
                      [] s.st = "match" -> {s.arms[i].guard : i \in DOMAIN s.arms}
                      [] OTHER -> {})
\* The levels under a set, and the set with those.  (TLC evaluates an argument at
\* every use, and what a set of one binds once.)
OnTop(levels, all) == Append(levels, all \cup (IF levels = <<>> THEN {} ELSE Last(levels)))
TheOnly(set) == CHOOSE one \in set : TRUE
RECURSIVE BlockLevels(_), ExprLevels(_)
BlockLevels(all) ==
  IF all = {} THEN <<>>
  ELSE TheOnly({OnTop(under, all) : under \in {BlockLevels(parts) : parts \in {PartsOfAll(all)}}})
ExprLevels(all) ==
  IF all = {} THEN <<>>
  ELSE TheOnly({OnTop(under, all) : under \in {ExprLevels(parts) : parts \in {OperandsOfAll(all)}}})
FunctionsOf(programs) ==
  {Last(p.functions) : p \in programs}
  \cup UNION {ToSet(fs) : fs \in {Front(p.functions) : p \in programs}}
BodiesOf(functions) ==
  {fn.body : fn \in functions}
  \cup {JavaBody(fn) : fn \in {f \in functions : f.captures # <<>>}}
BlocksByHeight ==
  TheOnly({BlockLevels(all) :
             all \in {BodiesOf(functions) :
                        functions \in {FunctionsOf(programs) :
                                         programs \in {AllPrograms \cup Aliased \cup JumpInMatch}}}})
StmtsOf(blocks) == {Head(ss) : ss \in blocks \ {<<>>}}
ExprsByHeight ==
  TheOnly({ExprLevels(all) :
             all \in {UNION {Mentions(s) : s \in StmtsOf(blocks)} : blocks \in {Last(BlocksByHeight)}}})
AllExprs == ExprsByHeight
EveryWord == STRING
AllBlocks == BlocksByHeight

EitherInit ==
  /\ prog = Idle \/ source = Nothing
  /\ Init /\ CompileInit

EitherNext ==
  \/ prog # Idle /\ Next /\ UNCHANGED runVars
  \/ prog = Idle /\ CompileNext /\ UNCHANGED vars
  \/ (Ended \/ out # Pending) /\ UNCHANGED <<vars, runVars>>

EitherSpec == EitherInit /\ [][EitherNext]_<<vars, runVars>> /\ CompileFairness
=============================================================================
