------------------------------ MODULE Program ------------------------------
(***************************************************************************)
(* The typed intermediate form (transpiler/aotir/program.go): the nodes the  *)
(* verifier and the Java lowering walk.  A type is a shape: its head and the *)
(* annotations that go with it, None where the head has no use for one.      *)
(* Lists hold scalars or records, maps and sets scalars; float, nested        *)
(* containers, and the stream, agent and foreign nodes are left out.  A        *)
(* string is a sequence of letters.  Only a let initialises from a call, of a  *)
(* function, of a function value or of map, filter and reduce.                *)
(***************************************************************************)
EXTENDS Integers, Sequences

\* The expressions and the blocks of the programs, by their height: the operands of
\* an expression of Exprs[n] are in Exprs[n - 1], what a block of Blocks[n] consists
\* of is in Blocks[n - 1], and the last level has them all.
CONSTANTS Exprs, Blocks

\* What names and strings are made of.
CONSTANT Words

None == "-"

Kinds ==
  {"int", "float", "bool", "string", "unit", "invalid", "record", "union", "list", "map",
   "omap", "set", "fun"}
ASSUME WordsAssumption == Kinds \cup {None} \subseteq Words

\* The level under the n-th.
Under(levels, n) == IF n = 1 THEN {} ELSE levels[n - 1]

Shape(head, name, elem, elemName, key, value) ==
  [head |-> head, name |-> name, elem |-> elem, elemName |-> elemName,
   key |-> key, value |-> value, sig |-> <<>>]

Scalar(h) == Shape(h, None, None, None, None, None)
IntType == Scalar("int")
BoolType == Scalar("bool")
StringType == Scalar("string")
Unit == Scalar("unit")
RecordOf(r) == Shape("record", r, None, None, None, None)
UnionOf(u) == Shape("union", u, None, None, None, None)
ListOf(elem) == Shape("list", None, elem, None, None, None)
ListOfRecord(r) == Shape("list", None, "record", r, None, None)
MapOf(k, v) == Shape("map", None, None, None, k, v)
OMapOf(k, v) == Shape("omap", None, None, None, k, v)
SetOf(elem) == Shape("set", None, elem, None, None, None)
\* A signature: the heads of the parameters, then the one that is returned.
FunOf(sig) == [Scalar("fun") EXCEPT !.sig = sig]
ResultOf(sig) == sig[Len(sig)]

\* What a container of this shape holds.
ElementOf(s) ==
  CASE s.head = "list" -> (IF s.elem = "record" THEN RecordOf(s.elemName) ELSE Scalar(s.elem))
    [] s.head = "set" -> Scalar(s.elem)
    [] s.head = "map" -> Scalar(s.value)
    [] OTHER -> Scalar("invalid")

(***************************************************************************)
(* Expressions.  "shape" is what Type() and the expr...Type helpers of the   *)
(* verifier answer for the node; "args" are its operands, in order.          *)
(***************************************************************************)
Node(op, args, shape) == [op |-> op, args |-> args, shape |-> shape]

IntLit(n) == [op |-> "int", n |-> n, shape |-> IntType]
StringLit(t) == [op |-> "string", t |-> t, shape |-> StringType]
BoolLit(b) == [op |-> "bool", b |-> b, shape |-> BoolType]
VarRef(x, s) == [op |-> "var", x |-> x, shape |-> s]
UnionVarRef(x, u) == [op |-> "unionvar", x |-> x, shape |-> UnionOf(u)]
BinaryExpr(op, l, r, result) == Node(op, <<l, r>>, Scalar(result))
NotExpr(e) == Node("not", <<e>>, BoolType)
NegExpr(e) == Node("neg", <<e>>, IntType)
ListLit(elems, s) == Node("list", elems, s)
AppendExpr(xs, v, s) == Node("append", <<xs, v>>, s)
\* These four are stamped with the shape they expect of their receiver.
OnReceiver(op, args, of, shape) == [op |-> op, args |-> args, of |-> of, shape |-> shape]
IndexExpr(xs, i, of) == OnReceiver("index", <<xs, i>>, of, ElementOf(of))
LenExpr(xs, of) == OnReceiver("len", <<xs>>, of, IntType)
MapGetExpr(m, k, of) == OnReceiver("get", <<m, k>>, of, ElementOf(of))
MapHasExpr(m, k, of) == OnReceiver("has", <<m, k>>, of, BoolType)
\* Keys and values alternate.
MapLit(kvs, s) == Node("map", kvs, s)
RecordLit(r, names, values) ==
  [op |-> "record", names |-> names, args |-> values, shape |-> RecordOf(r)]
FieldAccess(e, r, f, result) ==
  [op |-> "field", args |-> <<e>>, record |-> r, field |-> f, shape |-> Scalar(result)]
VariantLit(u, v, values) ==
  [op |-> "variant", variant |-> v, args |-> values, shape |-> UnionOf(u)]
VariantFieldAccess(e, f, result) ==
  [op |-> "vfield", args |-> <<e>>, field |-> f, shape |-> Scalar(result)]
\* Nodes of the queries, of sets, of strings and of ordered maps.
ListSortAscExpr(xs) == Node("sort", <<xs>>, xs.shape)
ListSliceExpr(xs, from, to) == Node("slice", <<xs, from, to>>, xs.shape)
\* min, max and sum are stamped with the element they return, contains with its own.
ListStatExpr(op, xs, elem) == Node(op, <<xs>>, Scalar(elem))
ListContainsExpr(xs, v, of) == OnReceiver("contains", <<xs, v>>, of, BoolType)
MapLenExpr(m, of) == OnReceiver("maplen", <<m>>, of, IntType)
MapKeysExpr(m, of) == OnReceiver("keys", <<m>>, of, ListOf(of.key))
MapValuesExpr(m, of) == OnReceiver("values", <<m>>, of, ListOf(of.value))
SetLiteralExpr(elems, s) == Node("set", elems, s)
SetAddExpr(set, v, s) == Node("setadd", <<set, v>>, s)
SetHasExpr(set, v, of) == OnReceiver("sethas", <<set, v>>, of, BoolType)
SetLenExpr(set) == Node("setlen", <<set>>, IntType)
SetToListExpr(set) == Node("setlist", <<set>>, ListOf(set.shape.elem))
OMapLiteralExpr(kvs, s) == Node("omap", kvs, s)
OMapExpr(op, args, of, s) == OnReceiver(op, args, of, s)
StrExpr(op, args, result) == Node(op, args, Scalar(result))

(***************************************************************************)
(* Closures.  A literal names the function its body was lifted to and the     *)
(* variables it captures; the body reads the field f of its environment.      *)
(***************************************************************************)
FunCapture(f, head, src) == [field |-> f, head |-> head, src |-> src]
FunLit(f, sig, captures) ==
  [op |-> "funlit", func |-> f, captures |-> captures, shape |-> FunOf(sig)]
EnvName(f) == "__e->" \o f
EnvRef(f, h) == VarRef(EnvName(f), Scalar(h))
FunCallExpr(callee, args, result) == Node("funcall", <<callee>> \o args, Scalar(result))
ListMapExpr(xs, fn, elem) == Node("mapx", <<xs, fn>>, ListOf(elem))
ListFilterExpr(xs, fn, elem) == Node("filterx", <<xs, fn>>, ListOf(elem))
ListFoldlExpr(xs, fn, init, acc) == Node("foldl", <<xs, fn, init>>, Scalar(acc))
HigherOrder == {"mapx", "filterx", "foldl"}
\* The initialisers that run a function of the program.
Callers == {"call", "funcall"} \cup HigherOrder

CallExpr(f, args, s) == [op |-> "call", func |-> f, args |-> args, shape |-> s]
NoExpr == [op |-> "none", shape |-> Scalar("invalid")]

(***************************************************************************)
(* Every shape and every expression is made by a constructor above.          *)
(***************************************************************************)
Shapes ==
  [head : Words, name : Words, elem : Words, elemName : Words, key : Words,
   value : Words, sig : Seq(Words)]
IsShape(s) ==
  /\ s \in Shapes
  /\ CASE s.head = "record" -> s = RecordOf(s.name)
       [] s.head = "union" -> s = UnionOf(s.name)
       [] s.head = "list" -> s = IF s.elem = "record" THEN ListOfRecord(s.elemName) ELSE ListOf(s.elem)
       [] s.head = "map" -> s = MapOf(s.key, s.value)
       [] s.head = "omap" -> s = OMapOf(s.key, s.value)
       [] s.head = "set" -> s = SetOf(s.elem)
       [] s.head = "fun" -> s = FunOf(s.sig)
       [] OTHER -> s = Scalar(s.head)

Binary == {"+", "-", "/", "==", "<", "==s", "cat", "and", "or"}
\* The operands and the result of the nodes on strings and files.
StrNodes ==
  [strlen |-> <<1, IntType>>, strat |-> <<2, StringType>>, strhas |-> <<2, BoolType>>,
   substr |-> <<3, StringType>>, reverse |-> <<1, StringType>>, join |-> <<2, StringType>>,
   readfile |-> <<1, StringType>>, lines |-> <<1, ListOf("string")>>, csv |-> <<1, ListOf("string")>>]

IsLeaf(e) ==
  /\ e.op \in {"int", "string", "bool", "var", "unionvar", "funlit", "none"}
  /\ e.op = "int" => e.n \in Int /\ e = IntLit(e.n)
  /\ e.op = "string" => e.t \in Seq(Words) /\ e = StringLit(e.t)
  /\ e.op = "bool" => e.b \in BOOLEAN /\ e = BoolLit(e.b)
  /\ e.op = "var" => e = VarRef(e.x, e.shape)
  /\ e.op = "unionvar" => e = UnionVarRef(e.x, e.shape.name)
  /\ e.op = "funlit" => e = FunLit(e.func, e.shape.sig, e.captures)
  /\ e.op = "none" => e = NoExpr

\* A node whose operands are es.
IsNode(e, es) ==
  /\ e.op \in Binary \cup DOMAIN StrNodes \cup Callers \cup
       {"not", "neg", "list", "append", "index", "len", "get", "has", "maplen", "keys", "values", "map",
        "record", "field", "variant", "vfield", "sort", "slice", "min", "max", "sum", "contains", "set",
        "setadd", "sethas", "setlen", "setlist", "omap", "omapget", "omapset", "omaphas", "omaplen"}
  /\ e.op \in Binary => e = BinaryExpr(e.op, es[1], es[2], e.shape.head)
  /\ e.op = "not" => e = NotExpr(es[1])
  /\ e.op = "neg" => e = NegExpr(es[1])
  /\ e.op = "list" => e.shape.head = "list" /\ e = ListLit(es, e.shape)
  /\ e.op = "append" => e = AppendExpr(es[1], es[2], e.shape)
  /\ e.op = "index" => IsShape(e.of) /\ e = IndexExpr(es[1], es[2], e.of)
  /\ e.op = "len" => IsShape(e.of) /\ e = LenExpr(es[1], e.of)
  /\ e.op = "get" => IsShape(e.of) /\ e = MapGetExpr(es[1], es[2], e.of)
  /\ e.op = "has" => IsShape(e.of) /\ e = MapHasExpr(es[1], es[2], e.of)
  /\ e.op = "maplen" => IsShape(e.of) /\ e = MapLenExpr(es[1], e.of)
  /\ e.op = "keys" => IsShape(e.of) /\ e = MapKeysExpr(es[1], e.of)
  /\ e.op = "values" => IsShape(e.of) /\ e = MapValuesExpr(es[1], e.of)
  /\ e.op = "map" => e.shape.head = "map" /\ Len(es) % 2 = 0 /\ e = MapLit(es, e.shape)
  /\ e.op = "record" => e = RecordLit(e.shape.name, e.names, es)
  /\ e.op = "field" => e = FieldAccess(es[1], e.record, e.field, e.shape.head)
  /\ e.op = "variant" => e = VariantLit(e.shape.name, e.variant, es)
  /\ e.op = "vfield" => e = VariantFieldAccess(es[1], e.field, e.shape.head)
  /\ e.op = "sort" => e = ListSortAscExpr(es[1])
  /\ e.op = "slice" => e = ListSliceExpr(es[1], es[2], es[3])
  /\ e.op \in {"min", "max", "sum"} => e = ListStatExpr(e.op, es[1], e.shape.head)
  /\ e.op = "contains" => IsShape(e.of) /\ e = ListContainsExpr(es[1], es[2], e.of)
  /\ e.op = "set" => e.shape.head = "set" /\ e = SetLiteralExpr(es, e.shape)
  /\ e.op = "setadd" => e.shape.head = "set" /\ e = SetAddExpr(es[1], es[2], e.shape)
  /\ e.op = "sethas" => IsShape(e.of) /\ e = SetHasExpr(es[1], es[2], e.of)
  /\ e.op = "setlen" => e = SetLenExpr(es[1])
  /\ e.op = "setlist" => e = SetToListExpr(es[1])
  /\ e.op = "omap" => e = OMapLiteralExpr(es, e.shape)
  /\ e.op \in {"omapget", "omapset", "omaphas", "omaplen"} => e = OMapExpr(e.op, es, e.of, e.shape)
  /\ e.op \in DOMAIN StrNodes =>
         Len(es) = StrNodes[e.op][1] /\ e = Node(e.op, es, StrNodes[e.op][2])
  /\ e.op = "call" => e = CallExpr(e.func, es, e.shape)
  /\ e.op = "funcall" => e = FunCallExpr(es[1], Tail(es), e.shape.head)
  /\ e.op = "mapx" => e = ListMapExpr(es[1], es[2], e.shape.elem)
  /\ e.op = "filterx" => e = ListFilterExpr(es[1], es[2], e.shape.elem)
  /\ e.op = "foldl" => e = ListFoldlExpr(es[1], es[2], es[3], e.shape.head)

Args(e) == IF "args" \in DOMAIN e THEN e.args ELSE <<>>

ASSUME ExprsAssumption ==
  /\ Exprs # <<>> /\ Exprs \in Seq(SUBSET Exprs[Len(Exprs)])
  /\ \A n \in DOMAIN Exprs : \A e \in Exprs[n] :
       /\ IsShape(e.shape)
       /\ Args(e) \in Seq({a \in Under(Exprs, n) : a.op \notin Callers})
       /\ IF "args" \in DOMAIN e THEN IsNode(e, e.args) ELSE IsLeaf(e)

(***************************************************************************)
(* Statements; a block is a sequence of them.                               *)
(***************************************************************************)
LetStmt(x, s, init, mutable) ==
  [st |-> "let", x |-> x, shape |-> s, init |-> init, mutable |-> mutable]
AssignStmt(x, e) == [st |-> "assign", x |-> x, value |-> e]
ListSetStmt(x, i, e) == [st |-> "listset", x |-> x, index |-> i, value |-> e]
MapPutStmt(x, k, e) == [st |-> "mapput", x |-> x, index |-> k, value |-> e]
IfStmt(c, then, else) == [st |-> "if", cond |-> c, then |-> then, else |-> else]
WhileStmt(c, body) == [st |-> "while", cond |-> c, body |-> body]
ForRangeStmt(x, a, b, body) ==
  [st |-> "for", x |-> x, from |-> a, to |-> b, body |-> body]
ForEachStmt(x, xs, elem, body) ==
  [st |-> "foreach", x |-> x, list |-> xs, elem |-> elem, body |-> body]
BreakStmt == [st |-> "break"]
ContinueStmt == [st |-> "continue"]
ReturnStmt(e) == [st |-> "return", value |-> e]
TryCatchStmt(body, x, handler) ==
  [st |-> "try", body |-> body, x |-> x, handler |-> handler]
\* An arm: its variant, or None for the default, the fields it binds, its guard.
MatchArm(v, binds, guard, body) ==
  [variant |-> v, binds |-> binds, guard |-> guard, body |-> body]
Bind(x, i, s) == [x |-> x, index |-> i, shape |-> s]
MatchStmt(e, u, arms) == [st |-> "match", target |-> e, union |-> u, arms |-> arms]
QueryScopeStmt(body) == [st |-> "query", body |-> body]
ClosureEnvStmt == [st |-> "env"]
PanicStmt(code, msg) == [st |-> "panic", args |-> <<code, msg>>]
WriteFileStmt(path, content) == [st |-> "write", args |-> <<path, content>>]
AppendFileStmt(path, content) == [st |-> "writeon", args |-> <<path, content>>]
SaveCSVStmt(path, rows) == [st |-> "save", args |-> <<path, rows>>]
OMapPutStmt(x, k, e) == [st |-> "omapput", x |-> x, index |-> k, value |-> e]
CallStmt(f, args) == [st |-> "call", func |-> f, args |-> args]

\* The blocks of a statement.
Bodies(s) ==
  CASE s.st = "if" -> <<s.then, s.else>>
    [] s.st = "try" -> <<s.body, s.handler>>
    [] s.st = "match" -> [i \in DOMAIN s.arms |-> s.arms[i].body]
    [] s.st \in {"while", "for", "foreach", "query"} -> <<s.body>>
    [] OTHER -> <<>>

ASSUME BlocksAssumption ==
  /\ Blocks \in Seq(SUBSET Blocks[Len(Blocks)])
  /\ \A n \in DOMAIN Blocks : \A ss \in Blocks[n] \ {<<>>} :
       /\ Tail(ss) \in Under(Blocks, n)
       /\ \A i \in DOMAIN Bodies(Head(ss)) : Bodies(Head(ss))[i] \in Under(Blocks, n)

RecordDecls == [name : Words, fields : Seq([name : Words, shape : Shapes])]
Function(name, params, returns, body) ==
  [name |-> name, params |-> params, returns |-> returns, body |-> body, captures |-> <<>>]
\* The body of a closure that captures, lifted to a function.
Lifted(name, captures, params, returns, body) ==
  [Function(name, params, returns, body) EXCEPT !.captures = captures]
Param(x, s) == [x |-> x, shape |-> s]
\* The entry function is the last one.
Source(records, unions, functions) ==
  [records |-> records, unions |-> unions, functions |-> functions]

Builtins == [mochi_print_i64 |-> <<IntType>>, mochi_print_str |-> <<StringType>>,
             mochi_print_bool |-> <<BoolType>>]
=============================================================================
