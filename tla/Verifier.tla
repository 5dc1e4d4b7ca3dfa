----------------------------- MODULE Verifier -----------------------------
(***************************************************************************)
(* The verifier (transpiler/aotir/verifier.go): whether a program is well     *)
(* formed.  A context holds the program, the scopes, innermost first, the     *)
(* loop depth and the type the enclosing function returns.  What the code     *)
(* does not compare (the names of unions, the guard of an arm, the fields of  *)
(* a variant, the signatures and captures of closures) is not compared here.  *)
(***************************************************************************)
EXTENDS Program, SequencesExt

Named(decls, name) == \E i \in DOMAIN decls : decls[i].name = name
Decl(decls, name) == decls[CHOOSE i \in DOMAIN decls : decls[i].name = name]
NamesOf(decls) == {decls[i].name : i \in DOMAIN decls}
Distinct(decls) == \A i, j \in DOMAIN decls : decls[i].name = decls[j].name => i = j

Scalars == {"int", "float", "bool", "string"}
Keys == {"int", "string"}

(***************************************************************************)
(* Types.  A shape is well formed when the annotations its head asks for are  *)
(* there and no others; two shapes agree when the head and what the code      *)
(* compares under that head are equal.                                       *)
(***************************************************************************)
WellFormed(p, s) ==
  /\ IF s.head = "record" THEN Named(p.records, s.name)
     ELSE s.head # "union" => s.name = None
  /\ IF s.head = "list"
       THEN /\ s.elem \in Scalars \cup {"record"}
            /\ IF s.elem = "record" THEN Named(p.records, s.elemName) ELSE s.elemName = None
       ELSE s.elem = None /\ s.elemName = None
  /\ IF s.head = "map" THEN s.key \in Keys /\ s.value \in Scalars
     ELSE s.key = None /\ s.value = None
  /\ s.head = "fun" => s.sig # <<>>

\* What a let may declare: sets and ordered maps have annotations only there.
Declarable(p, s) ==
  CASE s.head = "set" -> s.elem \in Scalars
    [] s.head = "omap" -> s.key \in Keys /\ s.value \in Scalars
    [] s.head = "fun" -> s.sig # <<>>
    [] OTHER -> WellFormed(p, s)

Agrees(s, t) ==
  /\ s.head = t.head
  /\ s.head = "record" => s.name = t.name
  /\ s.head = "list" => s.elem = t.elem /\ (s.elem = "record" => s.elemName = t.elemName)
  /\ s.head = "map" => s.key = t.key /\ s.value = t.value

\* A let and an assignment compare more: the elements of a set, which only three
\* nodes tell, and those of an ordered map.  Signatures are never compared.
IsAssignable(s, e) ==
  /\ Agrees(s, e.shape)
  /\ s.head = "set" => e.op \in {"var", "set", "setadd"} /\ e.shape.elem = s.elem
  /\ s.head = "omap" =>
       /\ e.op \in {"var", "omap", "omapset"}
       /\ e.shape.key = s.key /\ e.shape.value = s.value

(***************************************************************************)
(* Scopes                                                                   *)
(***************************************************************************)
One(x, v) == [y \in {x} |-> v]
Over(f, g) == [y \in DOMAIN f \cup DOMAIN g |-> IF y \in DOMAIN f THEN f[y] ELSE g[y]]
Binding(s, mutable) == [shape |-> s, mutable |-> mutable]
Bound(c, x) == \E i \in DOMAIN c.scopes : x \in DOMAIN c.scopes[i]
Lookup(c, x) ==
  LET at == CHOOSE i \in DOMAIN c.scopes :
              x \in DOMAIN c.scopes[i] /\ \A j \in 1..i - 1 : x \notin DOMAIN c.scopes[j]
  IN c.scopes[at][x]

(***************************************************************************)
(* Expressions: every operand is verified, then what the node asks of them.  *)
(***************************************************************************)
OperandTypes(op) ==
  CASE op \in {"+", "-", "/", "==", "<"} -> "int"
    [] op \in {"and", "or"} -> "bool"
    [] op \in {"==s", "cat"} -> "string"

\* The nodes whose operands have fixed types and nothing else is asked of.
Strict ==
  [not |-> <<"bool">>, neg |-> <<"int">>, strlen |-> <<"string">>,
   strat |-> <<"string", "int">>, strhas |-> <<"string", "string">>,
   substr |-> <<"string", "int", "int">>, reverse |-> <<"string">>,
   join |-> <<"list", "string">>, sort |-> <<"list">>, slice |-> <<"list", "int", "int">>,
   setlen |-> <<"set">>, setlist |-> <<"set">>, omaplen |-> <<"omap">>, vfield |-> <<"union">>,
   readfile |-> <<"string">>, lines |-> <<"string">>, csv |-> <<"string">>]

ResultType(op) ==
  CASE op \in {"+", "-", "/"} -> "int" [] op = "cat" -> "string" [] OTHER -> "bool"

Arg(e, i) == e.args[i].shape

VerifyVarRef(c, e) ==
  Bound(c, e.x) /\ Agrees(Lookup(c, e.x).shape, e.shape)

VerifyUnionVarRef(c, e) ==
  Bound(c, e.x) /\ Lookup(c, e.x).shape = e.shape

VerifyBinary(e) ==
  /\ \A i \in {1, 2} : Arg(e, i).head = OperandTypes(e.op)
  /\ e.shape.head = ResultType(e.op)

VerifyListLit(c, e) ==
  /\ WellFormed(c.prog, e.shape)
  /\ \A i \in DOMAIN e.args : Agrees(ElementOf(e.shape), Arg(e, i))

\* Index and Len of a list.
VerifyOfList(c, e) ==
  /\ Arg(e, 1).head = "list"
  /\ Agrees(Arg(e, 1), e.of)
  /\ WellFormed(c.prog, e.of)
  /\ e.op = "index" => Arg(e, 2).head = "int"

VerifyAppend(e) ==
  /\ Arg(e, 1).head = "list"
  /\ Agrees(Arg(e, 1), e.shape)
  /\ Agrees(ElementOf(e.shape), Arg(e, 2))

VerifyMapLit(c, e) ==
  /\ Declarable(c.prog, e.shape)
  /\ \A i \in DOMAIN e.args :
       Arg(e, i).head = (IF i % 2 = 1 THEN e.shape.key ELSE e.shape.value)

\* MapGet, MapHas, MapLen, MapKeys and MapValues.
VerifyOfMap(c, e) ==
  /\ Arg(e, 1).head = "map"
  /\ Agrees(Arg(e, 1), e.of)
  /\ WellFormed(c.prog, e.of)
  /\ Len(e.args) = 2 => Arg(e, 2).head = e.of.key

\* The receiver's elements are not compared with those the node is stamped with.
VerifyOfSet(e, stamped) == Arg(e, 1).head = "set" /\ Arg(e, 2).head = stamped.elem

VerifySetLiteral(e) ==
  e.shape.elem \in Scalars /\ \A i \in DOMAIN e.args : Arg(e, i).head = e.shape.elem

VerifyOfOMap(e) ==
  /\ Arg(e, 1).head = "omap" /\ Arg(e, 2).head = e.of.key
  /\ e.op = "omapset" => Arg(e, 3).head = e.of.value

\* min, max and sum, and whether a list contains a value.
VerifyListStat(e) ==
  /\ Arg(e, 1).head = "list"
  /\ e.shape.head \in (IF e.op = "sum" THEN {"int", "float"} ELSE Scalars)
VerifyListContains(e) ==
  Arg(e, 1).head = "list" /\ e.of.elem \in Scalars /\ Arg(e, 2).head = e.of.elem

VerifyRecordLit(c, e) ==
  /\ Named(c.prog.records, e.shape.name)
  /\ LET fields == Decl(c.prog.records, e.shape.name).fields
     IN /\ Len(e.args) = Len(fields)
        /\ \A i \in DOMAIN fields :
             e.names[i] = fields[i].name /\ Arg(e, i).head = fields[i].shape.head

VerifyFieldAccess(c, e) ==
  /\ Arg(e, 1).head = "record" /\ Arg(e, 1).name = e.record
  /\ Named(c.prog.records, e.record)
  /\ LET fields == Decl(c.prog.records, e.record).fields
     IN Named(fields, e.field) /\ Decl(fields, e.field).shape = e.shape

\* Neither the function, the captures nor the arguments are compared with a
\* signature; of map, filter and reduce only the operands are verified.
VerifyFunLit(e) == e.shape.sig # <<>> /\ e.func # None
VerifyFunCall(e) == Arg(e, 1).head = "fun"

VerifyVariantLit(c, e) == Named(c.prog.unions, e.shape.name)

\* In a statement only the heads of the arguments are compared.
VerifyCallExpr(c, e) ==
  /\ Named(c.prog.functions, e.func)
  /\ LET fn == Decl(c.prog.functions, e.func)
     IN /\ fn.returns # Unit
        /\ Agrees(fn.returns, e.shape)
        /\ Len(fn.params) = Len(e.args)
        /\ \A i \in DOMAIN e.args : Agrees(fn.params[i].shape, Arg(e, i))

VerifyNode(c, e) ==
  CASE e.op \in {"int", "string", "bool"} -> TRUE
     [] e.op = "var" -> VerifyVarRef(c, e)
     [] e.op = "unionvar" -> VerifyUnionVarRef(c, e)
     [] e.op \in DOMAIN Strict -> \A i \in DOMAIN e.args : Arg(e, i).head = Strict[e.op][i]
     [] e.op = "list" -> VerifyListLit(c, e)
     [] e.op \in {"index", "len"} -> VerifyOfList(c, e)
     [] e.op = "append" -> VerifyAppend(e)
     [] e.op \in {"map", "omap"} -> VerifyMapLit(c, e)
     [] e.op \in {"get", "has", "maplen", "keys", "values"} -> VerifyOfMap(c, e)
     [] e.op \in {"omapget", "omapset", "omaphas"} -> VerifyOfOMap(e)
     [] e.op = "set" -> VerifySetLiteral(e)
     [] e.op = "setadd" -> VerifyOfSet(e, e.shape)
     [] e.op = "sethas" -> VerifyOfSet(e, e.of)
     [] e.op \in {"min", "max", "sum"} -> VerifyListStat(e)
     [] e.op = "contains" -> VerifyListContains(e)
     [] e.op = "funlit" -> VerifyFunLit(e)
     [] e.op = "funcall" -> VerifyFunCall(e)
     [] e.op \in HigherOrder -> TRUE
     [] e.op = "record" -> VerifyRecordLit(c, e)
     [] e.op = "field" -> VerifyFieldAccess(c, e)
     [] e.op = "variant" -> VerifyVariantLit(c, e)
     [] e.op = "call" -> VerifyCallExpr(c, e)
     [] e.op = "none" -> FALSE
     [] OTHER -> VerifyBinary(e)

VerifyExpr(c, e) ==
  LET verified[n \in 0..Len(Exprs)] ==
        IF n = 0 THEN <<>>
        ELSE [x \in Exprs[n] |->
                (\A i \in DOMAIN Args(x) : verified[n - 1][Args(x)[i]]) /\ VerifyNode(c, x)]
  IN verified[Len(Exprs)][e]

(***************************************************************************)
(* Statements                                                               *)
(***************************************************************************)
\* The statements with typed operands and no effect on the scope.
StrictStmt ==
  [panic |-> <<"int", "string">>, write |-> <<"string", "string">>,
   writeon |-> <<"string", "string">>, save |-> <<"string", "list">>]

\* The expressions a statement verifies; the guards of a match's arms are not among them.
Verified(s) ==
  CASE s.st = "let" -> {s.init} \ {NoExpr}
    [] s.st = "assign" -> {s.value}
    [] s.st \in {"listset", "mapput", "omapput"} -> {s.index, s.value}
    [] s.st \in {"if", "while"} -> {s.cond}
    [] s.st = "for" -> {s.from, s.to}
    [] s.st = "foreach" -> {s.list}
    [] s.st = "return" -> {s.value} \ {NoExpr}
    [] s.st = "match" -> {s.target}
    [] s.st \in {"call"} \cup DOMAIN StrictStmt -> ToSet(s.args)
    [] OTHER -> {}

VerifyLet(c, s) ==
  /\ s.x \notin DOMAIN c.scopes[1]
  /\ IF s.init = NoExpr THEN s.mutable ELSE IsAssignable(s.shape, s.init)
  /\ Declarable(c.prog, s.shape)
  /\ s.shape.head = "union" => Named(c.prog.unions, s.shape.name)

\* Wrong on purpose: only what is bound in the innermost scope has its type checked.
VerifyAssignUnchecked(c, s) ==
  /\ Bound(c, s.x) /\ Lookup(c, s.x).mutable
  /\ s.x \in DOMAIN c.scopes[1] => IsAssignable(Lookup(c, s.x).shape, s.value)

VerifyAssign(c, s) ==
  /\ Bound(c, s.x) /\ Lookup(c, s.x).mutable
  /\ IsAssignable(Lookup(c, s.x).shape, s.value)

\* ListSet, MapPut and OMapPut.
VerifyElementSet(c, s, head, index) ==
  /\ Bound(c, s.x)
  /\ LET b == Lookup(c, s.x)
     IN /\ b.mutable /\ b.shape.head = head
        /\ s.index.shape.head = (IF head = "list" THEN index ELSE b.shape.key)
        /\ s.value.shape.head = (IF head = "list" THEN b.shape.elem ELSE b.shape.value)

VerifyReturn(c, s) ==
  IF s.value = NoExpr THEN c.returns = Unit ELSE Agrees(c.returns, s.value.shape)

\* A builtin wins over a function of the same name.
VerifyCallStmt(c, s) ==
  LET params ==
        IF s.func \in DOMAIN Builtins THEN Builtins[s.func]
        ELSE LET fn == Decl(c.prog.functions, s.func).params
             IN [i \in DOMAIN fn |-> fn[i].shape]
  IN /\ s.func \in DOMAIN Builtins \cup NamesOf(c.prog.functions)
     /\ Len(params) = Len(s.args)
     /\ \A i \in DOMAIN s.args : s.args[i].shape.head = params[i].head

VerifyForEach(c, s) ==
  /\ s.list.shape.head = "list"
  /\ WellFormed(c.prog, s.list.shape) /\ ElementOf(s.list.shape) = s.elem

VerifyMatch(c, s) ==
  /\ s.target.shape.head = "union"
  /\ Named(c.prog.unions, s.union)
  /\ \A i \in DOMAIN s.arms :
       s.arms[i].variant # None =>
         s.arms[i].variant \in NamesOf(Decl(c.prog.unions, s.union).variants)

VerifyStmt(c, s) ==
  /\ \A e \in Verified(s) : VerifyExpr(c, e)
  /\ CASE s.st = "let" -> VerifyLet(c, s)
       [] s.st = "assign" -> VerifyAssign(c, s)
       [] s.st = "listset" -> VerifyElementSet(c, s, "list", "int")
       [] s.st = "mapput" -> VerifyElementSet(c, s, "map", None)
       [] s.st = "omapput" -> VerifyElementSet(c, s, "omap", None)
       [] s.st \in {"if", "while"} -> s.cond.shape = BoolType
       [] s.st = "for" -> s.from.shape = IntType /\ s.to.shape = IntType
       [] s.st = "foreach" -> VerifyForEach(c, s)
       [] s.st \in {"break", "continue"} -> c.loops > 0
       [] s.st = "return" -> VerifyReturn(c, s)
       [] s.st = "match" -> VerifyMatch(c, s)
       [] s.st \in {"try", "query", "env"} -> TRUE
       [] s.st \in DOMAIN StrictStmt ->
            \A i \in DOMAIN s.args : s.args[i].shape.head = StrictStmt[s.st][i]
       [] s.st = "call" -> VerifyCallStmt(c, s)

(***************************************************************************)
(* Blocks: the statements nested in one, and what its context becomes on the  *)
(* way to them.                                                             *)
(***************************************************************************)
\* Wrong on purpose: the loop's variable may be assigned.
InductionMutable(x, s) == One(x, Binding(s, TRUE))
\* The variable a loop, a catch or a pattern brings into scope.
Induction(x, s) == One(x, Binding(s, FALSE))
Pattern(arm) ==
  [x \in {arm.binds[k].x : k \in DOMAIN arm.binds} |->
     Binding((CHOOSE b \in ToSet(arm.binds) : b.x = x).shape, FALSE)]

\* The scopes to enter, the loops among them, and what is added to the scope left.
Move(scopes, loops, adds) == [scopes |-> scopes, loops |-> loops, adds |-> adds]
Into(ss, scopes, loops) == [ss |-> ss, move |-> Move(scopes, loops, <<>>)]
\* The catch variable is an int to the verifier.
TryCatchBlocks(s) ==
  {Into(s.body, <<<<>>>>, 0), Into(s.handler, <<<<>>, Induction(s.x, IntType)>>, 0)}
Inner(s) ==
  CASE s.st = "if" -> {Into(s.then, <<<<>>>>, 0), Into(s.else, <<<<>>>>, 0)}
    [] s.st = "while" -> {Into(s.body, <<<<>>>>, 1)}
    [] s.st = "for" -> {Into(s.body, <<Induction(s.x, IntType)>>, 1)}
    [] s.st = "foreach" -> {Into(s.body, <<Induction(s.x, s.elem)>>, 1)}
    [] s.st = "match" -> {Into(s.arms[i].body, <<Pattern(s.arms[i])>>, 0) : i \in DOMAIN s.arms}
    [] s.st = "try" -> TryCatchBlocks(s)
    [] s.st = "query" -> {Into(s.body, <<<<>>>>, 0)}
    [] OTHER -> {}

\* Only a let changes the scope of the statements after it.
After(s) == Move(<<>>, 0, IF s.st = "let" THEN One(s.x, Binding(s.shape, s.mutable)) ELSE <<>>)

Moved(c, m) ==
  [c EXCEPT !.scopes = m.scopes \o <<Over(m.adds, Head(@))>> \o Tail(@), !.loops = @ + m.loops]
Reached(c, by) ==
  LET at[k \in 0..Len(by)] == IF k = 0 THEN c ELSE Moved(at[k - 1], by[k])
  IN at[Len(by)]

\* Every statement of a block, and the moves that lead to it.
Visits(ss) ==
  LET Beyond(m, visits) == {[v EXCEPT !.by = <<m>> \o @] : v \in visits}
      in[n \in 0..Len(Blocks)] ==
        IF n = 0 THEN <<>>
        ELSE [b \in Blocks[n] |->
                IF b = <<>> THEN {}
                ELSE {[stmt |-> Head(b), by |-> <<>>]}
                       \cup Beyond(After(Head(b)), in[n - 1][Tail(b)])
                       \cup UNION {Beyond(i.move, in[n - 1][i.ss]) : i \in Inner(Head(b))}]
  IN in[Len(Blocks)][ss]

VerifyStmts(c, ss) == \A v \in Visits(ss) : VerifyStmt(Reached(c, v.by), v.stmt)

(***************************************************************************)
(* Verify                                                                   *)
(***************************************************************************)
VerifyRecords(p) ==
  /\ Distinct(p.records)
  /\ \A i \in DOMAIN p.records :
       /\ Distinct(p.records[i].fields)
       /\ \A j \in DOMAIN p.records[i].fields :
            p.records[i].fields[j].shape \in {Scalar(h) : h \in Scalars}

VerifySignatures(p) ==
  \A i \in DOMAIN p.functions :
    /\ WellFormed(p, p.functions[i].returns)
    /\ \A j \in DOMAIN p.functions[i].params : WellFormed(p, p.functions[i].params[j].shape)

\* A function's parameters, its environment and the lets of its body share a scope.
VerifyFunction(p, fn) ==
  LET params == [x \in {fn.params[i].x : i \in DOMAIN fn.params} |->
                   Binding((CHOOSE q \in ToSet(fn.params) : q.x = x).shape, FALSE)]
      env == [x \in {EnvName(q.field) : q \in ToSet(fn.captures)} |->
                Binding(Scalar((CHOOSE q \in ToSet(fn.captures) : EnvName(q.field) = x).head), FALSE)]
  IN /\ \A i, j \in DOMAIN fn.params : fn.params[i].x = fn.params[j].x => i = j
     /\ VerifyStmts([prog |-> p, scopes |-> <<Over(params, env)>>, loops |-> 0, returns |-> fn.returns],
                    fn.body)

Verify(p) ==
  LET entry == Last(p.functions)
  IN /\ VerifyRecords(p) /\ Distinct(p.unions) /\ Distinct(p.functions)
     /\ VerifySignatures(p)
     /\ entry.returns = Unit /\ entry.params = <<>>
     /\ \A i \in DOMAIN p.functions : VerifyFunction(p, p.functions[i])
=============================================================================
