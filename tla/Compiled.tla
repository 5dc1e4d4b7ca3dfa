----------------------------- MODULE Compiled -----------------------------
(***************************************************************************)
(* A program's way through the compiler and the JVM: Verify, then the Java     *)
(* the lowering emits (transpiler/lower/stmt.go, match.go, lower.go), run one  *)
(* statement at a time.  todo is the Java stack: blocks, and the loop, switch, *)
(* try and call each of them is in, with the number of scopes it started from; a *)
(* call keeps the caller's.  What javac refuses is found when the statement is  *)
(* reached, and named in why.  A variable counts as effectively final when no    *)
(* statement after its let assigns it.                                       *)
(***************************************************************************)
EXTENDS Meaning

CONSTANT Sources   \* the programs compiled

VARIABLES
  source,   \* the program
  stage,    \* "verify", "run", or how it ended
  todo,     \* what is left to run, innermost first
  scopes,   \* the local variables of the running method, innermost scope first
  heap,     \* the lists and maps
  printed,  \* what IO.println was given
  why       \* what javac refuses, None if nothing

runVars == <<source, stage, todo, scopes, heap, printed, why>>

CompileInit ==
  /\ source \in Sources
  /\ stage = "verify"
  /\ todo = <<>>
  /\ scopes = <<>>
  /\ heap = <<>>
  /\ printed = <<>>
  /\ why = None

BlockItem(ss) == [k |-> "block", ss |-> ss, depth |-> Len(scopes)]

\* x = append(e, v) and x = add(e, v) are lowered to x.add(v), whatever e is.
IsAdd(s) == s.st = "assign" /\ s.value.op \in {"append", "setadd"}
Lowered(s) == IF IsAdd(s) THEN <<s.value.args[2]>> ELSE OperandsOf(s)

RECURSIVE LowersBlock(_)
LowersBlock(ss) ==
  \A s \in ToSet(ss) :
    /\ s.st \notin Unlowered
    /\ s.st = "let" => s.init.op \notin Unlowered /\ s.shape.head # "omap"
    /\ \A e \in ToSet(Lowered(s)) : LowersExpr(e)
    /\ \A b \in ToSet(Bodies(s)) : LowersBlock(b)

\* The driver verifies, then lowers; the entry function becomes main.
Verdict ==
  /\ stage = "verify"
  /\ stage' = IF ~Verify(source) THEN "rejected"
              ELSE IF \E fn \in ToSet(source.functions) : ~LowersBlock(fn.body) THEN "unlowered"
              ELSE "run"
  /\ todo' = <<BlockItem(Last(source.functions).body)>>
  /\ scopes' = <<<<>>>>
  /\ UNCHANGED <<source, heap, printed, why>>

(***************************************************************************)
(* The statement to run, its operands and their values.                     *)
(***************************************************************************)
Top == Head(todo)
AtStmt == Top.k = "block" /\ Top.ss # <<>>
Stmt == Head(Top.ss)
\* What is left when the statement is done.
Advanced == <<[Top EXCEPT !.ss = Tail(@)]>> \o Tail(todo)

\* What Java evaluates when it reaches a statement.
JavaOperands(st) ==
  CASE st.st = "for" -> <<st.from>> [] st.st = "while" -> <<>> [] OTHER -> Lowered(st)

\* A loop's test is evaluated before every round.
Operands ==
  CASE AtStmt -> JavaOperands(Stmt)
    [] Top.k = "while" -> <<Top.st.cond>>
    [] Top.k = "for" -> <<Top.st.to>>
    [] OTHER -> <<>>

Java == [prog |-> source, scopes |-> scopes, jvm |-> TRUE]
Evaluated == EvalAll(Java, Operands, heap)

\* The items of the running method whose kind is in S, innermost first.
Loops == {"while", "for", "each"}
Enclosing(S) ==
  {i \in DOMAIN todo : todo[i].k \in S /\ \A j \in 1..i - 1 : todo[j].k # "call"}
Innermost(S) == CHOOSE i \in S : \A j \in S : i <= j
InnermostCall == Innermost({i \in DOMAIN todo : todo[i].k = "call"})
Below(i) == SubSeq(todo, i + 1, Len(todo))
\* The scopes that were there when the item was entered.
Outside(item, in) == SubSeq(in, Len(in) - item.depth + 1, Len(in))
Returns ==
  IF \E i \in DOMAIN todo : todo[i].k = "call"
    THEN todo[InnermostCall].returns
    ELSE Unit

(***************************************************************************)
(* Closures (transpiler/lower/closure.go, lower.go).  The captures of a lifted  *)
(* function become its first parameters, and the reads of its environment in    *)
(* the body are renamed: in the nodes listed here, and in no others.            *)
(***************************************************************************)
EnvFields(fn) == {fn.captures[i].field : i \in DOMAIN fn.captures}

RECURSIVE RewriteExpr(_, _)
RewriteExpr(fields, e) ==
  CASE e.op = "var" /\ (\E f \in fields : e.x = EnvName(f)) ->
         [e EXCEPT !.x = CHOOSE f \in fields : e.x = EnvName(f)]
    [] e.op \in Binary \cup {"not", "neg", "call", "funcall"} ->
         [e EXCEPT !.args = [i \in DOMAIN e.args |-> RewriteExpr(fields, e.args[i])]]
    [] OTHER -> e

RECURSIVE RewriteStmt(_, _)
RewriteStmt(fields, s) ==
  LET block(ss) == [i \in DOMAIN ss |-> RewriteStmt(fields, ss[i])]
      expr(e) == RewriteExpr(fields, e)
  IN CASE s.st \in {"return", "assign"} -> [s EXCEPT !.value = expr(@)]
       [] s.st = "let" -> [s EXCEPT !.init = expr(@)]
       [] s.st = "call" -> [s EXCEPT !.args = [i \in DOMAIN @ |-> expr(@[i])]]
       [] s.st = "if" -> [s EXCEPT !.cond = expr(@), !.then = block(@), !.else = block(@)]
       [] s.st = "while" -> [s EXCEPT !.cond = expr(@), !.body = block(@)]
       [] s.st = "foreach" -> [s EXCEPT !.list = expr(@), !.body = block(@)]
       [] OTHER -> s

\* lowerFunction: the parameters and the body of the static method.
JavaParams(fn) ==
  [i \in DOMAIN fn.captures |-> Param(fn.captures[i].field, Scalar(fn.captures[i].head))]
    \o fn.params
JavaBody(fn) == [i \in DOMAIN fn.body |-> RewriteStmt(EnvFields(fn), fn.body[i])]

\* The functional interface a signature is declared with (funcTypeRef), and the
\* method a call of a value with that signature names (samFromSig).
Interface(sig) ==
  LET ps == SubSeq(sig, 1, Len(sig) - 1)
      ret == ResultOf(sig)
  IN CASE ps = <<>> ->
            (CASE ret = "int" -> "LongSupplier" [] ret = "bool" -> "BooleanSupplier"
               [] ret = "unit" -> "Runnable" [] OTHER -> "Supplier")
       [] Len(ps) = 1 ->
            (CASE sig = <<"int", "int">> -> "LongUnaryOperator"
               [] sig = <<"int", "bool">> -> "LongPredicate"
               [] ret = "bool" -> "Predicate" [] ret = "unit" -> "Consumer"
               [] OTHER -> "Function")
       [] Len(ps) = 2 ->
            (CASE sig = <<"int", "int", "int">> -> "LongBinaryOperator"
               [] ret = "bool" -> "BiPredicate" [] ret = "unit" -> "BiConsumer"
               [] OTHER -> "BiFunction")
       [] OTHER -> "Function"
Methods ==
  [LongSupplier |-> "getAsLong", BooleanSupplier |-> "getAsBoolean", Runnable |-> "run",
   Supplier |-> "get", LongUnaryOperator |-> "applyAsLong", LongPredicate |-> "test",
   Predicate |-> "test", Consumer |-> "accept", Function |-> "apply",
   LongBinaryOperator |-> "applyAsLong", BiPredicate |-> "test", BiConsumer |-> "accept",
   BiFunction |-> "apply"]
\* Wrong on purpose: every call of a function value is a call of apply.
AlwaysApply(sig) == "apply"
SamMethod(sig) ==
  LET ret == ResultOf(sig)
  IN CASE Len(sig) > 3 -> "apply"
       [] Len(sig) = 1 ->
            (CASE ret = "int" -> "getAsLong" [] ret = "bool" -> "getAsBoolean"
               [] ret = "unit" -> "run" [] OTHER -> "get")
       [] sig \in {<<"int", "int">>, <<"int", "int", "int">>} -> "applyAsLong"
       [] ret = "bool" -> "test"
       [] ret = "unit" -> "accept"
       [] OTHER -> "apply"

(***************************************************************************)
(* What javac refuses.                                                      *)
(***************************************************************************)

\* A mutable list is declared ArrayList, an immutable one and a parameter List.
\* Only what makes a new list is ArrayList to javac.
IsJavaList(e) ==
  \/ e.op \in {"call", "funcall", "mapx", "filterx"}
  \/ e.op = "var" /\ Bound(Java, e.x) /\ Lookup(Java, e.x).final
NotArrayList(s, e) == s.head = "list" /\ IsJavaList(e)

\* new ArrayList and new LinkedHashSet are printed without their <>: the elements
\* are Objects to javac.
RECURSIVE IsRaw(_)
IsRaw(e) ==
  \/ e.op \in {"list", "sort", "keys", "set"}
  \/ e.op \in {"append", "slice", "setadd"} /\ IsRaw(e.args[1])

\* The verifier compares no signatures and no names of unions, and in some places
\* nothing below the head: what javac refuses there has a name of its own.
HeadOf(v, h) ==
  CASE v[1] = "ref" -> h[v[2]].shape.head [] v[1] = "variant" -> "union" [] OTHER -> v[1]
Mismatch(v, s, h, below) ==
  IF HeadOf(v, h) # s.head THEN "type"
  ELSE CASE s.head = "fun" -> "signature" [] s.head = "union" -> "union" [] OTHER -> below
FirstOf(objections) ==
  FoldLeft(LAMBDA a, o : IF a = None THEN o ELSE a, None, objections)

\* A capture and a parameter may have one name.
Redeclares(params) == ~Distinct([i \in DOMAIN params |-> [name |-> params[i].x]])

\* A lifted function that is called by its name lacks its captures.
CallObjection(f, vs, h, below) ==
  IF ~Named(source.functions, f) THEN "name"
  ELSE LET fn == Decl(source.functions, f)
           params == JavaParams(fn)
           wrong == {i \in DOMAIN vs : ~Fits(vs[i], params[i].shape, h)}
           at == CHOOSE i \in wrong : TRUE
       IN IF Redeclares(params) THEN "shadow"
          ELSE IF Len(params) # Len(vs)
            THEN IF Len(fn.params) = Len(vs) THEN "lifted" ELSE "arity"
          ELSE IF wrong # {} THEN Mismatch(vs[at], params[at].shape, h, below)
          ELSE None

\* A lambda has one interface only where its signature is the declared one.
FunCallObjection(callee, f, args, h, shape) ==
  IF callee.op = "funlit" THEN "receiver"
  ELSE IF \/ callee.shape.sig # f[4] \/ Len(f[4]) # Len(args) + 1 \/ Len(args) > 2
          \/ \E i \in DOMAIN args : args[i][1] # f[4][i]
          \/ ResultOf(f[4]) # shape.head
    THEN "signature"
  ELSE IF SamMethod(callee.shape.sig) # Methods[Interface(f[4])] THEN "sam"
  ELSE CallObjection(f[2], f[3] \o args, h, "signature")

\* A collection has a stream, which takes a lambda, or a variable of the interface
\* of its own method.
StreamObjection(e, vs, h, shape) ==
  LET elem == h[vs[1][2]].shape.elem
      wanted == CASE e.op = "mapx" -> <<elem, shape.elem>>
                  [] e.op = "filterx" -> <<elem, "bool">>
                  [] e.op = "foldl" -> <<elem, elem, elem>>
      accepts == [mapx |-> "Function", filterx |-> "Predicate", foldl |-> "BinaryOperator"]
  IN IF HeadOf(vs[1], h) \notin {"list", "set"} THEN "receiver"
     ELSE IF IsRaw(e.args[1]) THEN "raw"
     ELSE IF vs[2][1] # "fun" \/ vs[2][4] # wanted \/ (e.op = "foldl" /\ vs[3][1] # elem)
             \/ (e.op # "mapx" /\ elem # (IF e.op = "foldl" THEN shape.head ELSE shape.elem))
       THEN "signature"
     ELSE IF e.args[2].op = "var" /\ Interface(vs[2][4]) # accepts[e.op] THEN "stream"
     ELSE IF Redeclares(JavaParams(Decl(source.functions, vs[2][2]))) THEN "shadow" ELSE None

InitObjection(st, vs, h) ==
  LET e == st.init
  IN CASE e.op = "none" -> None
       [] e.op = "call" ->
            FirstOf(<<CallObjection(e.func, vs, h, "type"),
                      IF Agrees(Decl(source.functions, e.func).returns, st.shape) THEN None ELSE "type">>)
       [] e.op = "funcall" -> FunCallObjection(e.args[1], vs[1], Tail(vs), h, st.shape)
       [] e.op \in HigherOrder -> StreamObjection(e, vs, h, st.shape)
       [] OTHER -> IF Fits(vs[1], st.shape, h) THEN None ELSE Mismatch(vs[1], st.shape, h, "type")

LetObjection(st, vs, h) ==
  IF Bound(Java, st.x) THEN "shadow"
  ELSE FirstOf(<<InitObjection(st, vs, h),
                 IF st.mutable /\ NotArrayList(st.shape, st.init) THEN "arraylist" ELSE None>>)

\* add is a method call: javac allows it on a final variable.
AssignObjection(st, vs, h) ==
  IF ~Bound(Java, st.x) THEN "name"
  ELSE LET x == Lookup(Java, st.x)
           head == IF st.value.op = "append" THEN "list" ELSE "set"
       IN IF IsAdd(st)
            THEN IF x.v = Unset THEN "unset"
                 ELSE IF x.shape.head = head /\ Fits(vs[1], ElementOf(x.shape), h) THEN None
                 ELSE IF head = "set" THEN "unchecked" ELSE "type"
          ELSE IF x.final THEN "final"
          ELSE IF ~Fits(vs[1], x.shape, h) THEN Mismatch(vs[1], x.shape, h, "type")
          ELSE IF NotArrayList(x.shape, st.value) THEN "arraylist" ELSE None

ElementObjection(st, vs, h) ==
  IF ~Bound(Java, st.x) THEN "name"
  ELSE LET x == Lookup(Java, st.x)
           index == IF x.shape.head = "list" THEN "int" ELSE x.shape.key
       IN IF x.v = Unset THEN "unset"
          ELSE IF \/ x.shape.head # (IF st.st = "listset" THEN "list" ELSE "map")
                  \/ vs[1][1] # index THEN "type"
          ELSE IF Fits(vs[2], ElementOf(x.shape), h) THEN None
          ELSE Mismatch(vs[2], ElementOf(x.shape), h, "element")

\* A rule of one statement is printed without braces: javac takes an expression
\* there, and nothing that declares, branches or leaves.
BareRule(arm) ==
  /\ Len(arm.body) = 1 /\ (arm.variant = None \/ arm.binds = <<>>)
  /\ arm.body[1].st \notin {"assign", "listset", "mapput", "call"}

\* The fields an arm binds are those its variant has.
BindsFields(arm, variants) ==
  arm.variant # None =>
    LET fields == Decl(variants, arm.variant).fields
    IN \A b \in ToSet(arm.binds) : b.index \in DOMAIN fields /\ fields[b.index].shape = b.shape

MatchObjection(st, vs, h) ==
  LET variants == Decl(source.unions, st.union).variants
      arms == {st.arms[i].variant : i \in DOMAIN st.arms}
      binds == UNION {{arm.binds[k].x : k \in DOMAIN arm.binds} : arm \in ToSet(st.arms)}
  IN IF ~Fits(vs[1], UnionOf(st.union), h) THEN Mismatch(vs[1], UnionOf(st.union), h, "type")
     ELSE IF None \notin arms /\ arms # NamesOf(variants) THEN "exhaustive"
     ELSE IF \E arm \in ToSet(st.arms) : ~BindsFields(arm, variants) THEN "variant"
     ELSE IF \E i, j \in DOMAIN st.arms : i < j /\ st.arms[i].variant \in {None, st.arms[j].variant}
       THEN "dominated"
     ELSE IF \E x \in binds : Bound(Java, x) THEN "shadow"
     ELSE IF \E i \in DOMAIN st.arms : BareRule(st.arms[i]) THEN "rule" ELSE None

JumpObjection(S) == IF Enclosing(S) = {} THEN "jump" ELSE None
TypeObjection(ok) == IF ok THEN None ELSE "type"
ShadowOr(x, objection) == IF Bound(Java, x) THEN "shadow" ELSE objection

StmtObjection(st, vs, h) ==
  CASE st.st = "let" -> LetObjection(st, vs, h)
    [] st.st = "assign" -> AssignObjection(st, vs, h)
    [] st.st \in {"listset", "mapput"} -> ElementObjection(st, vs, h)
    [] st.st = "if" -> TypeObjection(vs[1][1] = "bool")
    [] st.st = "for" -> ShadowOr(st.x, TypeObjection(vs[1][1] = "int"))
    [] st.st = "foreach" ->
         IF IsRaw(st.list) THEN "raw"
         ELSE ShadowOr(st.x, TypeObjection(vs[1][1] = "ref" /\ ElementOf(h[vs[1][2]].shape) = st.elem))
    [] st.st = "break" -> JumpObjection(Loops \cup {"switch"})
    [] st.st = "continue" -> JumpObjection(Loops)
    [] st.st = "return" ->
         IF vs = <<>> THEN TypeObjection(Returns = Unit)
         ELSE IF Fits(vs[1], Returns, h) THEN None ELSE Mismatch(vs[1], Returns, h, "type")
    [] st.st = "match" -> MatchObjection(st, vs, h)
    [] st.st = "try" -> ShadowOr(st.x, None)
    [] st.st = "call" /\ st.func \notin DOMAIN Builtins ->
         CallObjection(st.func, vs, h, "argument")
    [] OTHER -> None

\* println takes any object, the exception of a catch too.
Prints == AtStmt /\ Stmt.st = "call" /\ Stmt.func \in DOMAIN Builtins

Objection(vs, h) ==
  IF Caught \in ToSet(vs) /\ ~Prints THEN "caught"
  ELSE CASE AtStmt -> StmtObjection(Stmt, vs, h)
         [] Top.k = "while" -> TypeObjection(vs[1][1] = "bool")
         [] Top.k = "for" -> TypeObjection(vs[1][1] = "int")
         [] Top.k = "call" -> IF Top.returns = Unit THEN None ELSE "noreturn"
         [] OTHER -> None

Refuse(a) ==
  /\ why' = IF a.r = "ok" THEN Objection(a.v, a.heap) ELSE a.r
  /\ why' \notin {None, "panic", "error"}
  /\ stage' = "javac"
  /\ UNCHANGED <<source, todo, scopes, heap, printed>>

(***************************************************************************)
(* Running.  a is what the operands evaluated to; most steps need their values, *)
(* javac having no objection.                                                *)
(***************************************************************************)
Accepted(a) == a.r = "ok" /\ Objection(a.v, a.heap) = None
Running(kind) == stage = "run" /\ AtStmt /\ Stmt.st = kind
Inside(kind) == stage = "run" /\ ~AtStmt /\ Top.k = kind
Goes(t, s) == todo' = t /\ scopes' = s /\ UNCHANGED <<source, stage, why>>
Enters(rest, ss, binds) == Goes(<<BlockItem(ss)>> \o rest, <<binds>> \o scopes)

\* Where x lives, and the scopes after it got a value.
Stored(x, v) ==
  [scopes EXCEPT ![CHOOSE i \in DOMAIN scopes : x \in DOMAIN scopes[i]][x].v = v]

\* Whether a statement assigns x (add does not).
RECURSIVE Assigns(_, _)
Assigns(ss, x) ==
  \E s \in ToSet(ss) :
    \/ s.st = "assign" /\ s.x = x /\ ~IsAdd(s)
    \/ \E b \in ToSet(Bodies(s)) : Assigns(b, x)

\* rest: the statements the variable is visible in.
Declares(in, st, v, rest) ==
  <<(st.x :> [Local(v, st.shape, ~st.mutable) EXCEPT !.once = ~Assigns(rest, st.x)])
      @@ Head(in)>> \o Tail(in)
Iterates(x, v, s) == x :> [Local(v, s, FALSE) EXCEPT !.once = TRUE]

\* Where a result goes when it does not initialise a let.
Discarded == [st |-> "call"]
Element == [st |-> "element"]

\* A method call: its parameters are the only locals it sees.
Calls(f, vs, dest, rest) ==
  LET fn == Decl(source.functions, f)
      ps == JavaParams(fn)
      params == [x \in {ps[i].x : i \in DOMAIN ps} |->
                   LET i == CHOOSE i \in DOMAIN ps : ps[i].x = x
                   IN Local(vs[i], ps[i].shape, TRUE)]
  IN Goes(<<[k |-> "block", ss |-> JavaBody(fn), depth |-> 1],
            [k |-> "call", saved |-> scopes, dest |-> dest, returns |-> fn.returns]>>
            \o rest,
          <<params>>)

Let(a) ==
  /\ Running("let") /\ Stmt.init.op \notin HigherOrder
  /\ CASE Stmt.init.op = "call" -> Calls(Stmt.init.func, a.v, Stmt, Advanced)
       [] Stmt.init.op = "funcall" ->
            Calls(a.v[1][2], a.v[1][3] \o Tail(a.v), Stmt, Advanced)
       [] OTHER -> Goes(Advanced, Declares(scopes, Stmt, IF a.v = <<>> THEN Unset ELSE a.v[1],
                                           Tail(Top.ss)))
  /\ heap' = a.heap /\ UNCHANGED printed

\* map, filter and reduce: a stream of the list's items.
EnterStream(a) ==
  /\ Running("let") /\ Stmt.init.op \in HigherOrder
  /\ Goes(<<[k |-> "stream", st |-> Stmt, fn |-> a.v[2], items |-> a.heap[a.v[1][2]].items,
             acc |-> Tail(Tail(a.v)), depth |-> Len(scopes)]>> \o Advanced, scopes)
  /\ heap' = a.heap /\ UNCHANGED printed

\* The function runs on the next item; after the last one the let has its value.
StreamRound ==
  LET x == Head(Top.items)
      rest == Tail(todo)
      foldl == Top.st.init.op = "foldl"
  IN /\ Inside("stream")
     /\ IF Top.items # <<>>
          THEN /\ Calls(Top.fn[2], Top.fn[3] \o (IF foldl THEN <<Top.acc[1], x>> ELSE <<x>>),
                        Element, todo)
               /\ UNCHANGED heap
          ELSE /\ heap' = IF foldl THEN heap ELSE Append(heap, Object(Top.st.shape, Top.acc))
               /\ Goes(rest, Declares(scopes, Top.st,
                                      IF foldl THEN Top.acc[1] ELSE RefV(Len(heap) + 1),
                                      Head(rest).ss))
     /\ UNCHANGED printed

Assign(a) ==
  /\ Running("assign") /\ ~IsAdd(Stmt)
  /\ Goes(Advanced, Stored(Stmt.x, a.v[1]))
  /\ heap' = a.heap /\ UNCHANGED printed

\* x.add(v): at the end of a list; into a set, unless it is there.
Add(a) ==
  LET add(items, v) == IF Stmt.value.op = "append" THEN Append(items, v) ELSE Added(items, v)
  IN /\ Running("assign") /\ IsAdd(Stmt)
     /\ heap' = [a.heap EXCEPT ![Lookup(Java, Stmt.x).v[2]] =
                   [@ EXCEPT !.items = add(@, a.v[1]), !.mods = @ + 1]]
     /\ Goes(Advanced, scopes) /\ UNCHANGED printed

\* The arena of a query is a block; an environment is not built.
Query ==
  /\ stage = "run" /\ AtStmt /\ Stmt.st \in {"query", "env"}
  /\ IF Stmt.st = "query" THEN Enters(Advanced, Stmt.body, <<>>) ELSE Goes(Advanced, scopes)
  /\ UNCHANGED <<heap, printed>>

\* set throws outside the list; put adds a pair at the end.
SetElement(a) ==
  LET r == Lookup(Java, Stmt.x).v[2]
  IN /\ stage = "run" /\ AtStmt /\ Stmt.st \in {"listset", "mapput"}
     /\ IF Stmt.st = "mapput"
          THEN /\ heap' = [a.heap EXCEPT ![r].items = Put(@, a.v[1], a.v[2])]
               /\ Goes(Advanced, scopes)
        ELSE IF a.v[1][2] \in 0..Len(a.heap[r].items) - 1
          THEN /\ heap' = [a.heap EXCEPT ![r].items[a.v[1][2] + 1] = a.v[2]]
               /\ Goes(Advanced, scopes)
        ELSE stage' = "crashed" /\ UNCHANGED <<source, todo, scopes, heap, why>>
     /\ UNCHANGED printed

If(a) ==
  /\ Running("if")
  /\ Enters(Advanced, IF a.v[1][2] THEN Stmt.then ELSE Stmt.else, <<>>)
  /\ heap' = a.heap /\ UNCHANGED printed

(***************************************************************************)
(* Loops                                                                    *)
(***************************************************************************)
EnterWhile ==
  /\ Running("while")
  /\ Goes(<<[k |-> "while", st |-> Stmt, depth |-> Len(scopes)]>> \o Advanced, scopes)
  /\ UNCHANGED <<heap, printed>>

TestWhile(a) ==
  /\ Inside("while")
  /\ IF a.v[1][2] THEN Enters(todo, Top.st.body, <<>>) ELSE Goes(Tail(todo), Outside(Top, scopes))
  /\ heap' = a.heap /\ UNCHANGED printed

EnterFor(a) ==
  /\ Running("for")
  /\ Goes(<<[k |-> "for", st |-> Stmt, depth |-> Len(scopes), first |-> TRUE]>> \o Advanced,
          <<Stmt.x :> Local(a.v[1], IntType, FALSE)>> \o scopes)
  /\ heap' = a.heap /\ UNCHANGED printed

\* The condition of the Java loop: i < end.
InRange(i, to) == i < to

\* for (long x = from; x < to; x++): the update comes before every test but the first.
TestFor(a) ==
  LET x == Top.st.x
      i == scopes[1][x].v[2] + (IF Top.first THEN 0 ELSE 1)
      here == [scopes EXCEPT ![1][x].v = IntV(i)]
  IN /\ Inside("for")
     /\ IF InRange(i, a.v[1][2])
          THEN Goes(<<BlockItem(Top.st.body), [Top EXCEPT !.first = FALSE]>> \o Tail(todo),
                    <<<<>>>> \o here)
          ELSE Goes(Tail(todo), Outside(Top, scopes))
     /\ heap' = a.heap
     /\ UNCHANGED printed

EnterEach(a) ==
  /\ Running("foreach")
  /\ Goes(<<[k |-> "each", st |-> Stmt, depth |-> Len(scopes), ref |-> a.v[1][2],
             next |-> 1, mods |-> a.heap[a.v[1][2]].mods]>> \o Advanced, scopes)
  /\ heap' = a.heap /\ UNCHANGED printed

\* The iterator fails when the list has grown since it was made.
TestEach ==
  LET xs == heap[Top.ref]
  IN /\ Inside("each")
     /\ IF Top.next = Len(xs.items) + 1 THEN Goes(Tail(todo), Outside(Top, scopes))
        ELSE IF xs.mods # Top.mods
          THEN stage' = "crashed" /\ UNCHANGED <<source, todo, scopes, why>>
        ELSE Enters(<<[Top EXCEPT !.next = @ + 1]>> \o Tail(todo), Top.st.body,
                    Iterates(Top.st.x, xs.items[Top.next], Top.st.elem))
     /\ UNCHANGED <<heap, printed>>

\* break leaves the nearest loop or switch.
Break ==
  LET at == Innermost(Enclosing(Loops \cup {"switch"}))
  IN /\ Running("break")
     /\ Goes(Below(at), Outside(todo[at], scopes))
     /\ UNCHANGED <<heap, printed>>

\* continue ends the body of the nearest loop: the block above the loop's item.
Continue ==
  LET at == Innermost(Enclosing(Loops))
  IN /\ Running("continue")
     /\ Goes(Below(at - 1), Outside(todo[at - 1], scopes))
     /\ UNCHANGED <<heap, printed>>

(***************************************************************************)
(* Calls, match, try and the end of a block.                                *)
(***************************************************************************)
Return(a) ==
  LET call == todo[InnermostCall]
      rest == Below(InnermostCall)
      stream == Head(rest)
      next(v) == Collected(stream.st.init.op, stream.acc, Head(stream.items), v)
  IN /\ Running("return")
     /\ CASE \A i \in DOMAIN todo : todo[i].k # "call" ->
               stage' = "done" /\ UNCHANGED <<source, todo, scopes, why>>
          [] call.dest = Discarded -> Goes(rest, call.saved)
          [] call.dest = Element ->
               Goes(<<[stream EXCEPT !.acc = next(a.v[1]), !.items = Tail(@)]>> \o Tail(rest),
                    call.saved)
          [] OTHER -> Goes(rest, Declares(call.saved, call.dest, a.v[1], Head(rest).ss))
     /\ heap' = a.heap
     /\ UNCHANGED printed

CallMethod(a) ==
  /\ Running("call") /\ Stmt.func \notin DOMAIN Builtins
  /\ Calls(Stmt.func, a.v, Discarded, Advanced)
  /\ heap' = a.heap /\ UNCHANGED printed

Println(a) ==
  /\ Running("call") /\ Stmt.func \in DOMAIN Builtins
  /\ Goes(Advanced, scopes)
  /\ printed' = Append(printed, a.v[1])
  /\ heap' = a.heap

\* The rule of the value's variant; guards are not lowered, and the default rule
\* binds nothing.
Switch(a) ==
  /\ Running("match")
  /\ LET arm == FirstOfArms(Stmt.arms, Matching(Stmt.arms, a.v[1]))
     IN /\ Goes(<<BlockItem(arm.body), [k |-> "switch", depth |-> Len(scopes)]>> \o Advanced,
                <<IF arm.variant = None THEN <<>> ELSE Bindings(arm, a.v[1])>> \o scopes)
        /\ heap' = a.heap
  /\ UNCHANGED printed

Try ==
  /\ Running("try")
  /\ Enters(<<[k |-> "try", st |-> Stmt, depth |-> Len(scopes)]>> \o Advanced, Stmt.body, <<>>)
  /\ UNCHANGED <<heap, printed>>

\* Wrong on purpose: the handler runs with the scopes of the throw.
HandlerKeepsScopes(at) == scopes
\* The scopes a handler starts from: those of its try statement.
HandlerScopes(at) ==
  LET calls == {i \in 1..at - 1 : todo[i].k = "call"}
      outermost == CHOOSE i \in calls : \A j \in calls : j <= i
  IN Outside(todo[at], IF calls = {} THEN scopes ELSE todo[outermost].saved)

\* The nearest try on the stack catches a panic, in this method or a caller.
Panic(a) ==
  LET tries == {i \in DOMAIN todo : todo[i].k = "try"}
      at == Innermost(tries)
      st == todo[at].st
  IN /\ a.r = "panic"
     /\ heap' = a.heap
     /\ IF tries = {}
          THEN stage' = "panicked" /\ UNCHANGED <<source, todo, scopes, why>>
          ELSE Goes(<<[k |-> "block", ss |-> st.handler, depth |-> todo[at].depth]>>
                      \o Below(at),
                    <<Iterates(st.x, Caught, Scalar("exception"))>>
                      \o HandlerScopes(at))
     /\ UNCHANGED printed

\* Any other exception passes every catch.
Crash(a) ==
  /\ a.r = "error"
  /\ stage' = "crashed"
  /\ UNCHANGED <<source, todo, scopes, heap, printed, why>>

EndBlock ==
  /\ Inside("block")
  /\ IF Tail(todo) = <<>> THEN stage' = "done" /\ UNCHANGED <<source, todo, scopes, why>>
     ELSE Goes(Tail(todo), Outside(Top, scopes))
  /\ UNCHANGED <<heap, printed>>

EndItem ==
  /\ stage = "run" /\ ~AtStmt /\ Top.k \in {"switch", "try", "call"}
  /\ Goes(Tail(todo), IF Top.k = "call" THEN Top.saved ELSE Outside(Top, scopes))
  /\ UNCHANGED <<heap, printed>>

\* A step with its operands evaluated.
Step(a) ==
  \/ Refuse(a) \/ Panic(a) \/ Crash(a)
  \/ /\ Accepted(a)
     /\ \/ Let(a) \/ EnterStream(a) \/ Assign(a) \/ Add(a) \/ SetElement(a) \/ If(a)
        \/ TestWhile(a) \/ EnterFor(a) \/ TestFor(a) \/ EnterEach(a)
        \/ Break \/ Continue \/ Return(a) \/ CallMethod(a) \/ Println(a) \/ Switch(a) \/ Try
        \/ EndItem

CompileNext ==
  \/ Verdict \/ Query \/ StreamRound \/ EnterWhile \/ TestEach \/ EndBlock
  \/ stage = "run" /\ \E a \in {Evaluated} : Step(a)

Ended == stage \notin {"verify", "run"}

\* The JVM goes on running main until it ends.
CompileFairness == []<>Ended \/ []<><<CompileNext>>_runVars

CompileSpec == CompileInit /\ [][CompileNext]_runVars /\ CompileFairness

(***************************************************************************)
(* Properties                                                               *)
(***************************************************************************)

\* What Verify leaves to javac: a name declared again in a nested scope, a
\* variable read before it is set, a List where an ArrayList is declared, a match
\* that does not cover its union or repeats a variant, an arm of one statement
\* that is no expression, a path without a return; of closures the signatures, what
\* may be captured, what is left of an environment, where a literal may stand, a
\* call by name and what has a stream; which union a value is of, what a variant is
\* made of and what an arm takes from it; below their heads, the arguments of a call
\* statement and the elements of a list that one is put in or that is joined; raw
\* types, the element added to a set, and reverse.
LeftToJavac ==
  {"shadow", "unset", "arraylist", "exhaustive", "dominated", "rule", "noreturn",
   "lambda", "closure", "envref", "signature", "receiver", "stream", "raw",
   "unchecked", "builder", "accessor", "caught", "element", "lifted", "union", "variant",
   "argument"}

\* A program Verify accepts has, wherever its run gets, no unresolved or unset
\* name, no value of another type than its context wants, no assignment to a final
\* variable, no misplaced jump and no wrong arity: javac finds nothing else than
\* what Verify does not look for.
VerifiedIsWellTyped == stage = "javac" => why \in LeftToJavac

\* The compiled program prints what the program means, and fails when it fails.
RunsAsWritten ==
  Ended /\ stage \notin {"rejected", "unlowered", "javac"} =>
    [out |-> printed, ends |-> IF stage = "done" THEN "done" ELSE "failed"]
      = MeaningOf(source)

\* A verified program whose meaning is finite comes to an end.  (Every program of
\* the run has a finite meaning.)
RunsEnd == <>Ended
=============================================================================
