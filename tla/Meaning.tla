------------------------------ MODULE Meaning ------------------------------
(***************************************************************************)
(* What a program means by the comments of transpiler/aotir/program.go, apart *)
(* from how it is compiled: append makes a new list and leaves its input      *)
(* alone, a range is the half-open interval of its two bounds, break leaves    *)
(* the nearest loop, an arm with a guard is taken when the guard holds, a      *)
(* missing element is a panic a try can catch, a closure keeps the values its  *)
(* captures had when it was made.  Expressions mean what Evaluation says.      *)
(***************************************************************************)
EXTENDS Evaluation

Context(p, s) == [prog |-> p, scopes |-> s.scopes, jvm |-> FALSE]

\* The operands of a statement, all of them evaluated before it does anything.
OperandsOf(st) ==
  CASE st.st = "let" -> IF st.init.op = "none" THEN <<>>
                        ELSE IF st.init.op \in Callers THEN st.init.args ELSE <<st.init>>
    [] st.st = "assign" -> <<st.value>>
    [] st.st \in {"listset", "mapput"} -> <<st.index, st.value>>
    [] st.st \in {"if", "while"} -> <<st.cond>>
    [] st.st = "for" -> <<st.from, st.to>>
    [] st.st = "foreach" -> <<st.list>>
    [] st.st = "return" -> IF st.value.op = "none" THEN <<>> ELSE <<st.value>>
    [] st.st = "match" -> <<st.target>>
    [] st.st \in {"call"} \cup DOMAIN StrictStmt -> st.args
    [] OTHER -> <<>>

ScopeOf(s, x) ==
  CHOOSE i \in DOMAIN s.scopes :
    x \in DOMAIN s.scopes[i] /\ \A j \in 1..i - 1 : x \notin DOMAIN s.scopes[j]
Set(s, x, v) == [s EXCEPT !.scopes[ScopeOf(s, x)][x].v = v]
Declared(s, x, shape, v) ==
  [s EXCEPT !.scopes[1] = (x :> Local(v, shape, FALSE)) @@ @]
Item(s, x) == Lookup(s, x).v[2]
Signalled(s, signal) == [s EXCEPT !.signal = signal]

\* The arms for a value; the first of those whose guard holds is taken.
Matching(arms, v) == {i \in DOMAIN arms : arms[i].variant \in {None, v[2]}}
FirstOfArms(arms, open) == arms[CHOOSE i \in open : \A j \in open : i <= j]

Bindings(arm, v) ==
  [x \in {arm.binds[k].x : k \in DOMAIN arm.binds} |->
     LET b == CHOOSE b \in ToSet(arm.binds) : b.x = x
     IN Local(v[3][b.index], b.shape, TRUE)]

\* The statements and what runs them call each other.
RECURSIVE Do(_, _, _), Run(_, _, _), Block(_, _, _, _), Round(_, _, _, _),
          Again(_, _, _), Through(_, _, _, _, _), Called(_, _, _, _, _),
          Elementwise(_, _, _, _, _, _), LetCall(_, _, _, _), Taken(_, _, _, _),
          MatchArms(_, _, _, _), Effect(_, _, _, _), Proceed(_, _, _, _)

Run(p, ss, s) ==
  IF ss = <<>> \/ s.signal # "ok" THEN s ELSE Run(p, Tail(ss), Do(p, Head(ss), s))

Block(p, ss, binds, s) ==
  LET after == Run(p, ss, [s EXCEPT !.scopes = <<binds>> \o @])
  IN [after EXCEPT !.scopes = Tail(@)]

\* A round of a loop, and what is left of a signal once the loop is.
Round(p, body, binds, s) ==
  LET after == Block(p, body, binds, s)
  IN IF after.signal = "continue" THEN Signalled(after, "ok") ELSE after
Left(s) == IF s.signal = "break" THEN Signalled(s, "ok") ELSE s

Again(p, st, s) ==
  LET after == Round(p, st.body, <<>>, s)
  IN IF after.signal = "ok" THEN Do(p, st, after) ELSE Left(after)

\* One round for each value of the loop's variable.
Through(p, st, values, shape, s) ==
  IF values = <<>> \/ s.signal # "ok" THEN Left(s)
  ELSE Through(p, st, Tail(values), shape,
               Round(p, st.body, st.x :> Local(Head(values), shape, TRUE), s))

\* The run of a function with the values its closure captured.
Called(p, f, captured, args, s) ==
  LET fn == Decl(p.functions, f)
      env == [i \in DOMAIN fn.captures |->
                Param(EnvName(fn.captures[i].field), Scalar(fn.captures[i].head))]
      params == fn.params \o env
      values == args \o captured
      binds == [x \in {params[i].x : i \in DOMAIN params} |->
                  LET i == CHOOSE i \in DOMAIN params : params[i].x = x
                  IN Local(values[i], params[i].shape, TRUE)]
      end == Run(p, fn.body, [s EXCEPT !.scopes = <<binds>>])
  IN [end EXCEPT !.scopes = s.scopes, !.signal = IF @ = "return" THEN "ok" ELSE @]

\* What map, filter and reduce make of one element more.
Collected(op, acc, x, v) ==
  CASE op = "mapx" -> Append(acc, v)
    [] op = "filterx" -> IF v[2] THEN Append(acc, x) ELSE acc
    [] op = "foldl" -> <<v>>

\* The function is called for each element, first to last.
Elementwise(p, op, f, items, acc, s) ==
  IF items = <<>> \/ s.signal # "ok" THEN [state |-> s, acc |-> acc]
  ELSE LET x == Head(items)
           after == Called(p, f[2], f[3], IF op = "foldl" THEN <<acc[1], x>> ELSE <<x>>, s)
       IN Elementwise(p, op, f, Tail(items),
                      IF after.signal = "ok" THEN Collected(op, acc, x, after.result) ELSE acc, after)

\* A let whose initialiser calls, the operands' values being vs.
LetCall(p, st, vs, s) ==
  LET op == st.init.op
      end == CASE op = "call" -> [state |-> Called(p, st.init.func, <<>>, vs, s), acc |-> <<>>]
               [] op = "funcall" -> [state |-> Called(p, vs[1][2], vs[1][3], Tail(vs), s), acc |-> <<>>]
               [] OTHER -> Elementwise(p, op, vs[2], s.heap[vs[1][2]].items, Tail(Tail(vs)), s)
      t == end.state
  IN CASE t.signal # "ok" -> t
       [] op \in {"call", "funcall"} -> Declared(t, st.x, st.shape, t.result)
       [] op = "foldl" -> Declared(t, st.x, st.shape, end.acc[1])
       [] OTHER -> Declared([t EXCEPT !.heap = Append(@, Object(st.shape, end.acc))],
                            st.x, st.shape, RefV(Len(t.heap) + 1))

GuardHolds(p, arm, v, s) ==
  \/ arm.guard = NoExpr
  \/ Eval([Context(p, s) EXCEPT !.scopes = <<Bindings(arm, v)>> \o @], arm.guard, s.heap).v = BoolV(TRUE)
Taken(p, arm, v, s) == Block(p, arm.body, Bindings(arm, v), s)
MatchArms(p, st, v, s) ==
  Taken(p, FirstOfArms(st.arms, {i \in Matching(st.arms, v) : GuardHolds(p, st.arms[i], v, s)}), v, s)

\* A statement whose operands have the values vs.
Effect(p, st, vs, s) ==
  CASE st.st = "let" /\ st.init.op \in Callers -> LetCall(p, st, vs, s)
    [] st.st = "call" /\ st.func \notin DOMAIN Builtins -> Called(p, st.func, <<>>, vs, s)
    [] st.st = "let" -> Declared(s, st.x, st.shape, IF vs = <<>> THEN Unset ELSE vs[1])
    [] st.st = "assign" -> Set(s, st.x, vs[1])
    [] st.st = "listset" ->
         IF vs[1][2] \in 0..Len(s.heap[Item(s, st.x)].items) - 1
           THEN [s EXCEPT !.heap[Item(s, st.x)].items[vs[1][2] + 1] = vs[2]]
           ELSE Signalled(s, "panic")
    [] st.st = "mapput" -> [s EXCEPT !.heap[Item(s, st.x)].items = Put(@, vs[1], vs[2])]
    [] st.st = "if" -> Block(p, IF vs[1][2] THEN st.then ELSE st.else, <<>>, s)
    [] st.st = "while" -> IF vs[1][2] THEN Again(p, st, s) ELSE s
    [] st.st = "for" ->
         Through(p, st, [i \in 1..vs[2][2] - vs[1][2] |-> IntV(vs[1][2] + i - 1)], IntType, s)
    [] st.st = "foreach" -> Through(p, st, s.heap[vs[1][2]].items, st.elem, s)
    [] st.st \in {"break", "continue"} -> Signalled(s, st.st)
    [] st.st = "return" ->
         [s EXCEPT !.signal = "return", !.result = IF vs = <<>> THEN Unset ELSE vs[1]]
    [] st.st = "match" -> MatchArms(p, st, vs[1], s)
    [] st.st = "try" ->
         LET after == Block(p, st.body, <<>>, s)
         IN IF after.signal # "panic" THEN after
            ELSE Block(p, st.handler, st.x :> Local(IntV(5), IntType, TRUE), Signalled(after, "ok"))
    [] st.st = "query" -> Block(p, st.body, <<>>, s)
    [] st.st = "env" -> s
    [] st.st = "call" -> [s EXCEPT !.out = Append(@, vs[1])]

\* a is what the operands evaluated to.
Proceed(p, st, a, s) ==
  IF a.r = "ok" THEN Effect(p, st, a.v, [s EXCEPT !.heap = a.heap])
  ELSE [s EXCEPT !.heap = a.heap, !.signal = a.r]
Do(p, st, s) == Proceed(p, st, EvalAll(Context(p, s), OperandsOf(st), s.heap), s)

\* What a run of the program prints, and whether it ends or fails.
Outcome(end) ==
  [out |-> end.out, ends |-> IF end.signal \in {"ok", "return"} THEN "done" ELSE "failed"]
MeaningOf(p) ==
  Outcome(Run(p, Last(p.functions).body,
              [scopes |-> <<<<>>>>, heap |-> <<>>, out |-> <<>>, signal |-> "ok", result |-> Unset]))
=============================================================================
