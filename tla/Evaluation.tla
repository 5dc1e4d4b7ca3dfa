---------------------------- MODULE Evaluation ----------------------------
(***************************************************************************)
(* What an expression of the emitted Java computes (transpiler/lower/expr.go  *)
(* and the runtime's ListUtil, MapUtil and IntMath).  A value carries its tag; *)
(* lists, maps and sets are references into a heap.  The result r is "ok",     *)
(* "panic" (a MochiPanicException), "error" (any other exception) or what      *)
(* javac would refuse.  With cx.jvm FALSE a missing element panics, keys are    *)
(* sorted, a set is not changed and a letter that is not there is no letter,   *)
(* as the comments of aotir say.  Ints stay small: int64 width and the identity  *)
(* of boxed Longs are not modelled; a map read is always unboxed; only lists of *)
(* ints are sorted.                                                          *)
(***************************************************************************)
EXTENDS Verifier

IntV(n) == <<"int", n>>
BoolV(b) == <<"bool", b>>
StringV(t) == <<"string", t>>
RefV(r) == <<"ref", r>>
Unset == <<"unset">>

\* What a catch binds.
Caught == <<"exception">>

\* What lists, maps and sets hold: scalars, records of scalars, and pairs.
ScalarValues == ({"int"} \X Int) \cup ({"bool"} \X BOOLEAN) \cup ({"string"} \X Seq(Words))
RecordValues == {"record"} \X Words \X Seq(ScalarValues)
Pairs == ScalarValues \X ScalarValues

\* An object of the heap: mods is ArrayList.modCount; a map's items are pairs.
Object(s, items) == [shape |-> s, items |-> items, mods |-> 0]
Objects ==
  [shape : Shapes, items : Seq(ScalarValues \cup RecordValues) \cup Seq(Pairs), mods : Nat]
Heaps == Seq(Objects)

\* Whether Java lets a value of this kind stand where the shape is declared.
Fits(v, s, heap) ==
  CASE v[1] = "ref" -> Agrees(heap[v[2]].shape, s)
    [] v[1] = "record" -> s = RecordOf(v[2])
    [] v[1] = "variant" -> s = UnionOf(v[4])
    [] v[1] = "fun" -> s = FunOf(v[4])
    [] OTHER -> v[1] = s.head

Got(v, heap) == [r |-> "ok", v |-> v, heap |-> heap]
Fault(r, heap) == [r |-> r, v |-> Unset, heap |-> heap]
Made(object, heap) == Got(RefV(Len(heap) + 1), Append(heap, object))

Keys1(items) == {items[i][1] : i \in DOMAIN items}
At(items, k) == CHOOSE i \in DOMAIN items : items[i][1] = k
Put(items, k, v) ==
  IF k \in Keys1(items) THEN [items EXCEPT ![At(items, k)] = <<k, v>>]
  ELSE Append(items, <<k, v>>)

(***************************************************************************)
(* The local variables: scopes, innermost first.                            *)
(***************************************************************************)
Local(v, s, final) == [v |-> v, shape |-> s, final |-> final, once |-> final]

\* The variables of an environment that the lowering left in a body.
IsEnvName(cx, x) ==
  \E fn \in ToSet(cx.prog.functions) : \E q \in ToSet(fn.captures) : x = EnvName(q.field)

ReadVar(cx, x, heap) ==
  IF ~Bound(cx, x) THEN Fault(IF IsEnvName(cx, x) THEN "envref" ELSE "name", heap)
  ELSE IF Lookup(cx, x).v = Unset THEN Fault("unset", heap)
  ELSE Got(Lookup(cx, x).v, heap)

\* Java's division drops the fraction.
Truncated(a, b) ==
  LET Abs(n) == IF n < 0 THEN -n ELSE n
  IN IF (a < 0) = (b < 0) THEN Abs(a) \div Abs(b) ELSE -(Abs(a) \div Abs(b))

Arithmetic(op, a, b) ==
  CASE op = "+" -> IntV(a + b) [] op = "-" -> IntV(a - b)
    [] op = "/" -> IntV(Truncated(a, b))
    [] op = "<" -> BoolV(a < b) [] op \in {"==", "==s"} -> BoolV(a = b)
    [] op = "cat" -> StringV(a \o b)

LowerBinary(e, vs, heap) ==
  IF \E i \in {1, 2} : vs[i][1] # OperandTypes(e.op) THEN Fault("type", heap)
  ELSE IF e.op = "/" /\ vs[2][2] = 0 THEN Fault("panic", heap)
  ELSE Got(Arithmetic(e.op, vs[1][2], vs[2][2]), heap)

LowerListLit(e, vs, heap) ==
  IF \A i \in DOMAIN vs : Fits(vs[i], ElementOf(e.shape), heap)
    THEN Made(Object(e.shape, vs), heap) ELSE Fault("type", heap)

\* A new list; the receiver keeps its items.
LowerAppend(e, vs, heap) ==
  IF vs[1][1] # "ref" THEN Fault("type", heap)
  ELSE LET xs == heap[vs[1][2]]
       IN IF ~Fits(vs[2], ElementOf(xs.shape), heap) THEN Fault("type", heap)
          ELSE Made(Object(xs.shape, Append(xs.items, vs[2])), heap)

Missing(jvm) == IF jvm THEN "error" ELSE "panic"

LowerIndex(e, vs, heap, jvm) ==
  IF vs[1][1] # "ref" \/ vs[2][1] # "int" THEN Fault("type", heap)
  ELSE LET xs == heap[vs[1][2]].items
       IN IF vs[2][2] \in 0..Len(xs) - 1 THEN Got(xs[vs[2][2] + 1], heap)
          ELSE Fault(Missing(jvm), heap)

LowerLen(e, vs, heap) ==
  IF vs[1][1] # "ref" THEN Fault("type", heap) ELSE Got(IntV(Len(heap[vs[1][2]].items)), heap)

\* MapUtil.of puts the pairs one by one: the last of equal keys wins.
LowerMapLit(e, vs, heap) ==
  LET after[n \in 0..Len(vs) \div 2] ==
        IF n = 0 THEN <<>> ELSE Put(after[n - 1], vs[2 * n - 1], vs[2 * n])
  IN Made(Object(e.shape, after[Len(vs) \div 2]), heap)

LowerMapGet(e, vs, heap, jvm) ==
  IF vs[1][1] # "ref" THEN Fault("type", heap)
  ELSE LET m == heap[vs[1][2]].items
       IN IF vs[2] \in Keys1(m) THEN Got(m[At(m, vs[2])][2], heap)
          ELSE Fault(Missing(jvm), heap)

LowerMapHas(e, vs, heap) ==
  IF vs[1][1] # "ref" THEN Fault("type", heap)
  ELSE Got(BoolV(vs[2] \in Keys1(heap[vs[1][2]].items)), heap)

(***************************************************************************)
(* Sorting: each item goes behind those that are not greater.                *)
(***************************************************************************)
Before(a, b) == a[2] < b[2]
Inserted(ys, x) ==
  LET k == Cardinality({i \in DOMAIN ys : ~Before(x, ys[i])})
  IN SubSeq(ys, 1, k) \o <<x>> \o SubSeq(ys, k + 1, Len(ys))
Sorted(xs) ==
  LET sorted[n \in 0..Len(xs)] == IF n = 0 THEN <<>> ELSE Inserted(sorted[n - 1], xs[n])
  IN sorted[Len(xs)]

\* Insertion order on the JVM, ascending by the comments.
LowerMapKeys(e, vs, heap, jvm) ==
  IF vs[1][1] # "ref" THEN Fault("type", heap)
  ELSE LET m == heap[vs[1][2]].items
           keys == [i \in DOMAIN m |-> m[i][1]]
       IN Made(Object(e.shape, IF jvm THEN keys ELSE Sorted(keys)), heap)

\* Records are not Comparable: two of them fail in the sort.
LowerSort(e, vs, heap) ==
  IF vs[1][1] # "ref" THEN Fault("type", heap)
  ELSE LET xs == heap[vs[1][2]].items
       IN IF e.shape.elem = "record" /\ Len(xs) > 1 THEN Fault("error", heap)
          ELSE Made(Object(e.shape, Sorted(xs)), heap)

Clamped(n, size) == IF n < 0 THEN 0 ELSE IF n > size THEN size ELSE n
LowerSlice(e, vs, heap) ==
  IF vs[1][1] # "ref" THEN Fault("type", heap)
  ELSE LET xs == heap[vs[1][2]].items
       IN Made(Object(e.shape, SubSeq(xs, Clamped(vs[2][2], Len(xs)) + 1, Clamped(vs[3][2], Len(xs)))),
               heap)

(***************************************************************************)
(* Sets: a LinkedHashSet keeps the first of equal elements.                  *)
(***************************************************************************)
Added(items, v) == IF v \in ToSet(items) THEN items ELSE Append(items, v)
LowerSetLiteral(e, vs, heap) ==
  LET after[n \in 0..Len(vs)] == IF n = 0 THEN <<>> ELSE Added(after[n - 1], vs[n])
  IN Made(Object(e.shape, after[Len(vs)]), heap)

\* ListUtil.setAdd adds in place and returns its receiver.
LowerSetAdd(e, vs, heap, jvm) ==
  IF vs[1][1] # "ref" \/ ~Fits(vs[2], ElementOf(heap[vs[1][2]].shape), heap)
    THEN Fault("unchecked", heap)
  ELSE IF jvm THEN Got(vs[1], [heap EXCEPT ![vs[1][2]].items = Added(@, vs[2])])
  ELSE Made(Object(e.shape, Added(heap[vs[1][2]].items, vs[2])), heap)

LowerSetHas(vs, heap) ==
  IF vs[1][1] # "ref" THEN Fault("type", heap)
  ELSE Got(BoolV(vs[2] \in ToSet(heap[vs[1][2]].items)), heap)

(***************************************************************************)
(* Strings                                                                  *)
(***************************************************************************)
Substring(t, from, to, heap) ==
  IF 0 <= from /\ from <= to /\ to <= Len(t) THEN Got(StringV(SubSeq(t, from + 1, to)), heap)
  ELSE Fault("error", heap)

LowerString(e, vs, heap, jvm) ==
  LET t == vs[1][2]
  IN IF \E i \in DOMAIN vs : vs[i][1] # Strict[e.op][i] THEN Fault("type", heap)
     ELSE CASE e.op = "strlen" -> Got(IntV(Len(t)), heap)
            [] e.op = "strat" -> IF vs[2][2] \in 0..Len(t) - 1 \/ jvm
                                   THEN Substring(t, vs[2][2], vs[2][2] + 1, heap)
                                   ELSE Got(StringV(<<>>), heap)
            [] e.op = "strhas" -> Got(BoolV(\E i \in 0..Len(t) - Len(vs[2][2]) : SubSeq(t, i + 1, i + Len(vs[2][2])) = vs[2][2]), heap)
            [] e.op = "substr" -> Substring(t, vs[2][2], vs[3][2], heap)
            \* StringBuilder.reverse, which is no String.
            [] e.op = "reverse" -> IF jvm THEN Fault("builder", heap) ELSE Got(StringV(Reverse(t)), heap)

\* String.join takes the elements one by one; javac wants them to be strings.
LowerJoin(vs, heap) ==
  IF vs[1][1] # "ref" \/ vs[2][1] # "string" THEN Fault("type", heap)
  ELSE LET xs == heap[vs[1][2]].items
           joined[n \in 0..Len(xs)] ==
             IF n = 0 THEN <<>> ELSE joined[n - 1] \o (IF n = 1 THEN <<>> ELSE vs[2][2]) \o xs[n][2]
       IN IF heap[vs[1][2]].shape.elem # "string" THEN Fault("element", heap)
          ELSE Got(StringV(joined[Len(xs)]), heap)

(***************************************************************************)
(* Closures.  The value of a literal is its function with the values of its   *)
(* captures; a lambda may capture what is assigned once.                      *)
(***************************************************************************)
FunV(f, values, sig) == <<"fun", f, values, sig>>
CapturedOnce(cx, x) == Bound(cx, x) /\ (cx.jvm => Lookup(cx, x).once)

LowerFunLit(cx, e, heap) ==
  LET values == [i \in DOMAIN e.captures |-> ReadVar(cx, e.captures[i].src, heap)]
      fn == Decl(cx.prog.functions, e.func)
      heads == [i \in DOMAIN e.captures |-> e.captures[i].head]
  IN IF \E q \in ToSet(e.captures) : ~CapturedOnce(cx, q.src) THEN Fault("lambda", heap)
     ELSE IF \/ ~Named(cx.prog.functions, e.func)
             \/ \E i \in DOMAIN values : values[i].r # "ok" \/ values[i].v[1] # heads[i]
             \/ heads # [i \in DOMAIN fn.captures |-> fn.captures[i].head]
             \/ e.shape.sig # Append([i \in DOMAIN fn.params |-> fn.params[i].shape.head], fn.returns.head)
       THEN Fault("closure", heap)
     ELSE Got(FunV(e.func, [i \in DOMAIN values |-> values[i].v], e.shape.sig), heap)

\* Lowered positionally: the constructor takes the fields in declared order.
LowerRecordLit(e, vs, heap) == Got(<<"record", e.shape.name, vs>>, heap)
LowerFieldAccess(cx, e, vs, heap) ==
  IF vs[1][1] # "record" \/ ~Named(Decl(cx.prog.records, vs[1][2]).fields, e.field)
    THEN Fault("type", heap)
  ELSE LET fields == Decl(cx.prog.records, vs[1][2]).fields
       IN Got(vs[1][3][CHOOSE i \in DOMAIN fields : fields[i].name = e.field], heap)
\* new U.V(...), U.V being a record class; only javac compares the fields with it.
LowerVariantLit(cx, e, vs, heap) ==
  LET variants == Decl(cx.prog.unions, e.shape.name).variants
      fields == Decl(variants, e.variant).fields
  IN IF /\ Named(variants, e.variant) /\ Len(vs) = Len(fields)
        /\ \A i \in DOMAIN fields : Fits(vs[i], fields[i].shape, heap)
       THEN Got(<<"variant", e.variant, vs, e.shape.name>>, heap) ELSE Fault("variant", heap)
\* Called on the union's interface, which has no accessors.
LowerVariantFieldAccess(e, vs, heap, jvm) ==
  IF jvm THEN Fault("accessor", heap) ELSE Got(vs[1][3][e.field], heap)

(***************************************************************************)
(* lowerExpr: operands from left to right, the first fault ends it.         *)
(***************************************************************************)
Apply(cx, e, vs, heap) ==
  CASE e.op = "not" -> IF vs[1][1] = "bool" THEN Got(BoolV(~vs[1][2]), heap)
                       ELSE Fault("type", heap)
    [] e.op = "neg" -> IF vs[1][1] = "int" THEN Got(IntV(-vs[1][2]), heap)
                       ELSE Fault("type", heap)
    [] e.op = "list" -> LowerListLit(e, vs, heap)
    [] e.op = "append" -> LowerAppend(e, vs, heap)
    [] e.op = "index" -> LowerIndex(e, vs, heap, cx.jvm)
    [] e.op \in {"len", "maplen", "setlen"} -> LowerLen(e, vs, heap)
    [] e.op = "map" -> LowerMapLit(e, vs, heap)
    [] e.op = "keys" -> LowerMapKeys(e, vs, heap, cx.jvm)
    [] e.op = "sort" -> LowerSort(e, vs, heap)
    [] e.op = "slice" -> LowerSlice(e, vs, heap)
    [] e.op = "set" -> LowerSetLiteral(e, vs, heap)
    [] e.op = "setadd" -> LowerSetAdd(e, vs, heap, cx.jvm)
    [] e.op = "sethas" -> LowerSetHas(vs, heap)
    [] e.op \in {"strlen", "strat", "strhas", "substr", "reverse"} -> LowerString(e, vs, heap, cx.jvm)
    [] e.op = "join" -> LowerJoin(vs, heap)
    [] e.op = "get" -> LowerMapGet(e, vs, heap, cx.jvm)
    [] e.op = "has" -> LowerMapHas(e, vs, heap)
    [] e.op = "record" -> LowerRecordLit(e, vs, heap)
    [] e.op = "field" -> LowerFieldAccess(cx, e, vs, heap)
    [] e.op = "variant" -> LowerVariantLit(cx, e, vs, heap)
    [] e.op = "vfield" -> LowerVariantFieldAccess(e, vs, heap, cx.jvm)
    [] OTHER -> LowerBinary(e, vs, heap)

\* Nodes the verifier knows and the lowering has no case for; the guard of an arm
\* is not lowered at all.
Unlowered ==
  {"min", "max", "sum", "contains", "values", "setlist", "omap", "omapget", "omapset",
   "omaphas", "omaplen", "readfile", "lines", "csv", "panic", "write", "writeon", "save",
   "omapput"}
LowersExpr(e) ==
  LET lowers[n \in 0..Len(Exprs)] ==
        IF n = 0 THEN <<>>
        ELSE [x \in Exprs[n] |-> x.op \notin Unlowered /\ \A i \in DOMAIN Args(x) : lowers[n - 1][Args(x)[i]]]
  IN lowers[Len(Exprs)][e]

\* es one after the other, by the evaluations ev.
InTurn(ev, es, heap) ==
  LET a[i \in 0..Len(es)] ==
        IF i = 0 THEN Got(<<>>, heap)
        ELSE IF a[i - 1].r # "ok" THEN a[i - 1]
        ELSE LET b == ev[<<es[i], a[i - 1].heap>>]
             IN IF b.r = "ok" THEN Got(Append(a[i - 1].v, b.v), b.heap) ELSE b
  IN a[Len(es)]

\* && and ||: the second operand is evaluated when the first does not decide.
ShortCircuit(ev, e, heap) ==
  LET a == ev[<<e.args[1], heap>>]
      decided == a.r = "ok" /\ a.v = BoolV(e.op = "or")
      b == IF a.r # "ok" \/ decided THEN a ELSE ev[<<e.args[2], a.heap>>]
  IN IF b.r = "ok" /\ (a.v[1] # "bool" \/ b.v[1] # "bool") THEN Fault("type", b.heap) ELSE b

EvalNode(cx, ev, e, heap) ==
  CASE e.op = "int" -> Got(IntV(e.n), heap)
    [] e.op = "string" -> Got(StringV(e.t), heap)
    [] e.op = "bool" -> Got(BoolV(e.b), heap)
    [] e.op \in {"var", "unionvar"} -> ReadVar(cx, e.x, heap)
    [] e.op = "funlit" -> LowerFunLit(cx, e, heap)
    [] e.op \in {"and", "or"} -> ShortCircuit(ev, e, heap)
    [] OTHER -> LET a == InTurn(ev, e.args, heap)
                IN IF a.r # "ok" THEN a
                   ELSE IF Caught \in ToSet(a.v) THEN Fault("caught", a.heap)
                   ELSE Apply(cx, e, a.v, a.heap)

\* The evaluations of all expressions in all heaps.
Evaluations(cx) ==
  LET ev[n \in 0..Len(Exprs)] ==
        IF n = 0 THEN <<>>
        ELSE [at \in Exprs[n] \X Heaps |-> EvalNode(cx, ev[n - 1], at[1], at[2])]
  IN ev[Len(Exprs)]

Eval(cx, e, heap) == Evaluations(cx)[<<e, heap>>]
EvalAll(cx, es, heap) == InTurn(Evaluations(cx), es, heap)
=============================================================================
