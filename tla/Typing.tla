------------------------------- MODULE Typing -------------------------------
(***************************************************************************)
(* What a verified expression comes to on the JVM: the values a shape stands  *)
(* for, the heaps whose objects hold what their shapes say, and when the       *)
(* locals of a running method are those the verifier has in scope.            *)
(***************************************************************************)
EXTENDS Evaluation

IsScalarOf(v, head) == v \in ScalarValues /\ v[1] = head

IsRecordOf(p, v, name) ==
  /\ v \in RecordValues /\ v[2] = name /\ Named(p.records, name)
  /\ LET fields == Decl(p.records, name).fields
     IN /\ Len(v[3]) = Len(fields)
        /\ \A i \in DOMAIN fields : v[3][i][1] = fields[i].shape.head

\* What a list or a set may hold.
IsItem(p, v, s) ==
  IF s.head = "record" THEN IsRecordOf(p, v, s.name) ELSE IsScalarOf(v, s.head)

IsObject(p, o) ==
  /\ o \in Objects /\ IsShape(o.shape)
  /\ CASE o.shape.head \in {"list", "set"} ->
            /\ o.shape.elem \in Scalars \cup (IF o.shape.head = "list" THEN {"record"} ELSE {})
            /\ \A i \in DOMAIN o.items : IsItem(p, o.items[i], ElementOf(o.shape))
       [] o.shape.head = "map" ->
            /\ o.shape.key \in Keys /\ o.shape.value \in Scalars
            /\ o.items \in Seq(Pairs)
            /\ \A i \in DOMAIN o.items :
                 /\ IsScalarOf(o.items[i][1], o.shape.key)
                 /\ IsScalarOf(o.items[i][2], o.shape.value)
       [] OTHER -> FALSE

IsHeap(p, heap) == heap \in Heaps /\ \A r \in DOMAIN heap : IsObject(p, heap[r])
Grows(old, new) ==
  Len(old) <= Len(new) /\ \A r \in DOMAIN old : new[r].shape = old[r].shape

IsRefTo(v, s, heap) ==
  \E r \in DOMAIN heap : v = RefV(r) /\ Agrees(heap[r].shape, s)

\* A set may be of other elements than its shape says, and a union another one.
IsValue(p, v, s, heap) ==
  CASE s.head \in {"list", "map", "set"} -> IsRefTo(v, s, heap)
    [] s.head \in {"union", "fun"} -> v[1] = (IF s.head = "fun" THEN "fun" ELSE "variant")
    [] OTHER -> IsItem(p, v, s)

\* The catch variable is an int to the verifier.
MayBe(p, v, s, heap) == IsValue(p, v, s, heap) \/ (v = Caught /\ s = IntType)

\* The method's locals are what the verifier has in scope.
Sees(cx, c, heap) ==
  /\ c.prog = cx.prog
  /\ \A x \in UNION {DOMAIN c.scopes[i] : i \in DOMAIN c.scopes} :
       /\ IsShape(Lookup(c, x).shape)
       /\ IF Bound(cx, x)
            THEN Lookup(cx, x).v = Unset \/ MayBe(cx.prog, Lookup(cx, x).v, Lookup(c, x).shape, heap)
            ELSE IsEnvName(cx, x)

\* How an evaluation may end: with a value, in an exception, or in what Verify
\* leaves to javac; never for a name or a type.
MayEnd ==
  {"ok", "panic", "error", "unset", "lambda", "closure", "envref", "unchecked", "builder",
   "accessor", "caught", "element", "variant"}

Sound(p, s, heap, a) ==
  /\ IsHeap(p, a.heap) /\ Grows(heap, a.heap)
  /\ a.r \in MayEnd
  /\ a.r = "ok" => MayBe(p, a.v, s, a.heap)
=============================================================================
