--------------------------- MODULE CompilerProofs ---------------------------
(***************************************************************************)
(* The evaluator of the compiler computes the least model of every             *)
(* well-formed Datalog program; and an expression the verifier accepts and the  *)
(* lowering emits has, on the JVM, a value of its own type.                    *)
(***************************************************************************)
EXTENDS Datalog, Typing, DataLemmas

(***************************************************************************)
(* The loops of the evaluator, unfolded.                                    *)
(***************************************************************************)
OnLiteral(body, envs, i) == Join(envs, body[i])

OnColumn(of, vals, i) == AddFree(of[1], of[2], vals, i)
OnTuple(of, got, i) == AddMatch(of[1], of[2], got, i)

Seeding == INSTANCE Loops WITH Step <- AddFact
Joining == INSTANCE Loops WITH Step <- OnLiteral
Freeing == INSTANCE Loops WITH Step <- OnColumn
Collecting == INSTANCE Loops WITH Step <- OnTuple

LEMMA EnvironmentsUnfold ==
  ASSUME NEW body, Len(body) \in Nat
  PROVE  \E envs : /\ envs = [i \in 0..Len(body) |->
                                IF i = 0 THEN {Unbound} ELSE Join(envs[i - 1], body[i])]
                   /\ Environments(body) = envs[Len(body)]
  <1>1. \E envs : Joining!IsLoop(envs, body, {Unbound}, Len(body))
    BY Joining!LoopExists
  <1> QED
    BY <1>1 DEF Joining!IsLoop, OnLiteral, Environments

LEMMA SeedUnfold ==
  ASSUME NEW p, Len(p.facts) \in Nat
  PROVE  \E state : /\ state = [i \in 0..Len(p.facts) |->
                                  IF i = 0 THEN [n \in Names |-> <<>>]
                                  ELSE AddFact(p.facts, state[i - 1], i)]
                    /\ Seed(p) = state[Len(p.facts)]
  <1>1. \E state : Seeding!IsLoop(state, p.facts, [n \in Names |-> <<>>], Len(p.facts))
    BY Seeding!LoopExists
  <1> QED
    BY <1>1 DEF Seeding!IsLoop, Seed

LEMMA FreeUnfold ==
  ASSUME NEW t, NEW args, Len(args) \in Nat
  PROVE  \E vals : /\ vals = [i \in 0..Len(args) |->
                                IF i = 0 THEN <<>> ELSE AddFree(args, t, vals[i - 1], i)]
                   /\ Free(t, args) = vals[Len(args)]
  <1>1. \E vals : Freeing!IsLoop(vals, <<args, t>>, <<>>, Len(args))
    BY Freeing!LoopExists
  <1> QED
    BY <1>1 DEF Freeing!IsLoop, OnColumn, Free

LEMMA CollectUnfold ==
  ASSUME Len(rel[prog.query.name]) \in Nat
  PROVE  LET tuples == rel[prog.query.name]
         IN \E got : /\ got = [i \in 0..Len(tuples) |->
                                  IF i = 0 THEN <<>>
                                  ELSE AddMatch(tuples, prog.query.args, got[i - 1], i)]
                     /\ Collect = got[Len(tuples)]
  <1> DEFINE tuples == rel[prog.query.name]
  <1>1. \E got : Collecting!IsLoop(got, <<tuples, prog.query.args>>, <<>>, Len(tuples))
    BY Collecting!LoopExists
  <1> QED
    BY <1>1 DEF Collecting!IsLoop, OnTuple, Collect

(***************************************************************************)
(* Terms under a binding.                                                   *)
(***************************************************************************)
LEMMA GroundSame ==
  ASSUME NEW args, IsTerms(args), NEW d, NEW e, \A v \in VarsOf(args) : d[v] = e[v]
  PROVE  Ground(args, d) = Ground(args, e)
  BY DEF Ground, VarsOf, IsTerms

LEMMA GroundIsTuple ==
  ASSUME NEW args, IsTerms(args), NEW D, VarsOf(args) \subseteq D, NEW e \in [D -> Consts]
  PROVE  Ground(args, e) \in Seq(Consts) /\ Len(Ground(args, e)) = Len(args)
  <1>1. Len(args) \in Nat
    BY DEF IsTerms
  <1>2. \A i \in 1..Len(args) : args[i].var => args[i].text \in VarsOf(args)
    BY DEF VarsOf
  <1>3. Ground(args, e) \in [1..Len(args) -> Consts]
    BY <1>1, <1>2 DEF Ground, IsTerms
  <1> QED
    BY <1>1, <1>3

LEMMA ResolveIsGround ==
  ASSUME NEW args, IsTerms(args), NEW e, VarsOf(args) \subseteq DOMAIN e
  PROVE  \A i \in 1..Len(args) : Resolve(args[i], e) = Ground(args, e)[i]
  BY DEF Resolve, Ground, VarsOf, IsTerms

\* A tuple is what the arguments resolve to when it is their ground instance.
LEMMA ResolvesTo ==
  ASSUME NEW args, IsTerms(args), NEW e, VarsOf(args) \subseteq DOMAIN e, NEW t \in Seq(Consts)
  PROVE  t = Ground(args, e) <=>
           Len(t) = Len(args) /\ \A i \in 1..Len(args) : Resolve(args[i], e) = t[i]
  <1>1. Len(args) \in Nat /\ Len(t) \in Nat /\ t = [i \in 1..Len(t) |-> t[i]]
    BY DEF IsTerms
  <1>2. Ground(args, e) = [i \in 1..Len(args) |-> Ground(args, e)[i]]
    BY DEF Ground
  <1>3. Len(Ground(args, e)) = Len(args)
    BY <1>1 DEF Ground
  <1>4. \A i \in 1..Len(args) : Resolve(args[i], e) = Ground(args, e)[i]
    BY ResolveIsGround
  <1>5. ASSUME Len(t) = Len(args), \A i \in 1..Len(args) : Resolve(args[i], e) = t[i]
        PROVE  t = Ground(args, e)
    BY <1>1, <1>2, <1>4, <1>5
  <1> QED
    BY <1>3, <1>4, <1>5

LEMMA BoundByNext ==
  ASSUME NEW body, NEW n \in Nat
  PROVE  BoundBy(body, n + 1) =
           IF body[n + 1].kind = "pos" THEN BoundBy(body, n) \cup VarsOf(body[n + 1].args)
                                       ELSE BoundBy(body, n)
  BY DEF BoundBy

(***************************************************************************)
(* A literal filters or extends the bindings to those that satisfy it.       *)
(***************************************************************************)
RelationsOK == rel \in [Names -> Seq(Seq(Consts))]

\* The bindings of the variables of the first n literals that satisfy them.
Solutions(body, n, M) ==
  {e \in [BoundBy(body, n) -> Consts] : \A i \in 1..n : LiteralHolds(body[i], e, M)}

LEMMA AtomsAreTuples ==
  ASSUME RelationsOK, NEW n \in Names, NEW t
  PROVE  <<n, t>> \in Atoms <=> t \in Tuples(n)
  BY DEF Atoms

LEMMA TuplesAreSequences ==
  ASSUME RelationsOK, NEW n \in Names
  PROVE  Tuples(n) \subseteq Seq(Consts) /\ IsFiniteSet(Tuples(n))
  <1>1. /\ Len(rel[n]) \in Nat /\ DOMAIN rel[n] = 1..Len(rel[n])
        /\ rel[n] \in [1..Len(rel[n]) -> Seq(Consts)]
    BY LenProperties DEF RelationsOK
  <1>2. IsFiniteSet(DOMAIN rel[n])
    BY <1>1, FS_Interval
  <1>3. rel[n] = [i \in DOMAIN rel[n] |-> rel[n][i]]
    BY <1>1
  <1>4. IsFiniteSet({rel[n][i] : i \in DOMAIN rel[n]})
    BY <1>2, <1>3, FiniteImage
  <1> QED
    BY <1>1, <1>4 DEF Tuples, ToSet

LEMMA LiteralHoldsSame ==
  ASSUME NEW lit, IsLiteral(lit), NEW d, NEW e, NEW M, \A v \in VarsOf(lit.args) : d[v] = e[v]
  PROVE  LiteralHolds(lit, d, M) <=> LiteralHolds(lit, e, M)
  <1>1. Ground(lit.args, d) = Ground(lit.args, e)
    BY GroundSame DEF IsLiteral
  <1> QED
    BY <1>1 DEF LiteralHolds

LEMMA NotJoins ==
  ASSUME RelationsOK, NEW lit, IsLiteral(lit), lit.kind = "not",
         NEW D, VarsOf(lit.args) \subseteq D, NEW E \in SUBSET [D -> Consts]
  PROVE  Join(E, lit) = {e \in E : LiteralHolds(lit, e, Atoms)}
  <1>1. IsTerms(lit.args) /\ lit.name \in Names
    BY DEF IsLiteral
  <1>2. ASSUME NEW e \in E
        PROVE  Holds(lit.name, lit.args, e) <=> <<lit.name, Ground(lit.args, e)>> \in Atoms
    <2>1. DOMAIN e = D
      OBVIOUS
    <2>2. \A t \in Tuples(lit.name) : t = Ground(lit.args, e) <=>
            Len(t) = Len(lit.args) /\ \A i \in 1..Len(lit.args) : Resolve(lit.args[i], e) = t[i]
      BY <1>1, <2>1, ResolvesTo, TuplesAreSequences
    <2> QED
      BY <1>1, <2>2, AtomsAreTuples DEF Holds
  <1> QED
    BY <1>2 DEF Join, LiteralHolds

LEMMA NeqJoins ==
  ASSUME NEW lit, IsLiteral(lit), lit.kind = "neq",
         NEW D, VarsOf(lit.args) \subseteq D, NEW E \in SUBSET [D -> Consts]
  PROVE  Join(E, lit) = {e \in E : LiteralHolds(lit, e, Atoms)}
  <1>1. IsTerms(lit.args) /\ Len(lit.args) = 2 /\ lit.args[1].var /\ lit.args[2].var
    BY DEF IsLiteral
  <1>2. lit.args[1].text \in D /\ lit.args[2].text \in D
    BY <1>1 DEF VarsOf
  <1>3. ASSUME NEW e \in E
        PROVE  Differ(lit.args, e) <=> Ground(lit.args, e)[1] # Ground(lit.args, e)[2]
    BY <1>1, <1>2 DEF Differ, Ground
  <1> QED
    BY <1>3 DEF Join, LiteralHolds

LEMMA ChosenPosition ==
  ASSUME NEW args, NEW v \in VarsOf(args)
  PROVE  LET k == CHOOSE i \in 1..Len(args) : args[i].var /\ args[i].text = v
         IN k \in 1..Len(args) /\ args[k].var /\ args[k].text = v
  <1>1. \E i \in 1..Len(args) : args[i].var /\ args[i].text = v
    BY DEF VarsOf
  <1> QED
    BY <1>1

\* Matching extends a binding by the values of the tuple.
LEMMA ExtendBinds ==
  ASSUME NEW args, NEW t \in Seq(Consts), Len(t) = Len(args), NEW D, NEW env \in [D -> Consts]
  PROVE  Extend(args, t, env) \in [D \cup VarsOf(args) -> Consts]
  <1> DEFINE PosOf(v) == CHOOSE i \in 1..Len(args) : args[i].var /\ args[i].text = v
  <1>1. Extend(args, t, env) = [v \in D \cup VarsOf(args) |-> IF v \in D THEN env[v] ELSE t[PosOf(v)]]
    BY DEF Extend
  <1>2. \A v \in VarsOf(args) : PosOf(v) \in 1..Len(args)
    BY ChosenPosition
  <1> HIDE DEF PosOf
  <1>3. \A v \in VarsOf(args) : t[PosOf(v)] \in Consts
    BY <1>2
  <1> QED
    BY <1>1, <1>3

LEMMA ExtendRestricts ==
  ASSUME NEW args, NEW t, NEW D, NEW env \in [D -> Consts]
  PROVE  Restrict(Extend(args, t, env), D) = env
  BY DEF Restrict, Extend

\* A binding of the arguments' variables is what matching their ground instance
\* makes of its restriction.
LEMMA ExtendGround ==
  ASSUME NEW args, NEW D, NEW e \in [D \cup VarsOf(args) -> Consts]
  PROVE  Extend(args, Ground(args, e), Restrict(e, D)) = e
  <1> DEFINE PosOf(v) == CHOOSE i \in 1..Len(args) : args[i].var /\ args[i].text = v
             g == Ground(args, e)
             r == Restrict(e, D)
  <1>1. r = [v \in D |-> e[v]]
    BY DEF Restrict
  <1>2. Extend(args, g, r) = [v \in D \cup VarsOf(args) |-> IF v \in D THEN r[v] ELSE g[PosOf(v)]]
    BY <1>1 DEF Extend
  <1>3. \A v \in VarsOf(args) : PosOf(v) \in 1..Len(args) /\ args[PosOf(v)].var /\ args[PosOf(v)].text = v
    BY ChosenPosition
  <1> HIDE DEF PosOf
  <1>4. \A i \in 1..Len(args) : args[i].var => g[i] = e[args[i].text]
    BY DEF Ground
  <1>5. \A v \in VarsOf(args) : g[PosOf(v)] = e[v]
    BY <1>3, <1>4
  <1> QED
    BY <1>1, <1>2, <1>5

\* Matching every tuple under every binding gives the bindings that extend one
\* of these and under which the arguments are one of the tuples.
LEMMA MatchesSolve ==
  ASSUME NEW args, IsTerms(args), NEW T, T \subseteq Seq(Consts),
         NEW D, NEW E \in SUBSET [D -> Consts], NEW e
  PROVE  (\E t \in T, env \in E : e \in Match(args, t, env)) <=>
           /\ e \in [D \cup VarsOf(args) -> Consts]
           /\ Restrict(e, D) \in E
           /\ Ground(args, e) \in T
  <1>1. ASSUME NEW t \in T, NEW env \in E, e \in Match(args, t, env)
        PROVE  /\ e \in [D \cup VarsOf(args) -> Consts]
               /\ Restrict(e, D) \in E
               /\ Ground(args, e) \in T
    <2>1. /\ e = Extend(args, t, env) /\ Len(t) = Len(args)
          /\ \A i \in 1..Len(args) : Resolve(args[i], e) = t[i]
      BY <1>1 DEF Match
    <2>2. t \in Seq(Consts) /\ env \in [D -> Consts] /\ Len(t) = Len(args)
      BY <2>1
    <2>3. /\ Extend(args, t, env) \in [D \cup VarsOf(args) -> Consts]
          /\ Restrict(Extend(args, t, env), D) = env
      <3>1. Extend(args, t, env) \in [D \cup VarsOf(args) -> Consts]
        BY <2>2, ExtendBinds
      <3>2. Restrict(Extend(args, t, env), D) = env
        BY <2>2, ExtendRestricts
      <3> QED
        BY <3>1, <3>2
    <2>4. VarsOf(args) \subseteq DOMAIN e
      BY <2>1, <2>3
    <2>5. t = Ground(args, e)
      BY <2>1, <2>2, <2>4, ResolvesTo
    <2> QED
      BY <2>1, <2>3, <2>5
  <1>2. ASSUME e \in [D \cup VarsOf(args) -> Consts], Restrict(e, D) \in E, Ground(args, e) \in T
        PROVE  \E t \in T, env \in E : e \in Match(args, t, env)
    <2>1. VarsOf(args) \subseteq DOMAIN e
      BY <1>2
    <2>2. Len(Ground(args, e)) = Len(args)
      BY <1>2, GroundIsTuple
    <2>3. \A i \in 1..Len(args) : Resolve(args[i], e) = Ground(args, e)[i]
      BY <2>1, ResolveIsGround
    <2>4. Extend(args, Ground(args, e), Restrict(e, D)) = e
      BY <1>2, ExtendGround
    <2>5. e \in Match(args, Ground(args, e), Restrict(e, D))
      BY <2>2, <2>3, <2>4 DEF Match
    <2> QED
      BY <1>2, <2>5
  <1> QED
    BY <1>1, <1>2

LEMMA PosJoins ==
  ASSUME RelationsOK, NEW lit, IsLiteral(lit), lit.kind = "pos",
         NEW D, NEW E \in SUBSET [D -> Consts], NEW e
  PROVE  e \in Join(E, lit) <=> /\ e \in [D \cup VarsOf(lit.args) -> Consts]
                                /\ Restrict(e, D) \in E
                                /\ LiteralHolds(lit, e, Atoms)
  <1>1. IsTerms(lit.args) /\ lit.name \in Names
    BY DEF IsLiteral
  <1>2. e \in Join(E, lit) <=> \E t \in Tuples(lit.name), env \in E : e \in Match(lit.args, t, env)
    BY DEF Join
  <1>3. LiteralHolds(lit, e, Atoms) <=> Ground(lit.args, e) \in Tuples(lit.name)
    BY <1>1, AtomsAreTuples DEF LiteralHolds
  <1>4. Tuples(lit.name) \subseteq Seq(Consts)
    BY <1>1, TuplesAreSequences
  <1> QED
    BY <1>1, <1>2, <1>3, <1>4, MatchesSolve, ZenonT(60)

LEMMA JoinSolves ==
  ASSUME RelationsOK, NEW rule, Safe(rule), NEW n \in 0..(Len(rule.body) - 1)
  PROVE  Join(Solutions(rule.body, n, Atoms), rule.body[n + 1]) = Solutions(rule.body, n + 1, Atoms)
  <1> DEFINE body == rule.body
             lit == rule.body[n + 1]
             D == BoundBy(rule.body, n)
             S == Solutions(rule.body, n, Atoms)
  <1>1. /\ Len(body) \in Nat /\ n \in Nat /\ n + 1 \in 1..Len(body)
        /\ \A i \in 1..Len(body) : IsLiteral(body[i])
        /\ IsLiteral(lit) /\ (lit.kind # "pos" => VarsOf(lit.args) \subseteq D)
    BY DEF Safe
  <1>2. lit.kind \in {"pos", "not", "neq"}
    BY <1>1 DEF IsLiteral
  <1>3. S \in SUBSET [D -> Consts]
    BY DEF Solutions
  <1>4. \A e : (\A i \in 1..(n + 1) : LiteralHolds(body[i], e, Atoms))
                 <=> (\A i \in 1..n : LiteralHolds(body[i], e, Atoms)) /\ LiteralHolds(lit, e, Atoms)
    BY <1>1
  <1>5. ASSUME lit.kind # "pos"
        PROVE  Join(S, lit) = Solutions(body, n + 1, Atoms)
    <2>1. BoundBy(body, n + 1) = D
      BY <1>1, <1>5, BoundByNext
    <2>2. Join(S, lit) = {e \in S : LiteralHolds(lit, e, Atoms)}
      BY <1>1, <1>2, <1>3, <1>5, NotJoins, NeqJoins
    <2> QED
      BY <1>4, <2>1, <2>2 DEF Solutions
  <1>6. ASSUME lit.kind = "pos"
        PROVE  Join(S, lit) = Solutions(body, n + 1, Atoms)
    <2>1. BoundBy(body, n + 1) = D \cup VarsOf(lit.args)
      BY <1>1, <1>6, BoundByNext
    <2>2. ASSUME NEW e
          PROVE  e \in Join(S, lit) <=> /\ e \in [D \cup VarsOf(lit.args) -> Consts]
                                        /\ Restrict(e, D) \in S
                                        /\ LiteralHolds(lit, e, Atoms)
      <3> HIDE DEF lit, D, S
      <3> QED
        BY <1>1, <1>3, <1>6, PosJoins, Zenon
    <2>3. ASSUME NEW e \in [D \cup VarsOf(lit.args) -> Consts]
          PROVE  Restrict(e, D) \in S <=> \A i \in 1..n : LiteralHolds(body[i], e, Atoms)
      <3>1. Restrict(e, D) \in [D -> Consts] /\ \A v \in D : Restrict(e, D)[v] = e[v]
        BY DEF Restrict
      <3>2. ASSUME NEW i \in 1..n
            PROVE  VarsOf(body[i].args) \subseteq D
        <4>1. CASE body[i].kind = "pos"
          BY <4>1 DEF BoundBy
        <4>2. CASE body[i].kind # "pos"
          <5>1. VarsOf(body[i].args) \subseteq BoundBy(body, i - 1)
            BY <1>1, <4>2 DEF Safe
          <5> QED
            BY <5>1 DEF BoundBy
        <4> QED
          BY <4>1, <4>2
      <3>3. ASSUME NEW i \in 1..n
            PROVE  LiteralHolds(body[i], Restrict(e, D), Atoms) <=> LiteralHolds(body[i], e, Atoms)
        <4>1. IsLiteral(body[i])
          BY <1>1
        <4>2. \A v \in VarsOf(body[i].args) : Restrict(e, D)[v] = e[v]
          BY <3>1, <3>2
        <4> QED
          BY <4>1, <4>2, LiteralHoldsSame
      <3> QED
        BY <3>1, <3>3 DEF Solutions
    <2>4. ASSUME NEW e
          PROVE  e \in Join(S, lit) <=> e \in Solutions(body, n + 1, Atoms)
      BY <1>4, <2>1, <2>2, <2>3 DEF Solutions
    <2> QED
      BY <2>4
  <1> QED
    BY <1>5, <1>6

\* Joining keeps a finite set of bindings finite.
LEMMA JoinFinite ==
  ASSUME RelationsOK, NEW lit, IsLiteral(lit), NEW E, IsFiniteSet(E)
  PROVE  IsFiniteSet(Join(E, lit))
  <1>1. CASE lit.kind # "pos"
    <2>1. Join(E, lit) \in SUBSET E
      BY <1>1 DEF Join, IsLiteral
    <2> QED
      BY <2>1, FS_Subset
  <1>2. CASE lit.kind = "pos"
    <2> DEFINE T == Tuples(lit.name)
               f == [p \in T \X E |-> Extend(lit.args, p[1], p[2])]
    <2>1. IsFiniteSet(T)
      BY <1>2, TuplesAreSequences DEF IsLiteral
    <2>2. IsFiniteSet(T \X E)
      BY <2>1, FS_Product
    <2>3. DOMAIN f = T \X E /\ f = [p \in DOMAIN f |-> f[p]]
      OBVIOUS
    <2>4. IsFiniteSet({f[p] : p \in DOMAIN f})
      <3> HIDE DEF f
      <3> QED
        BY <2>2, <2>3, FiniteImage
    <2>5. Join(E, lit) \in SUBSET {f[p] : p \in DOMAIN f}
      <3>1. ASSUME NEW t \in T, NEW env \in E, NEW e \in Match(lit.args, t, env)
            PROVE  e \in {f[p] : p \in DOMAIN f}
        <4>1. e = Extend(lit.args, t, env) /\ <<t, env>> \in T \X E
          BY <3>1 DEF Match
        <4> QED
          BY <4>1
      <3>2. Join(E, lit) = UNION {Match(lit.args, t, env) : t \in T, env \in E}
        BY <1>2 DEF Join
      <3> HIDE DEF f, T
      <3> QED
        BY <3>1, <3>2
    <2> QED
      BY <2>4, <2>5, FS_Subset
  <1> QED
    BY <1>1, <1>2

\* deriveRule's loop over a body: what is left are the bindings that satisfy it.
LEMMA EnvironmentsSolve ==
  ASSUME RelationsOK, NEW rule, Safe(rule)
  PROVE  /\ Environments(rule.body) = Solutions(rule.body, Len(rule.body), Atoms)
         /\ IsFiniteSet(Environments(rule.body))
  <1> DEFINE body == rule.body
             m == Len(rule.body)
  <1>1. m \in Nat /\ \A i \in 1..m : IsLiteral(body[i])
    BY DEF Safe
  <1>2. PICK envs :
          /\ envs = [i \in 0..m |-> IF i = 0 THEN {Unbound} ELSE Join(envs[i - 1], body[i])]
          /\ Environments(body) = envs[m]
    BY <1>1, EnvironmentsUnfold
  <1> HIDE DEF m
  <1> DEFINE T == {i \in 0..m : envs[i] = Solutions(body, i, Atoms) /\ IsFiniteSet(envs[i])}
  <1>3. 0 \in T
    <2>1. envs[0] = {Unbound}
      BY <1>1, <1>2
    <2>2. BoundBy(body, 0) = {}
      BY DEF BoundBy
    <2>3. Solutions(body, 0, Atoms) = {Unbound}
      <3>1. [{} -> Consts] = {Unbound}
        BY DEF Unbound
      <3> QED
        BY <2>2, <3>1 DEF Solutions
    <2>4. IsFiniteSet({Unbound})
      BY FS_Singleton
    <2> QED
      BY <1>1, <2>1, <2>3, <2>4
  <1>4. ASSUME NEW i \in 0..(m - 1), i \in T
        PROVE  i + 1 \in T
    <2>1. envs[i + 1] = Join(envs[i], body[i + 1])
      <3>1. i + 1 \in 0..m /\ i + 1 # 0 /\ (i + 1) - 1 = i
        BY <1>1
      <3>2. envs[i + 1] = IF i + 1 = 0 THEN {Unbound} ELSE Join(envs[(i + 1) - 1], body[i + 1])
        BY <1>2, <3>1, Zenon
      <3> QED
        BY <3>1, <3>2
    <2>2. envs[i + 1] = Solutions(body, i + 1, Atoms)
      BY <1>1, <1>4, <2>1, JoinSolves DEF m
    <2>3. IsFiniteSet(envs[i + 1])
      BY <1>1, <1>4, <2>1, JoinFinite
    <2> QED
      BY <1>1, <2>2, <2>3
  <1>5. 0..m \subseteq T
    <2> HIDE DEF T
    <2> QED
      BY <1>1, <1>3, <1>4, ClimbTo
  <1>6. m \in T
    BY <1>1, <1>5
  <1> QED
    BY <1>2, <1>6 DEF m

\* deriveRule computes the heads of the rule's true ground instances.
LEMMA DerivesHeads ==
  ASSUME RelationsOK, NEW rule, Safe(rule)
  PROVE  /\ \A t : t \in DeriveRule(rule) <=> <<rule.head, t>> \in Heads(rule, Atoms)
         /\ DeriveRule(rule) \subseteq Seq(Consts) /\ IsFiniteSet(DeriveRule(rule))
  <1> DEFINE D == BoundBy(rule.body, Len(rule.body))
             E == Environments(rule.body)
  <1>1. E = Solutions(rule.body, Len(rule.body), Atoms) /\ IsFiniteSet(E)
    BY EnvironmentsSolve
  <1>2. Len(rule.body) \in Nat /\ IsTerms(rule.args) /\ VarsOf(rule.args) \subseteq D
    BY DEF Safe
  <1>3. RuleVars(rule) = D
    <2>1. ASSUME NEW i \in 1..Len(rule.body)
          PROVE  VarsOf(rule.body[i].args) \subseteq D
      <3>1. CASE rule.body[i].kind = "pos"
        BY <3>1 DEF BoundBy
      <3>2. CASE rule.body[i].kind # "pos"
        <4>1. VarsOf(rule.body[i].args) \subseteq BoundBy(rule.body, i - 1)
          BY <3>2 DEF Safe
        <4> QED
          BY <1>2, <4>1 DEF BoundBy
      <3> QED
        BY <3>1, <3>2
    <2>2. D \subseteq UNION {VarsOf(rule.body[i].args) : i \in 1..Len(rule.body)}
      BY DEF BoundBy
    <2> QED
      BY <1>2, <2>1, <2>2 DEF RuleVars
  <1>4. E = {a \in [RuleVars(rule) -> Consts] : BodyHolds(rule, a, Atoms)}
    BY <1>1, <1>3 DEF Solutions, BodyHolds
  <1>5. ASSUME NEW e \in E
        PROVE  /\ VarsOf(rule.args) \subseteq DOMAIN e
               /\ [i \in 1..Len(rule.args) |-> Resolve(rule.args[i], e)] = Ground(rule.args, e)
               /\ Ground(rule.args, e) \in Seq(Consts)
    <2>1. e \in [D -> Consts]
      BY <1>3, <1>4
    <2>2. VarsOf(rule.args) \subseteq DOMAIN e
      BY <1>2, <2>1
    <2>3. \A i \in 1..Len(rule.args) : Resolve(rule.args[i], e) = Ground(rule.args, e)[i]
      BY <1>2, <2>2, ResolveIsGround
    <2>4. Ground(rule.args, e) = [i \in 1..Len(rule.args) |-> Ground(rule.args, e)[i]]
      BY DEF Ground
    <2>5. Ground(rule.args, e) \in Seq(Consts)
      BY <1>2, <2>1, GroundIsTuple
    <2> QED
      BY <2>2, <2>3, <2>4, <2>5
  <1>6. DeriveRule(rule) = {Ground(rule.args, e) : e \in E}
    BY <1>5 DEF DeriveRule
  <1>7. IsFiniteSet({Ground(rule.args, e) : e \in E})
    <2> DEFINE f == [e \in E |-> Ground(rule.args, e)]
    <2>1. DOMAIN f = E /\ f = [e \in DOMAIN f |-> f[e]]
      OBVIOUS
    <2>2. IsFiniteSet({f[e] : e \in DOMAIN f})
      <3> HIDE DEF f
      <3> QED
        BY <1>1, <2>1, FiniteImage
    <2> QED
      BY <2>2
  <1>8. Heads(rule, Atoms) = {<<rule.head, Ground(rule.args, e)>> : e \in E}
    BY <1>4 DEF Heads
  <1> QED
    BY <1>5, <1>6, <1>7, <1>8

(***************************************************************************)
(* The relations as lists without repetitions.                              *)
(***************************************************************************)
LEMMA SetToSeqLists ==
  ASSUME NEW S, IsFiniteSet(S)
  PROVE  SetToSeq(S) \in Seq(S) /\ ToSet(SetToSeq(S)) = S /\ IsInjective(SetToSeq(S))
  <1> DEFINE n == Cardinality(S)
             q == SetToSeq(S)
  <1>1. n \in Nat /\ ExistsBijection(1..n, S)
    BY FS_CardinalityType
  <1>2. PICK f : f \in Bijection(1..n, S)
    BY <1>1 DEF ExistsBijection
  <1>3. f \in [1..n -> S] /\ IsInjective(f)
    BY <1>2 DEF Bijection, Injection, IsInjective
  <1>4. q \in [1..n -> S] /\ IsInjective(q)
    BY <1>3 DEF SetToSeq
  <1> HIDE DEF n, q
  <1>5. q \in Injection(1..n, S)
    BY <1>4 DEF Injection
  <1>6. q \in Surjection(1..n, S)
    <2>1. IsFiniteSet(1..n) /\ Cardinality(1..n) = n
      BY <1>1, FS_Interval
    <2> QED
      BY <1>5, <2>1, FS_Injection DEF n
  <1>7. DOMAIN q = 1..n /\ \A x \in S : \E i \in 1..n : q[i] = x
    BY <1>4, <1>6 DEF Surjection
  <1>8. ToSet(q) = S
    BY <1>4, <1>7 DEF ToSet
  <1>9. q \in Seq(S)
    BY <1>1, <1>4
  <1> QED
    BY <1>4, <1>8, <1>9 DEF q

LEMMA ConcatDistinct ==
  ASSUME NEW S, NEW s \in Seq(S), NEW t \in Seq(S)
  PROVE  /\ s \o t \in Seq(S) /\ ToSet(s \o t) = ToSet(s) \cup ToSet(t)
         /\ IsInjective(s) /\ IsInjective(t) /\ ToSet(s) \cap ToSet(t) = {} => IsInjective(s \o t)
  <1> DEFINE m == Len(s)
             n == Len(t)
             u == s \o t
  <1>1. /\ m \in Nat /\ n \in Nat /\ DOMAIN s = 1..m /\ DOMAIN t = 1..n
        /\ u \in Seq(S) /\ DOMAIN u = 1..(m + n)
        /\ \A i \in 1..(m + n) : u[i] = IF i <= m THEN s[i] ELSE t[i - m]
    BY LenProperties, ConcatProperties
  <1> HIDE DEF m, n, u
  <1>2. ASSUME NEW i \in 1..n
        PROVE  i + m \in 1..(m + n) /\ u[i + m] = t[i]
    <2>1. i + m \in 1..(m + n) /\ ~(i + m <= m) /\ (i + m) - m = i
      BY <1>1
    <2> QED
      BY <1>1, <2>1
  <1>3. \A i \in 1..m : i \in 1..(m + n) /\ u[i] = s[i]
    BY <1>1
  <1>4. \A i \in 1..(m + n) : i \in 1..m \/ (i - m \in 1..n /\ u[i] = t[i - m])
    BY <1>1
  <1>5. ToSet(u) = ToSet(s) \cup ToSet(t)
    <2>1. ToSet(u) \subseteq ToSet(s) \cup ToSet(t)
      BY <1>1, <1>3, <1>4 DEF ToSet
    <2>2. ToSet(s) \subseteq ToSet(u)
      BY <1>1, <1>3 DEF ToSet
    <2>3. ToSet(t) \subseteq ToSet(u)
      BY <1>1, <1>2 DEF ToSet
    <2> QED
      BY <2>1, <2>2, <2>3
  <1>6. ASSUME IsInjective(s), IsInjective(t), ToSet(s) \cap ToSet(t) = {},
               NEW i \in 1..(m + n), NEW j \in 1..(m + n), u[i] = u[j]
        PROVE  i = j
    <2>1. \A k \in 1..m : s[k] \in ToSet(s)
      BY <1>1 DEF ToSet
    <2>2. \A k \in 1..n : t[k] \in ToSet(t)
      BY <1>1 DEF ToSet
    <2>3. CASE i \in 1..m /\ j \in 1..m
      BY <1>1, <1>3, <1>6, <2>3 DEF IsInjective
    <2>4. CASE i \in 1..m /\ j \notin 1..m
      BY <1>3, <1>4, <1>6, <2>1, <2>2, <2>4
    <2>5. CASE i \notin 1..m /\ j \in 1..m
      BY <1>3, <1>4, <1>6, <2>1, <2>2, <2>5
    <2>6. CASE i \notin 1..m /\ j \notin 1..m
      <3>1. i - m \in 1..n /\ j - m \in 1..n /\ t[i - m] = t[j - m]
        BY <1>4, <1>6, <2>6
      <3>2. i - m = j - m
        BY <1>1, <1>6, <3>1 DEF IsInjective
      <3> QED
        BY <1>1, <3>2
    <2> QED
      BY <2>3, <2>4, <2>5, <2>6
  <1>7. IsInjective(s) /\ IsInjective(t) /\ ToSet(s) \cap ToSet(t) = {} => IsInjective(u)
    BY <1>1, <1>6 DEF IsInjective
  <1> QED
    BY <1>1, <1>5, <1>7 DEF u

LEMMA AppendDistinct ==
  ASSUME NEW S, NEW s \in Seq(S), NEW x \in S
  PROVE  /\ Append(s, x) \in Seq(S) /\ ToSet(Append(s, x)) = ToSet(s) \cup {x}
         /\ IsInjective(s) /\ x \notin ToSet(s) => IsInjective(Append(s, x))
  <1>1. <<x>> \in Seq(S) /\ ToSet(<<x>>) = {x} /\ IsInjective(<<x>>)
    BY DEF ToSet, IsInjective
  <1>2. Append(s, x) = s \o <<x>>
    OBVIOUS
  <1>3. s \o <<x>> \in Seq(S) /\ ToSet(s \o <<x>>) = ToSet(s) \cup ToSet(<<x>>)
    BY <1>1, ConcatDistinct, ZenonT(60)
  <1>4. ASSUME IsInjective(s), x \notin ToSet(s)
        PROVE  IsInjective(s \o <<x>>)
    <2>1. ToSet(s) \cap ToSet(<<x>>) = {}
      BY <1>1, <1>4
    <2> QED
      BY <1>1, <1>4, <2>1, ConcatDistinct, Zenon
  <1> QED
    BY <1>1, <1>2, <1>3, <1>4

\* datalogEval's seed: every fact is in its relation, once, and nothing else is.
LEMMA SeedHoldsFacts ==
  ASSUME NEW p, IsProgram(p)
  PROVE  /\ Seed(p) \in [Names -> Seq(Seq(Consts))]
         /\ \A n \in Names : IsInjective(Seed(p)[n])
         /\ \A n \in Names : \A t : t \in ToSet(Seed(p)[n]) <=> <<n, t>> \in Base(p)
  <1> DEFINE F == p.facts
             m == Len(p.facts)
  <1>1. /\ m \in Nat /\ F \in Seq(Names \X Seq(Consts)) /\ IsInjective(F) /\ DOMAIN F = 1..m
        /\ \A i \in 1..m : F[i] \in Names \X Seq(Consts)
    BY LenProperties DEF IsProgram
  <1>2. PICK state :
          /\ state = [i \in 0..m |-> IF i = 0 THEN [n \in Names |-> <<>>]
                                     ELSE AddFact(F, state[i - 1], i)]
          /\ Seed(p) = state[m]
    BY <1>1, SeedUnfold
  <1> HIDE DEF m, F
  <1> DEFINE Good(i) ==
               /\ state[i] \in [Names -> Seq(Seq(Consts))]
               /\ \A n \in Names : IsInjective(state[i][n])
               /\ \A n \in Names : \A t :
                    t \in ToSet(state[i][n]) <=> \E j \in 1..i : F[j] = <<n, t>>
  <1>3. Good(0)
    <2>1. state[0] = [n \in Names |-> <<>>]
      BY <1>1, <1>2
    <2>2. <<>> \in Seq(Seq(Consts)) /\ ToSet(<<>>) = {} /\ IsInjective(<<>>)
      BY DEF ToSet, IsInjective
    <2> QED
      BY <2>1, <2>2
  <1>4. ASSUME NEW i \in 0..(m - 1), Good(i)
        PROVE  Good(i + 1)
    <2>1. i + 1 \in 0..m /\ i + 1 \in 1..m /\ i + 1 # 0 /\ (i + 1) - 1 = i
      BY <1>1
    <2>2. state[i + 1] = IF i + 1 = 0 THEN [n \in Names |-> <<>>]
                         ELSE AddFact(F, state[(i + 1) - 1], i + 1)
      BY <1>2, <2>1, Zenon
    <2> DEFINE n0 == F[i + 1][1]
               t0 == F[i + 1][2]
               old == state[i]
    <2>3. n0 \in Names /\ t0 \in Seq(Consts) /\ F[i + 1] = <<n0, t0>>
      BY <1>1, <2>1
    <2>4. state[i + 1] = [old EXCEPT ![n0] = Append(old[n0], t0)]
      BY <2>1, <2>2 DEF AddFact
    <2>5. /\ old \in [Names -> Seq(Seq(Consts))]
          /\ \A n \in Names : IsInjective(old[n])
          /\ \A n \in Names : \A t : t \in ToSet(old[n]) <=> \E j \in 1..i : F[j] = <<n, t>>
      BY <1>4
    <2> HIDE DEF n0, t0, old, Good
    <2>6. \A j \in 1..i : F[j] # F[i + 1]
      <3>1. \A j \in 1..i : j \in 1..m /\ j # i + 1
        BY <1>1
      <3> QED
        BY <1>1, <2>1, <3>1 DEF IsInjective
    <2>7. t0 \notin ToSet(old[n0])
      BY <2>3, <2>5, <2>6
    <2>8. old[n0] \in Seq(Seq(Consts))
      BY <2>3, <2>5
    <2>9. /\ Append(old[n0], t0) \in Seq(Seq(Consts)) /\ IsInjective(Append(old[n0], t0))
          /\ ToSet(Append(old[n0], t0)) = ToSet(old[n0]) \cup {t0}
      BY <2>3, <2>5, <2>7, <2>8, AppendDistinct
    <2>10. \A n \in Names : state[i + 1][n] = IF n = n0 THEN Append(old[n0], t0) ELSE old[n]
      BY <2>4, <2>5
    <2>11. state[i + 1] \in [Names -> Seq(Seq(Consts))]
      BY <2>4, <2>5, <2>9
    <2>12. \A n \in Names : IsInjective(state[i + 1][n])
      BY <2>5, <2>9, <2>10
    <2>13. ASSUME NEW n \in Names, NEW t
           PROVE  t \in ToSet(state[i + 1][n]) <=> \E j \in 1..(i + 1) : F[j] = <<n, t>>
      <3>1. t \in ToSet(state[i + 1][n]) <=> t \in ToSet(old[n]) \/ (n = n0 /\ t = t0)
        BY <2>9, <2>10
      <3>2. <<n, t>> = F[i + 1] <=> n = n0 /\ t = t0
        BY <2>3
      <3>3. (\E j \in 1..(i + 1) : F[j] = <<n, t>>) <=>
              (\E j \in 1..i : F[j] = <<n, t>>) \/ F[i + 1] = <<n, t>>
        <4>1. 1..(i + 1) = 1..i \cup {i + 1}
          BY <1>1
        <4> QED
          BY <4>1
      <3> QED
        BY <2>5, <3>1, <3>2, <3>3
    <2> QED
      BY <2>11, <2>12, <2>13 DEF Good
  <1>5. Good(m)
    <2> DEFINE T == {i \in 0..m : Good(i)}
    <2> HIDE DEF Good
    <2>1. 0 \in T /\ \A i \in 0..(m - 1) : i \in T => i + 1 \in T
      BY <1>1, <1>3, <1>4
    <2> HIDE DEF T
    <2>2. 0..m \subseteq T
      BY <1>1, <2>1, ClimbTo
    <2> QED
      BY <1>1, <2>2 DEF T
  <1>6. \A n, t : <<n, t>> \in Base(p) <=> \E j \in 1..m : F[j] = <<n, t>>
    BY <1>1 DEF Base, ToSet, F
  <1> QED
    BY <1>2, <1>5, <1>6

(***************************************************************************)
(* The answer lists the free columns of each match.                         *)
(***************************************************************************)
LEMMA FreeCounts ==
  ASSUME NEW args \in Seq(Consts \cup {FreeArg}), NEW t \in Seq(Consts), Len(t) = Len(args)
  PROVE  LET free == {i \in 1..Len(args) : args[i] = FreeArg}
         IN /\ Free(t, args) \in Seq(Consts) /\ Len(Free(t, args)) = Cardinality(free)
            /\ IsFiniteSet(free)
  <1> DEFINE m == Len(args)
             F(n) == {i \in 1..n : args[i] = FreeArg}
  <1>1. m \in Nat /\ \A i \in 1..m : t[i] \in Consts
    OBVIOUS
  <1>2. PICK vals : /\ vals = [i \in 0..m |-> IF i = 0 THEN <<>>
                                              ELSE AddFree(args, t, vals[i - 1], i)]
                    /\ Free(t, args) = vals[m]
    BY <1>1, FreeUnfold
  <1> HIDE DEF m
  <1> DEFINE Good(n) == /\ vals[n] \in Seq(Consts) /\ Len(vals[n]) = Cardinality(F(n))
                        /\ IsFiniteSet(F(n))
  <1>3. Good(0)
    <2>1. vals[0] = <<>> /\ F(0) = {}
      BY <1>1, <1>2
    <2> QED
      BY <2>1, FS_EmptySet
  <1>4. ASSUME NEW n \in 0..(m - 1), Good(n)
        PROVE  Good(n + 1)
    <2>1. n + 1 \in 0..m /\ n + 1 \in 1..m /\ n + 1 # 0 /\ (n + 1) - 1 = n
      BY <1>1
    <2>2. vals[n + 1] = IF n + 1 = 0 THEN <<>> ELSE AddFree(args, t, vals[(n + 1) - 1], n + 1)
      BY <1>2, <2>1, Zenon
    <2>3. 1..(n + 1) = 1..n \cup {n + 1} /\ n + 1 \notin 1..n
      BY <1>1
    <2>4. CASE args[n + 1] = FreeArg
      <3>1. vals[n + 1] = Append(vals[n], t[n + 1])
        BY <2>1, <2>2, <2>4 DEF AddFree
      <3>2. F(n + 1) = F(n) \cup {n + 1} /\ n + 1 \notin F(n)
        BY <2>3, <2>4
      <3>3. IsFiniteSet(F(n))
        BY <1>4
      <3> HIDE DEF F, Good
      <3>4. IsFiniteSet(F(n + 1)) /\ Cardinality(F(n + 1)) = Cardinality(F(n)) + 1
        BY <3>2, <3>3, FS_AddElement
      <3> USE DEF Good
      <3> QED
        BY <1>1, <1>4, <2>1, <3>1, <3>4
    <2>5. CASE args[n + 1] # FreeArg
      <3>1. vals[n + 1] = vals[n]
        BY <2>1, <2>2, <2>5 DEF AddFree
      <3>2. F(n + 1) = F(n)
        BY <2>3, <2>5
      <3> HIDE DEF F
      <3> QED
        BY <1>4, <3>1, <3>2
    <2> QED
      BY <2>4, <2>5
  <1>5. Good(m)
    <2> DEFINE T == {n \in 0..m : Good(n)}
    <2> HIDE DEF Good
    <2>1. 0 \in T /\ \A n \in 0..(m - 1) : n \in T => n + 1 \in T
      BY <1>1, <1>3, <1>4
    <2> HIDE DEF T
    <2>2. 0..m \subseteq T
      BY <1>1, <2>1, ClimbTo
    <2> QED
      BY <1>1, <2>2 DEF T
  <1> QED
    BY <1>2, <1>5 DEF m

LEMMA CollectCounts ==
  ASSUME RelationsOK, IsProgram(prog), IsInjective(rel[prog.query.name])
  PROVE  LET hits == {t \in Tuples(prog.query.name) : Matches(t, prog.query.args)}
             free == {i \in 1..Len(prog.query.args) : prog.query.args[i] = FreeArg}
         IN Len(Collect) = Cardinality(hits) * Cardinality(free)
  <1> DEFINE args == prog.query.args
             tuples == rel[prog.query.name]
             m == Len(rel[prog.query.name])
             c == Cardinality({i \in 1..Len(args) : args[i] = FreeArg})
             H(n) == {t \in {tuples[j] : j \in 1..n} : Matches(t, args)}
  <1>1. args \in Seq(Consts \cup {FreeArg}) /\ tuples \in Seq(Seq(Consts))
    BY DEF IsProgram, RelationsOK
  <1>2. /\ m \in Nat /\ DOMAIN tuples = 1..m /\ \A i \in 1..m : tuples[i] \in Seq(Consts)
        /\ \A i, j \in 1..m : tuples[i] = tuples[j] => i = j
    BY <1>1 DEF IsInjective
  <1>3. c \in Nat
    <2>1. IsFiniteSet(1..Len(args))
      BY <1>1, FS_Interval
    <2>2. IsFiniteSet({i \in 1..Len(args) : args[i] = FreeArg})
      BY <2>1, FS_Subset
    <2> QED
      BY <2>2, FS_CardinalityType
  <1>4. ASSUME NEW t \in Seq(Consts), Matches(t, args)
        PROVE  Free(t, args) \in Seq(Consts) /\ Len(Free(t, args)) = c
    <2>1. Len(t) = Len(args)
      BY <1>4 DEF Matches
    <2> QED
      BY <1>1, <2>1, FreeCounts
  <1>5. PICK got : /\ got = [i \in 0..m |-> IF i = 0 THEN <<>>
                                            ELSE AddMatch(tuples, args, got[i - 1], i)]
                   /\ Collect = got[m]
    BY <1>2, CollectUnfold
  <1>6. Tuples(prog.query.name) = {tuples[j] : j \in 1..m}
    BY <1>2 DEF Tuples, ToSet
  <1> HIDE DEF args, tuples, m, c
  <1> DEFINE Good(n) == /\ got[n] \in Seq(Consts) /\ Len(got[n]) = Cardinality(H(n)) * c
                        /\ IsFiniteSet(H(n))
  <1>7. Good(0)
    <2>1. got[0] = <<>> /\ H(0) = {}
      BY <1>2, <1>5
    <2> HIDE DEF H
    <2>2. IsFiniteSet(H(0)) /\ Cardinality(H(0)) = 0
      BY <2>1, FS_EmptySet
    <2>3. 0 * c = 0 /\ got[0] \in Seq(Consts) /\ Len(got[0]) = 0
      BY <1>3, <2>1
    <2> QED
      BY <2>2, <2>3
  <1>8. ASSUME NEW n \in 0..(m - 1), Good(n)
        PROVE  Good(n + 1)
    <2>1. n + 1 \in 0..m /\ n + 1 \in 1..m /\ n + 1 # 0 /\ (n + 1) - 1 = n
      BY <1>2
    <2>2. got[n + 1] = IF n + 1 = 0 THEN <<>> ELSE AddMatch(tuples, args, got[(n + 1) - 1], n + 1)
      BY <1>5, <2>1, Zenon
    <2>3. 1..(n + 1) = 1..n \cup {n + 1} /\ \A j \in 1..n : j \in 1..m /\ j # n + 1
      BY <1>2
    <2>4. {tuples[j] : j \in 1..(n + 1)} = {tuples[j] : j \in 1..n} \cup {tuples[n + 1]}
      BY <2>3
    <2>5. Cardinality(H(n)) \in Nat
      BY <1>8, FS_CardinalityType
    <2>6. CASE Matches(tuples[n + 1], args)
      <3>1. got[n + 1] = got[n] \o Free(tuples[n + 1], args)
        BY <2>1, <2>2, <2>6 DEF AddMatch
      <3>2. tuples[n + 1] \notin {tuples[j] : j \in 1..n}
        BY <1>2, <2>1, <2>3
      <3>3. H(n + 1) = H(n) \cup {tuples[n + 1]} /\ tuples[n + 1] \notin H(n)
        BY <2>4, <2>6, <3>2
      <3>4. IsFiniteSet(H(n + 1)) /\ Cardinality(H(n + 1)) = Cardinality(H(n)) + 1
        <4>1. IsFiniteSet(H(n))
          BY <1>8
        <4> HIDE DEF H, Good
        <4> QED
          BY <3>3, <4>1, FS_AddElement
      <3>5. /\ Free(tuples[n + 1], args) \in Seq(Consts)
            /\ Len(Free(tuples[n + 1], args)) = c
        BY <1>2, <1>4, <2>1, <2>6
      <3> HIDE DEF H
      <3>6. got[n + 1] \in Seq(Consts) /\ Len(got[n + 1]) = Len(got[n]) + c
        BY <1>8, <3>1, <3>5, ConcatProperties
      <3>7. (Cardinality(H(n)) + 1) * c = Cardinality(H(n)) * c + c
        BY <1>3, <2>5
      <3> QED
        BY <1>8, <3>4, <3>6, <3>7
    <2>7. CASE ~Matches(tuples[n + 1], args)
      <3>1. got[n + 1] = got[n]
        BY <2>1, <2>2, <2>7 DEF AddMatch
      <3>2. H(n + 1) = H(n)
        BY <2>4, <2>7
      <3> HIDE DEF H
      <3> QED
        BY <1>8, <3>1, <3>2
    <2> QED
      BY <2>6, <2>7
  <1>9. Good(m)
    <2> DEFINE T == {n \in 0..m : Good(n)}
    <2> HIDE DEF Good
    <2>1. 0 \in T /\ \A n \in 0..(m - 1) : n \in T => n + 1 \in T
      BY <1>2, <1>7, <1>8
    <2> HIDE DEF T
    <2>2. 0..m \subseteq T
      BY <1>2, <2>1, ClimbTo
    <2> QED
      BY <1>2, <2>2 DEF T
  <1> QED
    BY <1>5, <1>6, <1>9 DEF args, c

(***************************************************************************)
(* Applying a rule adds its heads, and nothing twice.                       *)
(***************************************************************************)
LEMMA HeadsAreHeadAtoms ==
  ASSUME NEW rule, Safe(rule), NEW M
  PROVE  Heads(rule, M) \subseteq HeadAtoms(rule)
  <1> DEFINE V == VarsOf(rule.args)
             R == RuleVars(rule)
  <1>1. V \subseteq R /\ IsTerms(rule.args)
    BY DEF RuleVars, Safe
  <1>2. ASSUME NEW s \in [R -> Consts]
        PROVE  <<rule.head, Ground(rule.args, s)>> \in HeadAtoms(rule)
    <2>1. Restrict(s, V) \in [V -> Consts] /\ \A v \in V : Restrict(s, V)[v] = s[v]
      BY <1>1 DEF Restrict
    <2>2. Ground(rule.args, Restrict(s, V)) = Ground(rule.args, s)
      BY <1>1, <2>1, GroundSame
    <2> QED
      BY <2>1, <2>2 DEF HeadAtoms
  <1> QED
    BY <1>2 DEF Heads

LEMMA RuleApplied ==
  ASSUME RelationsOK, \A n \in Names : IsInjective(rel[n]), IsProgram(prog),
         next \in Nat \ {0}, changed \in BOOLEAN, ApplyRule
  PROVE  /\ next \in 1..Len(prog.rules)
         /\ RelationsOK' /\ \A n \in Names : IsInjective(rel'[n])
         /\ Atoms' = Atoms \cup Heads(prog.rules[next], Atoms)
         /\ changed' \in BOOLEAN
         /\ ~changed' => ~changed /\ Heads(prog.rules[next], Atoms) \subseteq Atoms
  <1> DEFINE rule == prog.rules[next]
             h == prog.rules[next].head
             new == DeriveRule(rule) \ Tuples(h)
             q == SetToSeq(new)
  <1>1. next \in 1..Len(prog.rules)
    BY DEF ApplyRule, IsProgram
  <1>2. Safe(rule) /\ h \in Names
    BY <1>1 DEF IsProgram, Safe
  <1>3. /\ rel' = [rel EXCEPT ![h] = rel[h] \o q]
        /\ changed' = (changed \/ new # {})
    BY DEF ApplyRule
  <1>4. /\ DeriveRule(rule) \subseteq Seq(Consts) /\ IsFiniteSet(DeriveRule(rule))
        /\ \A t : t \in DeriveRule(rule) <=> <<h, t>> \in Heads(rule, Atoms)
    BY <1>2, DerivesHeads
  <1>5. \A x \in Heads(rule, Atoms) : x = <<h, x[2]>>
    BY DEF Heads
  <1> HIDE DEF rule, h
  <1>6. new \subseteq Seq(Consts) /\ IsFiniteSet(new) /\ new \cap Tuples(h) = {}
    BY <1>4, FS_Subset
  <1>7. Tuples(h) \cup new = Tuples(h) \cup DeriveRule(rule)
    OBVIOUS
  <1> HIDE DEF new
  <1>8. q \in Seq(new) /\ ToSet(q) = new /\ IsInjective(q)
    BY <1>6, SetToSeqLists
  <1> HIDE DEF q
  <1>9. q \in Seq(Seq(Consts)) /\ rel[h] \in Seq(Seq(Consts)) /\ IsInjective(rel[h])
    BY <1>2, <1>6, <1>8 DEF RelationsOK
  <1>10. /\ rel[h] \o q \in Seq(Seq(Consts)) /\ ToSet(rel[h] \o q) = Tuples(h) \cup new
         /\ IsInjective(rel[h] \o q)
    BY <1>6, <1>8, <1>9, ConcatDistinct DEF Tuples
  <1>11. rel' \in [Names -> Seq(Seq(Consts))]
    BY <1>2, <1>3, <1>10 DEF RelationsOK
  <1>12. \A n \in Names : rel'[n] = IF n = h THEN rel[h] \o q ELSE rel[n]
    BY <1>2, <1>3 DEF RelationsOK
  <1>13. \A n \in Names : IsInjective(rel'[n])
    BY <1>10, <1>12
  <1>14. \A n \in Names : \A t : t \in Tuples(n)' <=>
           t \in Tuples(n) \/ (n = h /\ t \in DeriveRule(rule))
    BY <1>7, <1>10, <1>12 DEF Tuples
  <1>15. Atoms' = Atoms \cup Heads(rule, Atoms)
    <2>1. \A a : a \in Atoms' <=> \E n \in Names : \E t \in Tuples(n)' : a = <<n, t>>
      BY DEF Atoms
    <2>2. \A a : a \in Atoms <=> \E n \in Names : \E t \in Tuples(n) : a = <<n, t>>
      BY DEF Atoms
    <2>3. \A a : a \in Heads(rule, Atoms) <=> \E t \in DeriveRule(rule) : a = <<h, t>>
      BY <1>4, <1>5
    <2> QED
      BY <1>2, <1>14, <2>1, <2>2, <2>3
  <1>16. ASSUME new = {}
         PROVE  Heads(rule, Atoms) \subseteq Atoms
    <2>1. \A t \in DeriveRule(rule) : <<h, t>> \in Atoms
      BY <1>2, <1>16, AtomsAreTuples DEF new
    <2> QED
      BY <1>4, <1>5, <2>1
  <1> QED
    BY <1>1, <1>3, <1>11, <1>13, <1>15, <1>16 DEF RelationsOK, rule

\* More atoms give more heads, when no rule derives what another negates.
LEMMA HeadsMonotone ==
  ASSUME NEW p, IsProgram(p), NegatesFactsOnly(p), NEW i \in 1..Len(p.rules),
         NEW A, NEW M, Base(p) \subseteq A, A \subseteq M, M \subseteq Base(p) \cup AllHeads(p)
  PROVE  Heads(p.rules[i], A) \subseteq Heads(p.rules[i], M)
  <1> DEFINE rule == p.rules[i]
  <1>1. \A x \in AllHeads(p) : \E k \in 1..Len(p.rules) : x[1] = p.rules[k].head
    BY DEF AllHeads, HeadAtoms
  <1>2. Safe(rule)
    BY DEF IsProgram
  <1>3. ASSUME NEW s, NEW j \in 1..Len(rule.body), LiteralHolds(rule.body[j], s, A)
        PROVE  LiteralHolds(rule.body[j], s, M)
    <2> DEFINE lit == rule.body[j]
               g == Ground(lit.args, s)
    <2>1. lit.kind \in {"pos", "not", "neq"}
      BY <1>2 DEF Safe, IsLiteral
    <2>2. CASE lit.kind = "not"
      <3>1. <<lit.name, g>> \notin A
        BY <1>3, <2>2 DEF LiteralHolds
      <3>2. \A k \in 1..Len(p.rules) : lit.name # p.rules[k].head
        BY <2>2 DEF NegatesFactsOnly
      <3>3. <<lit.name, g>> \notin AllHeads(p)
        BY <1>1, <3>2
      <3> QED
        BY <2>2, <3>1, <3>3 DEF LiteralHolds
    <2>3. CASE lit.kind # "not"
      BY <1>3, <2>1, <2>3 DEF LiteralHolds
    <2> QED
      BY <2>2, <2>3
  <1> QED
    BY <1>3 DEF Heads, BodyHolds

(***************************************************************************)
(* The evaluation of a well-formed program.                                 *)
(***************************************************************************)

\* What every step keeps: the relations hold no tuple twice, hold the facts and
\* nothing that is no head, and in a pass that has added nothing the rules it
\* applied add nothing.
Evaluated ==
  /\ RelationsOK /\ \A n \in Names : IsInjective(rel[n])
  /\ next \in Nat \ {0} /\ changed \in BOOLEAN
  /\ Base(prog) \subseteq Atoms /\ Atoms \subseteq Base(prog) \cup AllHeads(prog)
  /\ ~changed => \A i \in 1..(next - 1) : Heads(prog.rules[i], Atoms) \subseteq Atoms
  /\ out # Pending => ~changed /\ next > Len(prog.rules) /\ out = Collect

\* And when only facts are negated, no tuple is there that a model lacks or that
\* no rule derives.
FactsAreDerived ==
  /\ \A M \in Models(prog) : Atoms \subseteq M
  /\ Atoms \subseteq Base(prog) \cup Derived(prog, Atoms)

EvaluationInv ==
  IsProgram(prog) => Evaluated /\ (NegatesFactsOnly(prog) => FactsAreDerived)

LEMMA InitEvaluates == Init => EvaluationInv
  <1> SUFFICES ASSUME Init, IsProgram(prog)
               PROVE  Evaluated /\ FactsAreDerived
    BY DEF EvaluationInv
  <1>1. rel = Seed(prog) /\ next = 1 /\ changed = FALSE /\ out = Pending
    BY DEF Init
  <1>2. /\ rel \in [Names -> Seq(Seq(Consts))] /\ \A n \in Names : IsInjective(rel[n])
        /\ \A n \in Names : \A t : t \in ToSet(rel[n]) <=> <<n, t>> \in Base(prog)
    BY <1>1, SeedHoldsFacts
  <1>3. \A a \in Base(prog) : a \in Names \X Seq(Consts)
    BY DEF Base, ToSet, IsProgram
  <1>4. Atoms = Base(prog)
    <2>1. \A n \in Names : \A t : t \in Tuples(n) <=> <<n, t>> \in Base(prog)
      BY <1>2 DEF Tuples
    <2>2. \A a : a \in Atoms <=> \E n \in Names : \E t \in Tuples(n) : a = <<n, t>>
      BY DEF Atoms
    <2>3. \A a \in Base(prog) : \E n \in Names : \E t : a = <<n, t>>
      BY <1>3
    <2> QED
      BY <2>1, <2>2, <2>3
  <1>5. Evaluated
    <2>1. RelationsOK /\ out = Pending
      BY <1>1, <1>2 DEF RelationsOK
    <2>2. next \in Nat \ {0} /\ \A i \in 1..(next - 1) : FALSE
      BY <1>1
    <2>3. changed \in BOOLEAN
      BY <1>1, Zenon
    <2> QED
      BY <1>2, <1>4, <2>1, <2>2, <2>3 DEF Evaluated
  <1>6. FactsAreDerived
    BY <1>4 DEF FactsAreDerived, Models
  <1> QED
    BY <1>5, <1>6

LEMMA StepEvaluates == EvaluationInv /\ [Next]_vars => EvaluationInv'
  <1> SUFFICES ASSUME EvaluationInv, [Next]_vars, IsProgram(prog)'
               PROVE  Evaluated' /\ (NegatesFactsOnly(prog)' => FactsAreDerived')
    BY SMTT(40) DEF EvaluationInv
  <1>1. prog' = prog
    BY DEF Next, vars, ApplyRule, NextPass, Answer
  <1>2. IsProgram(prog) /\ Evaluated /\ (NegatesFactsOnly(prog)' => NegatesFactsOnly(prog) /\ FactsAreDerived)
    BY <1>1 DEF EvaluationInv
  <1>3. Len(prog.rules) \in Nat
    BY <1>2 DEF IsProgram
  <1>4. CASE ApplyRule
    <2> DEFINE rule == prog.rules[next]
    <2>1. /\ out = Pending /\ out' = Pending /\ next' = next + 1
      BY <1>4 DEF ApplyRule
    <2>2. /\ next \in 1..Len(prog.rules)
          /\ RelationsOK' /\ \A n \in Names : IsInjective(rel'[n])
          /\ Atoms' = Atoms \cup Heads(rule, Atoms)
          /\ changed' \in BOOLEAN
          /\ ~changed' => ~changed /\ Heads(rule, Atoms) \subseteq Atoms
      BY <1>2, <1>4, RuleApplied DEF Evaluated
    <2>3. Heads(rule, Atoms) \subseteq AllHeads(prog)
      BY <1>2, <2>2, HeadsAreHeadAtoms DEF AllHeads, IsProgram
    <2>4. ~changed' => \A i \in 1..(next' - 1) : Heads(prog.rules[i], Atoms') \subseteq Atoms'
      <3> SUFFICES ASSUME ~changed', NEW i \in 1..(next' - 1)
                   PROVE  Heads(prog.rules[i], Atoms') \subseteq Atoms'
        OBVIOUS
      <3>1. Atoms' = Atoms /\ ~changed
        BY <2>2
      <3>2. i \in 1..(next - 1) \/ i = next
        BY <2>1, <2>2
      <3> QED
        BY <1>2, <2>2, <3>1, <3>2 DEF Evaluated
    <2>5. Evaluated'
      <3>1. Base(prog) \subseteq Atoms' /\ Atoms' \subseteq Base(prog) \cup AllHeads(prog)
        BY <1>2, <2>2, <2>3 DEF Evaluated
      <3>2. next' \in Nat \ {0}
        BY <2>1, <2>2
      <3> QED
        BY <1>1, <2>1, <2>2, <2>4, <3>1, <3>2 DEF Evaluated
    <2>6. ASSUME NegatesFactsOnly(prog), FactsAreDerived
          PROVE  FactsAreDerived'
      <3>1. ASSUME NEW M \in Models(prog)
            PROVE  Atoms' \subseteq M
        <4>1. /\ Atoms \subseteq M /\ Base(prog) \subseteq M /\ M \subseteq Base(prog) \cup AllHeads(prog)
              /\ Derived(prog, M) \subseteq M
          BY <2>6 DEF FactsAreDerived, Models
        <4>2. Heads(rule, Atoms) \subseteq Heads(rule, M)
          BY <1>2, <2>2, <2>6, <4>1, HeadsMonotone DEF Evaluated
        <4>3. Heads(rule, M) \subseteq Derived(prog, M)
          BY <2>2 DEF Derived
        <4> QED
          BY <2>2, <4>1, <4>2, <4>3
      <3>2. Base(prog) \subseteq Atoms /\ Atoms \subseteq Atoms'
            /\ Atoms' \subseteq Base(prog) \cup AllHeads(prog)
        BY <1>2, <2>2, <2>3 DEF Evaluated
      <3>3. \A i \in 1..Len(prog.rules) : Heads(prog.rules[i], Atoms) \subseteq Heads(prog.rules[i], Atoms')
        BY <1>2, <2>6, <3>2, HeadsMonotone
      <3>4. Derived(prog, Atoms) \subseteq Derived(prog, Atoms')
        BY <3>3 DEF Derived
      <3>5. Heads(rule, Atoms) \subseteq Derived(prog, Atoms')
        BY <2>2, <3>3 DEF Derived
      <3>6. Atoms \subseteq Base(prog) \cup Derived(prog, Atoms)
        BY <2>6 DEF FactsAreDerived
      <3>7. Atoms' \subseteq Base(prog) \cup Derived(prog, Atoms')
        BY <2>2, <3>4, <3>5, <3>6
      <3> QED
        BY <1>1, <3>1, <3>7 DEF FactsAreDerived
    <2> QED
      BY <1>2, <2>5, <2>6
  <1>5. ASSUME UNCHANGED <<prog, rel>>
        PROVE  /\ Atoms' = Atoms /\ Collect' = Collect /\ (RelationsOK <=> RelationsOK')
               /\ NegatesFactsOnly(prog)' => FactsAreDerived'
    <2>1. Atoms' = Atoms
      BY <1>5 DEF Atoms, Tuples
    <2>2. Collect' = Collect
      BY <1>5 DEF Collect
    <2> QED
      BY <1>2, <1>5, <2>1, <2>2 DEF FactsAreDerived, RelationsOK
  <1>6. CASE NextPass
    <2>1. UNCHANGED <<prog, rel>> /\ next' = 1 /\ changed' = FALSE /\ out = Pending /\ out' = out
      BY <1>6 DEF NextPass
    <2>2. Atoms' = Atoms /\ RelationsOK'
      <3>1. UNCHANGED <<prog, rel>> /\ RelationsOK
        BY <1>2, <2>1 DEF Evaluated
      <3> QED
        BY <1>5, <3>1
    <2>3. next' \in Nat \ {0} /\ \A i \in 1..(next' - 1) : FALSE
      BY <2>1
    <2>4. changed' \in BOOLEAN
      BY <2>1, Zenon
    <2>5. Evaluated'
      BY <1>2, <2>1, <2>2, <2>3, <2>4 DEF Evaluated
    <2> QED
      BY <1>5, <2>1, <2>5
  <1>7. CASE Answer
    <2>1. UNCHANGED <<prog, rel, next, changed>> /\ next > Len(prog.rules) /\ ~changed /\ out' = Collect
      BY <1>7 DEF Answer
    <2>2. Atoms' = Atoms /\ Collect' = Collect /\ RelationsOK'
      <3>1. UNCHANGED <<prog, rel>> /\ RelationsOK
        BY <1>2, <2>1 DEF Evaluated
      <3> QED
        BY <1>5, <3>1
    <2>3. out' = Collect'
      BY <2>1, <2>2
    <2>4. Evaluated'
      BY <1>2, <2>1, <2>2, <2>3 DEF Evaluated
    <2> QED
      BY <1>5, <2>1, <2>4
  <1>8. CASE UNCHANGED vars
    <2>1. UNCHANGED <<prog, rel, next, changed, out>>
      BY <1>8 DEF vars
    <2>2. Evaluated'
      BY <1>2, <1>5, <2>1 DEF Evaluated
    <2> QED
      BY <1>5, <2>1, <2>2
  <1> QED
    BY <1>4, <1>6, <1>7, <1>8 DEF Next

LEMMA EvaluationInvariant == Spec => []EvaluationInv
  BY InitEvaluates, StepEvaluates, PTL DEF Spec

\* deriveRule and datalogEval: of any well-formed program whose rules negate
\* only relations of facts, a step derives nothing but what every model holds.
THEOREM NothingElse ==
  Spec => [](IsProgram(prog) /\ NegatesFactsOnly(prog) => NothingElseFollows)
  <1>1. EvaluationInv => (IsProgram(prog) /\ NegatesFactsOnly(prog) => NothingElseFollows)
    BY DEF EvaluationInv, Evaluated, FactsAreDerived, NothingElseFollows, LeastModel
  <1> QED
    BY <1>1, EvaluationInvariant, PTL

\* datalogEval: of any well-formed program, whatever the order of its rules and
\* what they negate, the answer is given at a fixpoint that holds the least
\* model, and it has one value for each free column of each matching tuple.
THEOREM CompleteAnswer == Spec => [](IsProgram(prog) => AnswerIsComplete)
  <1>1. EvaluationInv => (IsProgram(prog) => AnswerIsComplete)
    <2> SUFFICES ASSUME IsProgram(prog), Evaluated, out # Pending
                 PROVE  AnswerIsComplete
      BY DEF EvaluationInv, AnswerIsComplete
    <2>1. /\ Base(prog) \subseteq Atoms /\ Atoms \subseteq Base(prog) \cup AllHeads(prog)
          /\ next \in Nat /\ next > Len(prog.rules) /\ Len(prog.rules) \in Nat
          /\ \A i \in 1..(next - 1) : Heads(prog.rules[i], Atoms) \subseteq Atoms
          /\ out = Collect
      BY DEF Evaluated, IsProgram
    <2>2. Derived(prog, Atoms) \subseteq Atoms
      <3>1. \A i \in 1..Len(prog.rules) : i \in 1..(next - 1)
        BY <2>1
      <3> QED
        BY <2>1, <3>1 DEF Derived
    <2>3. Atoms \in Models(prog)
      <3>1. Atoms \cap AllHeads(prog) \in SUBSET AllHeads(prog)
        OBVIOUS
      <3>2. Atoms = Base(prog) \cup (Atoms \cap AllHeads(prog))
        BY <2>1
      <3> HIDE DEF Atoms
      <3> QED
        BY <2>2, <3>1, <3>2, Zenon DEF Models
    <2>4. LeastModel(prog) \subseteq Atoms
      BY <2>3 DEF LeastModel
    <2>5. IsInjective(rel[prog.query.name]) /\ RelationsOK
      BY DEF Evaluated, IsProgram
    <2>6. LET hits == {t \in Tuples(prog.query.name) : Matches(t, prog.query.args)}
              free == {i \in 1..Len(prog.query.args) : prog.query.args[i] = FreeArg}
          IN Len(Collect) = Cardinality(hits) * Cardinality(free)
      BY <2>5, CollectCounts
    <2> QED
      BY <2>1, <2>4, <2>6 DEF AnswerIsComplete
  <1> QED
    BY <1>1, EvaluationInvariant, PTL

\* program.go:1793: negation is failure as long as rules negate only relations
\* of facts; every tuple of the answer is a fact or the head of a rule whose
\* body holds in the answer.
THEOREM NegationOfFacts ==
  Spec => [](IsProgram(prog) /\ NegatesFactsOnly(prog) => NegationIsFailure)
  <1>1. EvaluationInv => (IsProgram(prog) /\ NegatesFactsOnly(prog) => NegationIsFailure)
    BY DEF EvaluationInv, FactsAreDerived, NegationIsFailure
  <1> QED
    BY <1>1, EvaluationInvariant, PTL

(***************************************************************************)
(* Shapes                                                                   *)
(***************************************************************************)
Loose == {"set", "omap", "union", "fun"}

LEMMA SameShape ==
  ASSUME NEW s, IsShape(s), NEW t, IsShape(t), Agrees(s, t), s.head \notin Loose
  PROVE  s = t
  BY DEF IsShape, Agrees, Loose, RecordOf, ListOf, ListOfRecord, MapOf, Scalar, Shape

LEMMA AgreesWithItself ==
  ASSUME NEW s
  PROVE  Agrees(s, s)
  BY DEF Agrees

LEMMA HeadsAgree ==
  ASSUME NEW s, NEW t, Agrees(s, t)
  PROVE  s.head = t.head
  BY DEF Agrees

LEMMA ScalarIs ==
  ASSUME NEW h \in Scalars
  PROVE  /\ IsShape(Scalar(h)) /\ Scalar(h).head = h
         /\ h \notin {"list", "map", "set", "union", "fun", "record"}
  <1>1. Scalar(h) \in Shapes
    <2>1. <<>> \in Seq(Words)
      OBVIOUS
    <2>2. h \in Words /\ None \in Words
      BY WordsAssumption DEF Scalars, Kinds
    <2> QED
      BY <2>1, <2>2 DEF Shapes, Scalar, Shape
  <1> QED
    BY <1>1 DEF Scalars, IsShape, Scalar, Shape

(***************************************************************************)
(* Heaps                                                                    *)
(***************************************************************************)
LEMMA HeapIs ==
  ASSUME NEW p, NEW heap, IsHeap(p, heap)
  PROVE  /\ heap \in Seq(Objects) /\ Len(heap) \in Nat /\ DOMAIN heap = 1..Len(heap)
         /\ \A r \in 1..Len(heap) : IsObject(p, heap[r])
  BY LenProperties DEF IsHeap, Heaps

LEMMA GrowsSame ==
  ASSUME NEW p, NEW heap, IsHeap(p, heap)
  PROVE  Grows(heap, heap)
  BY HeapIs DEF Grows

LEMMA GrowsOn ==
  ASSUME NEW p, NEW a, IsHeap(p, a), NEW b, IsHeap(p, b), NEW c, IsHeap(p, c),
         Grows(a, b), Grows(b, c)
  PROVE  Grows(a, c)
  <1>1. /\ Len(a) \in Nat /\ Len(b) \in Nat /\ Len(c) \in Nat
        /\ DOMAIN a = 1..Len(a) /\ DOMAIN b = 1..Len(b)
    BY HeapIs
  <1> QED
    BY <1>1 DEF Grows

LEMMA StaysValue ==
  ASSUME NEW p, NEW a, IsHeap(p, a), NEW b, IsHeap(p, b), Grows(a, b),
         NEW v, NEW s, MayBe(p, v, s, a)
  PROVE  MayBe(p, v, s, b)
  <1>1. Len(a) \in Nat /\ Len(b) \in Nat /\ DOMAIN a = 1..Len(a) /\ DOMAIN b = 1..Len(b)
    BY HeapIs
  <1>2. DOMAIN a \subseteq DOMAIN b /\ \A r \in DOMAIN a : b[r].shape = a[r].shape
    BY <1>1 DEF Grows
  <1>3. IsRefTo(v, s, a) => IsRefTo(v, s, b)
    BY <1>2 DEF IsRefTo
  <1> QED
    BY <1>3 DEF MayBe, IsValue

LEMMA StaysSeen ==
  ASSUME NEW cx, NEW c, NEW a, IsHeap(cx.prog, a), NEW b, IsHeap(cx.prog, b), Grows(a, b),
         Sees(cx, c, a)
  PROVE  Sees(cx, c, b)
  BY StaysValue DEF Sees

\* A new object.
LEMMA MadeIsSound ==
  ASSUME NEW p, NEW heap, IsHeap(p, heap), NEW o, IsObject(p, o), NEW s,
         Agrees(o.shape, s), s.head \in {"list", "map", "set"}
  PROVE  Sound(p, s, heap, Made(o, heap))
  <1> DEFINE new == Append(heap, o)
             r == Len(heap) + 1
  <1>1. /\ heap \in Seq(Objects) /\ Len(heap) \in Nat /\ DOMAIN heap = 1..Len(heap)
        /\ \A i \in 1..Len(heap) : IsObject(p, heap[i])
    BY HeapIs
  <1>2. o \in Objects
    BY DEF IsObject
  <1>3. /\ new \in Seq(Objects) /\ Len(new) = r /\ DOMAIN new = 1..r
        /\ \A i \in 1..Len(heap) : new[i] = heap[i]
        /\ new[r] = o
    BY <1>1, <1>2, AppendProperties, LenProperties
  <1>4. IsHeap(p, new)
    BY <1>1, <1>3 DEF IsHeap, Heaps
  <1>5. Grows(heap, new)
    BY <1>1, <1>3 DEF Grows
  <1>6. IsRefTo(RefV(r), s, new)
    BY <1>1, <1>3 DEF IsRefTo
  <1>7. MayBe(p, RefV(r), s, new)
    BY <1>6 DEF MayBe, IsValue
  <1>8. Made(o, heap).heap = new /\ Made(o, heap).r = "ok" /\ Made(o, heap).v = RefV(r)
    BY DEF Made, Got
  <1> QED
    BY <1>4, <1>5, <1>7, <1>8 DEF Sound, MayEnd

LEMMA GotIsSound ==
  ASSUME NEW p, NEW heap, IsHeap(p, heap), NEW v, NEW s, IsValue(p, v, s, heap)
  PROVE  Sound(p, s, heap, Got(v, heap))
  BY GrowsSame DEF Sound, Got, MayEnd, MayBe

LEMMA GotLaterIsSound ==
  ASSUME NEW p, NEW heap, NEW new, IsHeap(p, new), Grows(heap, new),
         NEW v, NEW s, IsValue(p, v, s, new)
  PROVE  Sound(p, s, heap, Got(v, new))
  BY DEF Sound, Got, MayEnd, MayBe

LEMMA FaultIsSound ==
  ASSUME NEW p, NEW heap, IsHeap(p, heap), NEW r \in MayEnd \ {"ok"}, NEW s
  PROVE  Sound(p, s, heap, Fault(r, heap))
  BY GrowsSame DEF Sound, Fault
(***************************************************************************)
(* Values                                                                   *)
(***************************************************************************)
LEMMA ScalarValueIs ==
  ASSUME NEW v, NEW h, IsScalarOf(v, h)
  PROVE  /\ v[1] = h /\ h \in {"int", "bool", "string"}
         /\ h = "int" => v[2] \in Int
         /\ h = "bool" => v[2] \in BOOLEAN
         /\ h = "string" => v[2] \in Seq(Words)
  BY DEF IsScalarOf, ScalarValues

LEMMA ScalarsAre ==
  /\ \A n \in Int : IsScalarOf(IntV(n), "int")
  /\ \A b \in BOOLEAN : IsScalarOf(BoolV(b), "bool")
  /\ \A t \in Seq(Words) : IsScalarOf(StringV(t), "string")
  BY DEF IsScalarOf, ScalarValues, IntV, BoolV, StringV

LEMMA ScalarIn ==
  ASSUME NEW p, NEW heap, NEW s, s.head \in Scalars, NEW v
  PROVE  IsValue(p, v, s, heap) <=> IsScalarOf(v, s.head)
  BY ScalarIs DEF IsValue, IsItem, Scalars

LEMMA RecordIn ==
  ASSUME NEW p, NEW heap, NEW s, s.head = "record", NEW v
  PROVE  IsValue(p, v, s, heap) <=> IsRecordOf(p, v, s.name)
  BY DEF IsValue, IsItem

LEMMA SeqOfThose ==
  ASSUME NEW A, NEW s \in Seq(A), NEW B, \A i \in DOMAIN s : s[i] \in B
  PROVE  s \in Seq(B)
  <1>1. Len(s) \in Nat /\ DOMAIN s = 1..Len(s) /\ s \in [1..Len(s) -> A]
    BY LenProperties
  <1>2. s \in [1..Len(s) -> B]
    BY <1>1
  <1> QED
    BY <1>1, <1>2

\* An object, and one with other items.
LEMMA ObjectIs ==
  ASSUME NEW p, NEW o, IsObject(p, o)
  PROVE  /\ IsShape(o.shape) /\ o \in Objects
         /\ o.shape.head \in {"list", "set", "map"}
         /\ \E V : o.items \in Seq(V)
         /\ o.shape.head \in {"list", "set"} =>
              /\ o.shape.elem \in Scalars \cup (IF o.shape.head = "list" THEN {"record"} ELSE {})
              /\ \A i \in DOMAIN o.items : IsItem(p, o.items[i], ElementOf(o.shape))
         /\ o.shape.head = "map" =>
              /\ o.shape.key \in Keys /\ o.shape.value \in Scalars
              /\ o.items \in Seq(Pairs)
              /\ \A i \in DOMAIN o.items :
                   /\ IsScalarOf(o.items[i][1], o.shape.key)
                   /\ IsScalarOf(o.items[i][2], o.shape.value)
  BY DEF IsObject, Objects

\* An object of these items.
LEMMA ListObject ==
  ASSUME NEW p, NEW s, IsShape(s), s.head \in {"list", "set"},
         s.elem \in Scalars \cup (IF s.head = "list" THEN {"record"} ELSE {}),
         NEW A, NEW items \in Seq(A), \A i \in DOMAIN items : IsItem(p, items[i], ElementOf(s)),
         NEW mods \in Nat
  PROVE  IsObject(p, [shape |-> s, items |-> items, mods |-> mods])
  <1> DEFINE o == [shape |-> s, items |-> items, mods |-> mods]
  <1>1. \A i \in DOMAIN items : items[i] \in ScalarValues \cup RecordValues
    BY DEF IsItem, IsScalarOf, IsRecordOf
  <1>2. items \in Seq(ScalarValues \cup RecordValues)
    BY <1>1, SeqOfThose
  <1>3. s \in Shapes
    BY DEF IsShape
  <1>4. o \in Objects
    BY <1>2, <1>3 DEF Objects
  <1> QED
    BY <1>4 DEF IsObject

LEMMA MapObject ==
  ASSUME NEW p, NEW s, IsShape(s), s.head = "map", s.key \in Keys, s.value \in Scalars,
         NEW items \in Seq(Pairs),
         \A i \in DOMAIN items : IsScalarOf(items[i][1], s.key) /\ IsScalarOf(items[i][2], s.value),
         NEW mods \in Nat
  PROVE  IsObject(p, [shape |-> s, items |-> items, mods |-> mods])
  <1> DEFINE o == [shape |-> s, items |-> items, mods |-> mods]
  <1>3. s \in Shapes
    BY DEF IsShape
  <1>4. o \in Objects
    BY <1>3 DEF Objects
  <1> QED
    BY <1>4 DEF IsObject

\* What an object of this shape may hold.
Elements(p, s) == {v \in ScalarValues \cup RecordValues : IsItem(p, v, ElementOf(s))}
Entries(s) == {q \in Pairs : IsScalarOf(q[1], s.key) /\ IsScalarOf(q[2], s.value)}

LEMMA ElementsIn ==
  ASSUME NEW p, NEW o, IsObject(p, o)
  PROVE  /\ o.shape.head \in {"list", "set"} => o.items \in Seq(Elements(p, o.shape))
         /\ o.shape.head = "map" => o.items \in Seq(Entries(o.shape))
  <1>1. PICK V : o.items \in Seq(V)
    BY ObjectIs
  <1>2. ASSUME o.shape.head \in {"list", "set"}
        PROVE  o.items \in Seq(Elements(p, o.shape))
    <2>1. \A i \in DOMAIN o.items : o.items[i] \in Elements(p, o.shape)
      BY <1>2, ObjectIs DEF Elements, IsItem, IsScalarOf, IsRecordOf
    <2> QED
      BY <1>1, <2>1, SeqOfThose
  <1>3. ASSUME o.shape.head = "map"
        PROVE  o.items \in Seq(Entries(o.shape))
    <2>1. \A i \in DOMAIN o.items : o.items[i] \in Entries(o.shape)
      BY <1>3, ObjectIs, LenProperties DEF Entries
    <2> QED
      BY <1>1, <2>1, SeqOfThose
  <1> QED
    BY <1>2, <1>3

LEMMA ListOfElements ==
  ASSUME NEW p, NEW s, IsShape(s), s.head \in {"list", "set"},
         s.elem \in Scalars \cup (IF s.head = "list" THEN {"record"} ELSE {}),
         NEW items \in Seq(Elements(p, s)), NEW mods \in Nat
  PROVE  IsObject(p, [shape |-> s, items |-> items, mods |-> mods])
  <1>1. \A i \in DOMAIN items : IsItem(p, items[i], ElementOf(s))
    BY LenProperties DEF Elements
  <1> QED
    BY <1>1, ListObject

LEMMA MapOfEntries ==
  ASSUME NEW p, NEW s, IsShape(s), s.head = "map", s.key \in Keys, s.value \in Scalars,
         NEW items \in Seq(Entries(s)), NEW mods \in Nat
  PROVE  IsObject(p, [shape |-> s, items |-> items, mods |-> mods])
  <1>1. /\ items \in Seq(Pairs)
        /\ \A i \in DOMAIN items : IsScalarOf(items[i][1], s.key) /\ IsScalarOf(items[i][2], s.value)
    BY LenProperties, SeqOfThose DEF Entries
  <1> QED
    BY <1>1, MapObject

\* The object behind a reference.
LEMMA RefIn ==
  ASSUME NEW p, NEW heap, IsHeap(p, heap), NEW s, s.head \in {"list", "map", "set"},
         NEW v, IsValue(p, v, s, heap)
  PROVE  /\ v[1] = "ref" /\ v[2] \in DOMAIN heap /\ v = RefV(v[2])
         /\ Agrees(heap[v[2]].shape, s) /\ IsObject(p, heap[v[2]])
         /\ s.head \in {"list", "map"} /\ IsShape(s) => heap[v[2]].shape = s
  <1>1. PICK r \in DOMAIN heap : v = RefV(r) /\ Agrees(heap[r].shape, s)
    BY DEF IsValue, IsRefTo
  <1>2. v[1] = "ref" /\ v[2] = r
    BY <1>1 DEF RefV
  <1>3. IsObject(p, heap[r])
    BY HeapIs
  <1>4. IsShape(heap[r].shape) /\ heap[r].shape.head = s.head
    BY <1>1, <1>3, ObjectIs DEF Agrees
  <1>5. s.head \in {"list", "map"} /\ IsShape(s) => heap[r].shape = s
    BY <1>1, <1>4, SameShape DEF Loose
  <1> QED
    BY <1>1, <1>2, <1>3, <1>5

(***************************************************************************)
(* The operands of a node, evaluated.                                       *)
(***************************************************************************)
IsSeq(s) == \E A : s \in Seq(A)
Operands(p, e, vs, heap) ==
  /\ IsSeq(e.args) /\ IsSeq(vs) /\ Len(vs) = Len(e.args)
  /\ \A i \in DOMAIN vs : IsShape(Arg(e, i)) /\ IsValue(p, vs[i], Arg(e, i), heap)

LEMMA SeqIs ==
  ASSUME NEW s, IsSeq(s)
  PROVE  Len(s) \in Nat /\ DOMAIN s = 1..Len(s)
  BY LenProperties DEF IsSeq

LEMMA OperandsAre ==
  ASSUME NEW p, NEW e, NEW vs, NEW heap, Operands(p, e, vs, heap)
  PROVE  /\ Len(vs) \in Nat /\ DOMAIN vs = 1..Len(vs) /\ DOMAIN e.args = 1..Len(vs)
         /\ Len(e.args) = Len(vs)
         /\ \A i \in 1..Len(vs) : IsShape(Arg(e, i)) /\ IsValue(p, vs[i], Arg(e, i), heap)
  BY SeqIs DEF Operands

(***************************************************************************)
(* Each node on values of its operands' shapes.                             *)
(***************************************************************************)
LEMMA TruncatedIs ==
  ASSUME NEW a \in Int, NEW b \in Int \ {0}
  PROVE  Truncated(a, b) \in Int
  BY DEF Truncated

LEMMA BinarySound ==
  ASSUME NEW p, NEW heap, IsHeap(p, heap), NEW e, e.op \in Binary \ {"and", "or"},
         IsNode(e, e.args), VerifyBinary(e), NEW vs, Operands(p, e, vs, heap)
  PROVE  Sound(p, e.shape, heap, LowerBinary(e, vs, heap))
  <1> DEFINE t == OperandTypes(e.op)
             a == vs[1][2]
             b == vs[2][2]
  <1>1. Len(e.args) = 2 /\ e.shape = Scalar(e.shape.head)
    BY DEF IsNode, BinaryExpr, Node, Binary
  <1>2. t \in Scalars /\ ResultType(e.op) \in {"int", "bool", "string"}
    BY DEF OperandTypes, ResultType, Binary, Scalars
  <1>3. \A i \in {1, 2} : IsScalarOf(vs[i], t)
    BY <1>1, <1>2, OperandsAre, ScalarIn DEF VerifyBinary, Arg
  <1>4. vs[1][1] = t /\ vs[2][1] = t
    BY <1>3, ScalarValueIs
  <1>5. ASSUME e.op = "/" => b # 0
        PROVE  IsScalarOf(Arithmetic(e.op, a, b), ResultType(e.op))
    <2>1. CASE e.op \in {"+", "-", "/", "==", "<"}
      <3>1. a \in Int /\ b \in Int
        BY <2>1, <1>3, ScalarValueIs DEF OperandTypes
      <3>2. CASE e.op = "+"
        BY <3>1, <3>2, ScalarsAre DEF Arithmetic, ResultType
      <3>3. CASE e.op = "-"
        BY <3>1, <3>3, ScalarsAre DEF Arithmetic, ResultType
      <3>4. CASE e.op = "/"
        BY <3>1, <3>4, <1>5, ScalarsAre, TruncatedIs DEF Arithmetic, ResultType
      <3>5. CASE e.op = "<"
        <4>1. Arithmetic(e.op, a, b) = BoolV(a < b)
          BY <3>5 DEF Arithmetic
        <4>0. (a < b) \in BOOLEAN
          BY <3>1
        <4>2. IsScalarOf(BoolV(a < b), "bool")
          BY <4>0, ScalarsAre, Zenon
        <4>3. ResultType(e.op) = "bool"
          BY <3>5 DEF ResultType
        <4> QED
          BY <4>1, <4>2, <4>3
      <3>6. CASE e.op = "=="
        BY <3>1, <3>6, ScalarsAre DEF Arithmetic, ResultType
      <3> QED
        BY <2>1, <3>2, <3>3, <3>4, <3>5, <3>6
    <2>2. CASE e.op \in {"==s", "cat"}
      <3>1. a \in Seq(Words) /\ b \in Seq(Words)
        BY <2>2, <1>3, ScalarValueIs DEF OperandTypes
      <3>2. a \o b \in Seq(Words)
        BY <3>1, ConcatProperties
      <3> QED
        BY <3>1, <3>2, <2>2, ScalarsAre DEF Arithmetic, ResultType
    <2> QED
      BY <2>1, <2>2 DEF Binary
  <1>6. e.shape.head = ResultType(e.op) /\ e.shape.head \in Scalars
    BY <1>2 DEF VerifyBinary, Scalars
  <1>7. CASE e.op = "/" /\ b = 0
    <2>1. LowerBinary(e, vs, heap) = Fault("panic", heap)
      BY <1>4, <1>7 DEF LowerBinary
    <2> QED
      BY <2>1, FaultIsSound DEF MayEnd
  <1>8. CASE ~(e.op = "/" /\ b = 0)
    <2>1. LowerBinary(e, vs, heap) = Got(Arithmetic(e.op, a, b), heap)
      BY <1>4, <1>8 DEF LowerBinary
    <2>2. IsValue(p, Arithmetic(e.op, a, b), e.shape, heap)
      BY <1>5, <1>6, <1>8, ScalarIn
    <2> QED
      BY <2>1, <2>2, GotIsSound
  <1> QED
    BY <1>7, <1>8

\* An operand that agrees with the element of a list fits into the list.
LEMMA ElementFits ==
  ASSUME NEW p, NEW heap, NEW s, s.head = "list", s.elem \in Scalars \cup {"record"},
         NEW e, NEW vs, Operands(p, e, vs, heap), NEW i \in 1..Len(vs),
         Agrees(ElementOf(s), Arg(e, i))
  PROVE  IsItem(p, vs[i], ElementOf(s)) /\ Fits(vs[i], ElementOf(s), heap)
  <1> DEFINE elem == ElementOf(s)
  <1>1. IsValue(p, vs[i], Arg(e, i), heap)
    BY OperandsAre
  <1>2. CASE s.elem = "record"
    <2>1. elem = RecordOf(s.elemName)
      BY <1>2 DEF ElementOf
    <2>2. elem.head = "record" /\ Arg(e, i).head = "record" /\ Arg(e, i).name = elem.name
      BY <2>1 DEF Agrees, RecordOf, Shape
    <2>3. IsRecordOf(p, vs[i], elem.name)
      BY <1>1, <2>2, RecordIn
    <2>4. vs[i][1] = "record" /\ elem = RecordOf(vs[i][2])
      BY <2>1, <2>3 DEF IsRecordOf, RecordValues, RecordOf, Shape
    <2> QED
      BY <2>2, <2>3, <2>4 DEF IsItem, Fits
  <1>3. CASE s.elem # "record"
    <2>1. elem = Scalar(s.elem) /\ s.elem \in Scalars
      BY <1>3 DEF ElementOf
    <2>2. elem.head = s.elem /\ Arg(e, i).head = s.elem
      BY <2>1, ScalarIs DEF Agrees
    <2>3. IsScalarOf(vs[i], elem.head)
      BY <1>1, <2>1, <2>2, ScalarIn
    <2>4. vs[i][1] = elem.head /\ elem.head \in {"int", "bool", "string"}
      BY <2>3, ScalarValueIs
    <2> QED
      BY <2>3, <2>4 DEF IsItem, Fits
  <1> QED
    BY <1>2, <1>3

LEMMA ListLitSound ==
  ASSUME NEW p, NEW heap, IsHeap(p, heap), NEW c, c.prog = p, NEW e, e.op = "list",
         IsShape(e.shape), IsNode(e, e.args), VerifyListLit(c, e),
         NEW vs, Operands(p, e, vs, heap)
  PROVE  Sound(p, e.shape, heap, LowerListLit(e, vs, heap))
  <1> DEFINE elem == ElementOf(e.shape)
  <1>1. e.shape.head = "list" /\ e.shape.elem \in Scalars \cup {"record"}
    BY DEF IsNode, VerifyListLit, WellFormed, Binary
  <1>2. \A i \in DOMAIN vs : IsItem(p, vs[i], elem) /\ Fits(vs[i], elem, heap)
    BY <1>1, OperandsAre, ElementFits DEF VerifyListLit
  <1>3. LowerListLit(e, vs, heap) = Made(Object(e.shape, vs), heap)
    BY <1>2 DEF LowerListLit
  <1>4. PICK A : vs \in Seq(A)
    BY DEF Operands, IsSeq
  <1>5. IsObject(p, Object(e.shape, vs))
    BY <1>1, <1>2, <1>4, ListObject DEF Object
  <1> QED
    BY <1>1, <1>3, <1>5, MadeIsSound, AgreesWithItself DEF Object

\* The receiver of a node on lists or maps is what the node is stamped with.
LEMMA ReceiverIs ==
  ASSUME NEW p, NEW heap, IsHeap(p, heap), NEW e, NEW vs, Operands(p, e, vs, heap), Len(vs) >= 1,
         NEW s, IsShape(s), Agrees(Arg(e, 1), s), s.head \in {"list", "map"}
  PROVE  /\ vs[1][1] = "ref" /\ vs[1][2] \in DOMAIN heap
         /\ IsObject(p, heap[vs[1][2]]) /\ heap[vs[1][2]].shape = s
  <1>1. IsShape(Arg(e, 1)) /\ IsValue(p, vs[1], Arg(e, 1), heap) /\ Arg(e, 1).head = s.head
    BY OperandsAre, HeadsAgree
  <1>2. Arg(e, 1) = s
    BY <1>1, SameShape DEF Loose
  <1> QED
    BY <1>1, <1>2, RefIn

LEMMA AppendSound ==
  ASSUME NEW p, NEW heap, IsHeap(p, heap), NEW e, e.op = "append",
         IsShape(e.shape), IsNode(e, e.args), VerifyAppend(e),
         NEW vs, Operands(p, e, vs, heap)
  PROVE  Sound(p, e.shape, heap, LowerAppend(e, vs, heap))
  <1> DEFINE xs == heap[vs[1][2]]
             elem == ElementOf(e.shape)
             new == Object(xs.shape, Append(xs.items, vs[2]))
  <1>1. Len(e.args) = 2 /\ Len(vs) = 2
    BY OperandsAre DEF IsNode, AppendExpr, Node
  <1>2. Agrees(Arg(e, 1), e.shape) /\ e.shape.head = "list" /\ Agrees(elem, Arg(e, 2))
    BY DEF VerifyAppend, Agrees
  <1>3. vs[1][1] = "ref" /\ IsObject(p, xs) /\ xs.shape = e.shape
    BY <1>1, <1>2, ReceiverIs
  <1>4. /\ e.shape.elem \in Scalars \cup {"record"}
        /\ xs.items \in Seq(Elements(p, e.shape))
    BY <1>2, <1>3, ObjectIs, ElementsIn
  <1>5. IsItem(p, vs[2], elem) /\ Fits(vs[2], elem, heap)
    BY <1>1, <1>2, <1>4, ElementFits
  <1>6. vs[2] \in Elements(p, e.shape)
    BY <1>5 DEF Elements, IsItem, IsScalarOf, IsRecordOf
  <1>7. Append(xs.items, vs[2]) \in Seq(Elements(p, e.shape))
    BY <1>4, <1>6, AppendProperties
  <1>8. IsObject(p, new)
    BY <1>2, <1>3, <1>4, <1>7, ListOfElements DEF Object
  <1>9. LowerAppend(e, vs, heap) = Made(new, heap)
    BY <1>3, <1>5 DEF LowerAppend
  <1> QED
    BY <1>2, <1>3, <1>8, <1>9, MadeIsSound, AgreesWithItself DEF Object

LEMMA ElementIsValue ==
  ASSUME NEW p, NEW heap, NEW s, s.head \in {"list", "set"}, s.elem \in Scalars \cup {"record"},
         s.head = "set" => s.elem # "record", NEW v, IsItem(p, v, ElementOf(s))
  PROVE  IsValue(p, v, ElementOf(s), heap)
  <1>1. ElementOf(s).head \in Scalars \cup {"record"}
    BY ScalarIs DEF ElementOf, RecordOf, Shape
  <1> QED
    BY <1>1, ScalarIn, RecordIn, ScalarIs DEF IsItem

LEMMA IndexSound ==
  ASSUME NEW p, NEW heap, IsHeap(p, heap), NEW c, c.prog = p, NEW e, e.op = "index",
         IsNode(e, e.args), VerifyOfList(c, e), NEW vs, Operands(p, e, vs, heap)
  PROVE  Sound(p, e.shape, heap, LowerIndex(e, vs, heap, TRUE))
  <1> DEFINE xs == heap[vs[1][2]].items
  <1>1. Len(vs) = 2 /\ IsShape(e.of) /\ e.shape = ElementOf(e.of)
    BY OperandsAre DEF IsNode, IndexExpr, OnReceiver
  <1>2. Agrees(Arg(e, 1), e.of) /\ e.of.head = "list" /\ Arg(e, 2).head = "int"
    BY DEF VerifyOfList, Agrees
  <1>3. vs[1][1] = "ref" /\ IsObject(p, heap[vs[1][2]]) /\ heap[vs[1][2]].shape = e.of
    BY <1>1, <1>2, ReceiverIs
  <1>4. IsScalarOf(vs[2], "int")
    BY <1>1, <1>2, OperandsAre, ScalarIn DEF Scalars
  <1>5. vs[2][1] = "int" /\ vs[2][2] \in Int
    BY <1>4, ScalarValueIs
  <1>6. CASE vs[2][2] \in 0..Len(xs) - 1
    <2>1. xs \in Seq(Elements(p, e.of)) /\ e.of.elem \in Scalars \cup {"record"}
      BY <1>2, <1>3, ElementsIn, ObjectIs
    <2>2. xs[vs[2][2] + 1] \in Elements(p, e.of)
      BY <1>5, <1>6, <2>1, LenProperties
    <2>3. IsValue(p, xs[vs[2][2] + 1], e.shape, heap)
      BY <1>1, <1>2, <2>1, <2>2, ElementIsValue DEF Elements
    <2>4. LowerIndex(e, vs, heap, TRUE) = Got(xs[vs[2][2] + 1], heap)
      BY <1>3, <1>5, <1>6 DEF LowerIndex
    <2> QED
      BY <2>3, <2>4, GotIsSound
  <1>7. CASE vs[2][2] \notin 0..Len(xs) - 1
    <2>1. LowerIndex(e, vs, heap, TRUE) = Fault("error", heap)
      BY <1>3, <1>5, <1>7 DEF LowerIndex, Missing
    <2> QED
      BY <2>1, FaultIsSound DEF MayEnd
  <1> QED
    BY <1>6, <1>7

\* The nodes that count a list, a map or a set.
LEMMA LenSound ==
  ASSUME NEW p, NEW heap, IsHeap(p, heap), NEW e, e.op \in {"len", "maplen", "setlen"},
         IsNode(e, e.args), Arg(e, 1).head \in {"list", "map", "set"},
         NEW vs, Operands(p, e, vs, heap)
  PROVE  Sound(p, e.shape, heap, LowerLen(e, vs, heap))
  <1> DEFINE n == Len(heap[vs[1][2]].items)
  <1>1. Len(vs) = 1 /\ e.shape = IntType
    BY OperandsAre DEF IsNode, LenExpr, MapLenExpr, SetLenExpr, OnReceiver, Node
  <1>2. vs[1][1] = "ref" /\ IsObject(p, heap[vs[1][2]])
    BY <1>1, OperandsAre, RefIn
  <1>3. n \in Nat
    BY <1>2, ObjectIs, LenProperties
  <1>4. IsValue(p, IntV(n), IntType, heap)
    BY <1>3, ScalarsAre, ScalarIn, ScalarIs DEF IntType, Scalars
  <1>5. LowerLen(e, vs, heap) = Got(IntV(n), heap)
    BY <1>2 DEF LowerLen
  <1> QED
    BY <1>1, <1>4, <1>5, GotIsSound

(***************************************************************************)
(* Maps                                                                     *)
(***************************************************************************)
LEMMA PutKeeps ==
  ASSUME NEW S, NEW items \in Seq(S), NEW k, NEW v, <<k, v>> \in S
  PROVE  Put(items, k, v) \in Seq(S)
  <1>1. Len(items) \in Nat /\ DOMAIN items = 1..Len(items) /\ items \in [1..Len(items) -> S]
    BY LenProperties
  <1>2. [items EXCEPT ![At(items, k)] = <<k, v>>] \in [1..Len(items) -> S]
    BY <1>1
  <1>3. [items EXCEPT ![At(items, k)] = <<k, v>>] \in Seq(S)
    BY <1>1, <1>2
  <1> QED
    BY <1>3, AppendProperties DEF Put

PutNext(vs, m, n) == Put(m, vs[2 * n - 1], vs[2 * n])
Putting == INSTANCE Loops WITH Step <- PutNext

LEMMA MapLitUnfold ==
  ASSUME NEW e, NEW vs, NEW heap, Len(vs) \div 2 \in Nat
  PROVE  \E after : /\ Putting!IsLoop(after, vs, <<>>, Len(vs) \div 2)
                    /\ LowerMapLit(e, vs, heap) = Made(Object(e.shape, after[Len(vs) \div 2]), heap)
  <1>1. \E after : Putting!IsLoop(after, vs, <<>>, Len(vs) \div 2)
    BY Putting!LoopExists
  <1> QED
    BY <1>1, Zenon DEF Putting!IsLoop, PutNext, LowerMapLit

LEMMA MapLitSound ==
  ASSUME NEW p, NEW heap, IsHeap(p, heap), NEW c, c.prog = p, NEW e, e.op = "map",
         IsShape(e.shape), IsNode(e, e.args), VerifyMapLit(c, e),
         NEW vs, Operands(p, e, vs, heap)
  PROVE  Sound(p, e.shape, heap, LowerMapLit(e, vs, heap))
  <1> DEFINE s == e.shape
             half == Len(vs) \div 2
  <1>1. s.head = "map" /\ Len(vs) \in Nat /\ Len(vs) % 2 = 0
    BY OperandsAre DEF IsNode
  <1>2. s.key \in Keys /\ s.value \in Scalars
    BY <1>1 DEF VerifyMapLit, Declarable, WellFormed
  <1>3. half \in Nat /\ Len(vs) = 2 * half
    BY <1>1
  <1>4. ASSUME NEW n \in 1..half
        PROVE  <<vs[2 * n - 1], vs[2 * n]>> \in Entries(s)
    <2>1. 2 * n - 1 \in 1..Len(vs) /\ 2 * n \in 1..Len(vs) /\ (2 * n - 1) % 2 = 1 /\ (2 * n) % 2 # 1
      BY <1>3
    <2>2. /\ Arg(e, 2 * n - 1).head = s.key /\ IsValue(p, vs[2 * n - 1], Arg(e, 2 * n - 1), heap)
          /\ Arg(e, 2 * n).head = s.value /\ IsValue(p, vs[2 * n], Arg(e, 2 * n), heap)
      BY <2>1, OperandsAre DEF VerifyMapLit
    <2>3. IsScalarOf(vs[2 * n - 1], s.key) /\ IsScalarOf(vs[2 * n], s.value)
      BY <1>2, <2>2, ScalarIn DEF Keys, Scalars
    <2> QED
      BY <2>3 DEF Entries, Pairs, IsScalarOf
  <1>5. PICK after : /\ Putting!IsLoop(after, vs, <<>>, half)
                     /\ LowerMapLit(e, vs, heap) = Made(Object(s, after[half]), heap)
    BY <1>3, MapLitUnfold
  <1>7. \A items \in Seq(Entries(s)) : \A n \in 1..half : PutNext(vs, items, n) \in Seq(Entries(s))
    BY <1>4, PutKeeps DEF PutNext
  <1>8. after[half] \in Seq(Entries(s))
    <2>1. <<>> \in Seq(Entries(s))
      OBVIOUS
    <2>2. \A i \in 0..half : after[i] \in Seq(Entries(s))
      BY <1>3, <1>5, <1>7, <2>1, Putting!LoopStays
    <2> QED
      BY <1>3, <2>2
  <1>9. IsObject(p, Object(s, after[half]))
    BY <1>1, <1>2, <1>8, MapOfEntries DEF Object
  <1> QED
    BY <1>1, <1>5, <1>9, MadeIsSound, AgreesWithItself DEF Object

\* The nodes on a map: their receiver is a map of the shape they are stamped with.
LEMMA OfMapIs ==
  ASSUME NEW p, NEW heap, IsHeap(p, heap), NEW c, NEW e, e.op \in {"get", "has", "keys"},
         IsNode(e, e.args), VerifyOfMap(c, e), NEW vs, Operands(p, e, vs, heap)
  PROVE  /\ vs[1][1] = "ref" /\ heap[vs[1][2]].items \in Seq(Entries(e.of))
         /\ e.of.head = "map" /\ e.of.key \in Keys /\ e.of.value \in Scalars
  <1>1. Len(vs) \in {1, 2} /\ IsShape(e.of)
    BY OperandsAre DEF IsNode, MapGetExpr, MapHasExpr, MapKeysExpr, OnReceiver
  <1>2. Agrees(Arg(e, 1), e.of) /\ e.of.head = "map"
    BY DEF VerifyOfMap, Agrees
  <1>3. vs[1][1] = "ref" /\ IsObject(p, heap[vs[1][2]]) /\ heap[vs[1][2]].shape = e.of
    BY <1>1, <1>2, ReceiverIs
  <1> QED
    BY <1>2, <1>3, ElementsIn, ObjectIs

LEMMA MapGetSound ==
  ASSUME NEW p, NEW heap, IsHeap(p, heap), NEW c, NEW e, e.op = "get",
         IsNode(e, e.args), VerifyOfMap(c, e), NEW vs, Operands(p, e, vs, heap)
  PROVE  Sound(p, e.shape, heap, LowerMapGet(e, vs, heap, TRUE))
  <1> DEFINE m == heap[vs[1][2]].items
             i == At(m, vs[2])
  <1>1. /\ vs[1][1] = "ref" /\ m \in Seq(Entries(e.of))
        /\ e.of.head = "map" /\ e.of.value \in Scalars
    BY OfMapIs
  <1>2. e.shape = Scalar(e.of.value) /\ e.shape.head = e.of.value
    BY <1>1, ScalarIs DEF IsNode, MapGetExpr, OnReceiver, ElementOf
  <1>3. CASE vs[2] \in Keys1(m)
    <2>1. i \in DOMAIN m
      BY <1>3 DEF Keys1, At
    <2>2. m[i] \in Entries(e.of)
      BY <1>1, <2>1, LenProperties
    <2>3. IsValue(p, m[i][2], e.shape, heap)
      BY <1>1, <1>2, <2>2, ScalarIn DEF Entries
    <2>4. LowerMapGet(e, vs, heap, TRUE) = Got(m[i][2], heap)
      BY <1>1, <1>3 DEF LowerMapGet
    <2> QED
      BY <2>3, <2>4, GotIsSound
  <1>4. CASE vs[2] \notin Keys1(m)
    <2>1. LowerMapGet(e, vs, heap, TRUE) = Fault("error", heap)
      BY <1>1, <1>4 DEF LowerMapGet, Missing
    <2> QED
      BY <2>1, FaultIsSound DEF MayEnd
  <1> QED
    BY <1>3, <1>4

LEMMA TruthSound ==
  ASSUME NEW p, NEW heap, IsHeap(p, heap), NEW b \in BOOLEAN
  PROVE  Sound(p, BoolType, heap, Got(BoolV(b), heap))
  <1>1. BoolType.head = "bool" /\ "bool" \in Scalars
    BY ScalarIs DEF BoolType, Scalars
  <1>2. IsScalarOf(BoolV(b), "bool")
    BY ScalarsAre, Zenon
  <1> QED
    BY <1>1, <1>2, ScalarIn, GotIsSound

LEMMA MapHasSound ==
  ASSUME NEW p, NEW heap, IsHeap(p, heap), NEW c, NEW e, e.op = "has",
         IsNode(e, e.args), VerifyOfMap(c, e), NEW vs, Operands(p, e, vs, heap)
  PROVE  Sound(p, e.shape, heap, LowerMapHas(e, vs, heap))
  <1> DEFINE b == vs[2] \in Keys1(heap[vs[1][2]].items)
  <1>1. e.shape = BoolType
    BY DEF IsNode, MapHasExpr, OnReceiver
  <1>2. vs[1][1] = "ref"
    BY OfMapIs
  <1>3. LowerMapHas(e, vs, heap) = Got(BoolV(b), heap)
    BY <1>2, Zenon DEF LowerMapHas
  <1>4. b \in BOOLEAN
    OBVIOUS
  <1> HIDE DEF b
  <1> QED
    BY <1>1, <1>3, <1>4, TruthSound

LEMMA MapKeysSound ==
  ASSUME NEW p, NEW heap, IsHeap(p, heap), NEW c, NEW e, e.op = "keys",
         IsShape(e.shape), IsNode(e, e.args), VerifyOfMap(c, e), NEW vs, Operands(p, e, vs, heap)
  PROVE  Sound(p, e.shape, heap, LowerMapKeys(e, vs, heap, TRUE))
  <1> DEFINE m == heap[vs[1][2]].items
             keys == [i \in DOMAIN m |-> m[i][1]]
  <1>1. /\ vs[1][1] = "ref" /\ m \in Seq(Entries(e.of))
        /\ e.of.head = "map" /\ e.of.key \in Keys
    BY OfMapIs
  <1>2. e.shape = ListOf(e.of.key)
    BY DEF IsNode, MapKeysExpr, OnReceiver
  <1>3. e.shape.head = "list" /\ e.shape.elem = e.of.key /\ e.shape.elem \in Scalars
    BY <1>1, <1>2 DEF ListOf, Shape, Keys, Scalars
  <1>4. ElementOf(e.shape).head = e.of.key
    BY <1>3, ScalarIs DEF ElementOf
  <1>5. Len(m) \in Nat /\ DOMAIN m = 1..Len(m) /\ \A i \in 1..Len(m) : m[i] \in Entries(e.of)
    BY <1>1, LenProperties
  <1>6. \A i \in 1..Len(m) : m[i][1] \in Elements(p, e.shape)
    BY <1>1, <1>4, <1>5 DEF Entries, Elements, IsItem, IsScalarOf, Keys
  <1>7. keys \in Seq(Elements(p, e.shape))
    BY <1>5, <1>6
  <1>8. IsObject(p, Object(e.shape, keys))
    BY <1>3, <1>7, ListOfElements DEF Object
  <1>9. LowerMapKeys(e, vs, heap, TRUE) = Made(Object(e.shape, keys), heap)
    BY <1>1 DEF LowerMapKeys
  <1> QED
    BY <1>3, <1>8, <1>9, MadeIsSound, AgreesWithItself DEF Object

(***************************************************************************)
(* Sorting and slicing                                                      *)
(***************************************************************************)
LEMMA InsertedKeeps ==
  ASSUME NEW S, NEW ys \in Seq(S), NEW x \in S
  PROVE  Inserted(ys, x) \in Seq(S)
  <1> DEFINE below == {i \in DOMAIN ys : ~Before(x, ys[i])}
             k == Cardinality(below)
  <1>1. Len(ys) \in Nat /\ DOMAIN ys = 1..Len(ys) /\ \A i \in 1..Len(ys) : ys[i] \in S
    BY LenProperties
  <1>2. below \in SUBSET (1..Len(ys))
    BY <1>1
  <1>3. IsFiniteSet(1..Len(ys)) /\ Cardinality(1..Len(ys)) = Len(ys)
    BY <1>1, CountTo
  <1> HIDE DEF below
  <1>4. IsFiniteSet(below) /\ k <= Len(ys)
    BY <1>2, <1>3, FS_Subset
  <1>5. k \in Nat
    BY <1>4, FS_CardinalityType
  <1> HIDE DEF k
  <1>6. SubSeq(ys, 1, k) \in Seq(S)
    <2>1. \A i \in 1..k : ys[i] \in S
      BY <1>1, <1>4, <1>5
    <2> QED
      BY <1>5, <2>1, SubSeqProperties
  <1>7. SubSeq(ys, k + 1, Len(ys)) \in Seq(S)
    <2>1. \A i \in (k + 1)..Len(ys) : ys[i] \in S
      BY <1>1, <1>5
    <2> QED
      BY <1>1, <1>5, <2>1, SubSeqProperties
  <1>8. SubSeq(ys, 1, k) \o <<x>> \o SubSeq(ys, k + 1, Len(ys)) \in Seq(S)
    BY <1>6, <1>7, ConcatProperties
  <1> QED
    BY <1>8 DEF Inserted, k, below

SortNext(xs, ys, n) == Inserted(ys, xs[n])
Sorting == INSTANCE Loops WITH Step <- SortNext

LEMMA SortedUnfold ==
  ASSUME NEW xs, Len(xs) \in Nat
  PROVE  \E sorted : Sorting!IsLoop(sorted, xs, <<>>, Len(xs)) /\ Sorted(xs) = sorted[Len(xs)]
  <1>1. \E sorted : Sorting!IsLoop(sorted, xs, <<>>, Len(xs))
    BY Sorting!LoopExists
  <1> QED
    BY <1>1, Zenon DEF Sorting!IsLoop, SortNext, Sorted

LEMMA SortedKeeps ==
  ASSUME NEW S, NEW xs \in Seq(S)
  PROVE  Sorted(xs) \in Seq(S)
  <1>1. Len(xs) \in Nat /\ \A n \in 1..Len(xs) : xs[n] \in S
    BY LenProperties
  <1>2. PICK sorted : Sorting!IsLoop(sorted, xs, <<>>, Len(xs)) /\ Sorted(xs) = sorted[Len(xs)]
    BY <1>1, SortedUnfold
  <1>3. \A ys \in Seq(S) : \A n \in 1..Len(xs) : SortNext(xs, ys, n) \in Seq(S)
    BY <1>1, InsertedKeeps DEF SortNext
  <1>4. <<>> \in Seq(S)
    OBVIOUS
  <1>5. \A n \in 0..Len(xs) : sorted[n] \in Seq(S)
    BY <1>1, <1>2, <1>3, <1>4, Sorting!LoopStays
  <1> QED
    BY <1>1, <1>2, <1>5

\* The receiver of a node that returns a list of its receiver's shape.
LEMMA ListIs ==
  ASSUME NEW p, NEW heap, IsHeap(p, heap), NEW e, NEW vs, Operands(p, e, vs, heap), Len(vs) >= 1,
         Arg(e, 1).head = "list"
  PROVE  /\ vs[1][1] = "ref" /\ IsShape(Arg(e, 1)) /\ Arg(e, 1).elem \in Scalars \cup {"record"}
         /\ heap[vs[1][2]].shape = Arg(e, 1)
         /\ heap[vs[1][2]].items \in Seq(Elements(p, Arg(e, 1)))
  <1>1. IsShape(Arg(e, 1))
    BY OperandsAre
  <1>2. vs[1][1] = "ref" /\ IsObject(p, heap[vs[1][2]]) /\ heap[vs[1][2]].shape = Arg(e, 1)
    BY <1>1, ReceiverIs, AgreesWithItself
  <1> QED
    BY <1>1, <1>2, ElementsIn, ObjectIs

LEMMA SortSound ==
  ASSUME NEW p, NEW heap, IsHeap(p, heap), NEW e, e.op = "sort", IsNode(e, e.args),
         Arg(e, 1).head = "list", NEW vs, Operands(p, e, vs, heap)
  PROVE  Sound(p, e.shape, heap, LowerSort(e, vs, heap))
  <1> DEFINE xs == heap[vs[1][2]].items
             o == Object(e.shape, Sorted(xs))
  <1>1. Len(vs) = 1 /\ e.shape = Arg(e, 1)
    BY OperandsAre DEF IsNode, ListSortAscExpr, Node, Arg
  <1>2. /\ vs[1][1] = "ref" /\ e.shape.elem \in Scalars \cup {"record"} /\ e.shape.head = "list"
        /\ IsShape(e.shape) /\ xs \in Seq(Elements(p, e.shape))
    BY <1>1, ListIs
  <1>3. Sorted(xs) \in Seq(Elements(p, e.shape))
    BY <1>2, SortedKeeps
  <1>4. IsObject(p, o)
    BY <1>2, <1>3, ListOfElements DEF Object
  <1>5. Sound(p, e.shape, heap, Made(o, heap))
    BY <1>2, <1>4, MadeIsSound, AgreesWithItself DEF Object
  <1>6. Sound(p, e.shape, heap, Fault("error", heap))
    BY FaultIsSound DEF MayEnd
  <1>7. LowerSort(e, vs, heap) \in {Made(o, heap), Fault("error", heap)}
    BY <1>2 DEF LowerSort
  <1> QED
    BY <1>5, <1>6, <1>7

LEMMA SliceSound ==
  ASSUME NEW p, NEW heap, IsHeap(p, heap), NEW e, e.op = "slice", IsNode(e, e.args),
         Arg(e, 1).head = "list", Arg(e, 2).head = "int", Arg(e, 3).head = "int",
         NEW vs, Operands(p, e, vs, heap)
  PROVE  Sound(p, e.shape, heap, LowerSlice(e, vs, heap))
  <1> DEFINE xs == heap[vs[1][2]].items
             from == Clamped(vs[2][2], Len(xs))
             to == Clamped(vs[3][2], Len(xs))
             o == Object(e.shape, SubSeq(xs, from + 1, to))
  <1>1. Len(vs) = 3 /\ e.shape = Arg(e, 1)
    BY OperandsAre DEF IsNode, ListSliceExpr, Node, Arg
  <1>0. {1, 2, 3} \subseteq 1..Len(vs) /\ Len(vs) >= 1
    BY <1>1
  <1>2. /\ vs[1][1] = "ref" /\ e.shape.elem \in Scalars \cup {"record"} /\ e.shape.head = "list"
        /\ IsShape(e.shape) /\ xs \in Seq(Elements(p, e.shape))
    <2>1. /\ vs[1][1] = "ref" /\ IsShape(Arg(e, 1)) /\ Arg(e, 1).elem \in Scalars \cup {"record"}
          /\ xs \in Seq(Elements(p, Arg(e, 1)))
      BY <1>0, ListIs
    <2> QED
      BY <1>1, <2>1
  <1>3. IsScalarOf(vs[2], "int") /\ IsScalarOf(vs[3], "int")
    <2>1. IsValue(p, vs[2], Arg(e, 2), heap) /\ IsValue(p, vs[3], Arg(e, 3), heap)
      BY <1>0, OperandsAre
    <2> QED
      BY <2>1, ScalarIn DEF Scalars
  <1>4. vs[2][2] \in Int /\ vs[3][2] \in Int
    BY <1>3, ScalarValueIs
  <1>5. Len(xs) \in Nat /\ \A i \in 1..Len(xs) : xs[i] \in Elements(p, e.shape)
    BY <1>2, LenProperties
  <1>6. from \in 0..Len(xs) /\ to \in 0..Len(xs)
    BY <1>4, <1>5, SMTT(40) DEF Clamped
  <1> HIDE DEF from, to
  <1>7. \A i \in (from + 1)..to : xs[i] \in Elements(p, e.shape)
    BY <1>5, <1>6
  <1>8. SubSeq(xs, from + 1, to) \in Seq(Elements(p, e.shape))
    BY <1>6, <1>7, SubSeqProperties
  <1>9. IsObject(p, o)
    BY <1>2, <1>8, ListOfElements DEF Object
  <1>10. Sound(p, e.shape, heap, Made(o, heap))
    BY <1>2, <1>9, MadeIsSound, AgreesWithItself DEF Object
  <1>11. LowerSlice(e, vs, heap) = Made(o, heap)
    BY <1>2 DEF LowerSlice, from, to
  <1> QED
    BY <1>10, <1>11

(***************************************************************************)
(* Sets                                                                     *)
(***************************************************************************)
LEMMA AddedKeeps ==
  ASSUME NEW S, NEW items \in Seq(S), NEW v \in S
  PROVE  Added(items, v) \in Seq(S)
  BY AppendProperties DEF Added

AddNext(vs, items, n) == Added(items, vs[n])
Adding == INSTANCE Loops WITH Step <- AddNext

LEMMA SetLiteralUnfold ==
  ASSUME NEW e, NEW vs, NEW heap, Len(vs) \in Nat
  PROVE  \E after : /\ Adding!IsLoop(after, vs, <<>>, Len(vs))
                    /\ LowerSetLiteral(e, vs, heap) = Made(Object(e.shape, after[Len(vs)]), heap)
  <1>1. \E after : Adding!IsLoop(after, vs, <<>>, Len(vs))
    BY Adding!LoopExists
  <1> QED
    BY <1>1, Zenon DEF Adding!IsLoop, AddNext, LowerSetLiteral

LEMMA SetLiteralSound ==
  ASSUME NEW p, NEW heap, IsHeap(p, heap), NEW e, e.op = "set", IsShape(e.shape),
         IsNode(e, e.args), VerifySetLiteral(e), NEW vs, Operands(p, e, vs, heap)
  PROVE  Sound(p, e.shape, heap, LowerSetLiteral(e, vs, heap))
  <1> DEFINE S == Elements(p, e.shape)
  <1>1. e.shape.head = "set" /\ e.shape.elem \in Scalars
    BY DEF IsNode, VerifySetLiteral
  <1>2. ElementOf(e.shape) = Scalar(e.shape.elem) /\ ElementOf(e.shape).head = e.shape.elem
    BY <1>1, ScalarIs DEF ElementOf
  <1>3. Len(vs) \in Nat
    BY OperandsAre
  <1>4. \A n \in 1..Len(vs) : vs[n] \in S
    <2> TAKE n \in 1..Len(vs)
    <2>1. IsScalarOf(vs[n], e.shape.elem)
      BY <1>1, OperandsAre, ScalarIn DEF VerifySetLiteral
    <2> QED
      BY <1>1, <1>2, <2>1, ScalarIs DEF Elements, IsItem, IsScalarOf
  <1> HIDE DEF S
  <1>5. PICK after : /\ Adding!IsLoop(after, vs, <<>>, Len(vs))
                     /\ LowerSetLiteral(e, vs, heap) = Made(Object(e.shape, after[Len(vs)]), heap)
    BY <1>3, SetLiteralUnfold
  <1>6. \A items \in Seq(S) : \A n \in 1..Len(vs) : AddNext(vs, items, n) \in Seq(S)
    BY <1>4, AddedKeeps DEF AddNext
  <1>7. <<>> \in Seq(S)
    OBVIOUS
  <1>8. \A n \in 0..Len(vs) : after[n] \in Seq(S)
    BY <1>3, <1>5, <1>6, <1>7, Adding!LoopStays
  <1>9. IsObject(p, Object(e.shape, after[Len(vs)]))
    BY <1>1, <1>3, <1>8, ListOfElements DEF Object, S
  <1> QED
    BY <1>1, <1>5, <1>9, MadeIsSound, AgreesWithItself DEF Object

\* Only a value of the element's type fits into a set.
LEMMA SetElementFits ==
  ASSUME NEW p, NEW heap, IsHeap(p, heap), NEW r \in DOMAIN heap, IsObject(p, heap[r]),
         heap[r].shape.head = "set", NEW s, NEW v, IsValue(p, v, s, heap),
         Fits(v, ElementOf(heap[r].shape), heap)
  PROVE  v \in Elements(p, heap[r].shape)
  <1> DEFINE elem == ElementOf(heap[r].shape)
  <1>1. heap[r].shape.elem \in Scalars
    BY ObjectIs
  <1>2. /\ elem = Scalar(heap[r].shape.elem) /\ elem.head \in Scalars
        /\ elem.head \notin {"list", "map", "set", "union", "fun", "record"}
    BY <1>1, ScalarIs DEF ElementOf
  <1>3. v[1] # "ref"
    <2>1. SUFFICES ASSUME v[1] = "ref" PROVE FALSE
      OBVIOUS
    <2>2. Agrees(heap[v[2]].shape, elem)
      BY <2>1 DEF Fits
    <2>3. s.head \in {"list", "map", "set"}
      <3>1. ASSUME IsScalarOf(v, s.head) PROVE FALSE
        BY <2>1, <3>1, ScalarValueIs
      <3>2. ASSUME IsRecordOf(p, v, s.name) PROVE FALSE
        BY <2>1, <3>2 DEF IsRecordOf, RecordValues
      <3> QED
        BY <2>1, <3>1, <3>2 DEF IsValue, IsItem
    <2>4. IsObject(p, heap[v[2]])
      BY <2>3, RefIn
    <2> QED
      BY <1>2, <2>2, <2>4, ObjectIs, HeadsAgree
  <1>4. v[1] \notin {"record", "variant", "fun"}
    BY <1>2 DEF Fits, RecordOf, UnionOf, FunOf, Scalar, Shape
  <1>5. v[1] = elem.head
    BY <1>3, <1>4 DEF Fits
  <1>6. IsScalarOf(v, s.head)
    <2>1. s.head \notin {"list", "map", "set"}
      BY <1>3 DEF IsValue, IsRefTo, RefV
    <2>2. s.head \notin {"union", "fun"}
      BY <1>4 DEF IsValue
    <2>3. s.head # "record"
      <3>1. ASSUME IsRecordOf(p, v, s.name) PROVE FALSE
        BY <1>4, <3>1 DEF IsRecordOf, RecordValues
      <3> QED
        BY <3>1, RecordIn
    <2> QED
      BY <2>1, <2>2, <2>3 DEF IsValue, IsItem
  <1>7. IsScalarOf(v, elem.head)
    BY <1>5, <1>6 DEF IsScalarOf
  <1> QED
    BY <1>2, <1>7 DEF Elements, IsItem, IsScalarOf

LEMMA SetAddSound ==
  ASSUME NEW p, NEW heap, IsHeap(p, heap), NEW e, e.op = "setadd", IsNode(e, e.args),
         Arg(e, 1).head = "set", NEW vs, Operands(p, e, vs, heap)
  PROVE  Sound(p, e.shape, heap, LowerSetAdd(e, vs, heap, TRUE))
  <1> DEFINE r == vs[1][2]
             o == [heap[r] EXCEPT !.items = Added(@, vs[2])]
             new == [heap EXCEPT ![r].items = Added(@, vs[2])]
  <1>1. Len(vs) = 2 /\ {1, 2} \subseteq 1..Len(vs) /\ e.shape.head = "set"
    <2>1. Len(vs) = 2 /\ e.shape.head = "set"
      BY OperandsAre DEF IsNode, SetAddExpr, Node
    <2> QED
      BY <2>1
  <1>2. IsValue(p, vs[1], Arg(e, 1), heap) /\ IsValue(p, vs[2], Arg(e, 2), heap)
    BY <1>1, OperandsAre
  <1>3. /\ vs[1][1] = "ref" /\ r \in DOMAIN heap /\ vs[1] = RefV(r)
        /\ IsObject(p, heap[r]) /\ heap[r].shape.head = "set"
    BY <1>2, RefIn, HeadsAgree
  <1>4. CASE ~Fits(vs[2], ElementOf(heap[r].shape), heap)
    <2>1. LowerSetAdd(e, vs, heap, TRUE) = Fault("unchecked", heap)
      BY <1>4 DEF LowerSetAdd
    <2> QED
      BY <2>1, FaultIsSound DEF MayEnd
  <1>5. CASE Fits(vs[2], ElementOf(heap[r].shape), heap)
    <2>1. vs[2] \in Elements(p, heap[r].shape)
      BY <1>2, <1>3, <1>5, SetElementFits
    <2>2. /\ IsShape(heap[r].shape) /\ heap[r].shape.elem \in Scalars /\ heap[r].mods \in Nat
          /\ heap[r].items \in Seq(Elements(p, heap[r].shape))
          /\ heap[r] = [shape |-> heap[r].shape, items |-> heap[r].items, mods |-> heap[r].mods]
      BY <1>3, ObjectIs, ElementsIn DEF Objects
    <2>3. Added(heap[r].items, vs[2]) \in Seq(Elements(p, heap[r].shape))
      BY <2>1, <2>2, AddedKeeps
    <2>4. o = [shape |-> heap[r].shape, items |-> Added(heap[r].items, vs[2]), mods |-> heap[r].mods]
      BY <2>2
    <2>5. IsObject(p, o) /\ o.shape = heap[r].shape
      BY <1>3, <2>2, <2>3, <2>4, ListOfElements
    <2>6. /\ heap \in Seq(Objects) /\ Len(heap) \in Nat /\ DOMAIN heap = 1..Len(heap)
          /\ \A i \in 1..Len(heap) : IsObject(p, heap[i])
      BY HeapIs
    <2>7. new = [heap EXCEPT ![r] = o]
      OBVIOUS
    <2> HIDE DEF o, new
    <2>8. o \in Objects
      BY <2>5, ObjectIs
    <2>9. /\ new \in Seq(Objects) /\ Len(new) = Len(heap) /\ DOMAIN new = DOMAIN heap
          /\ new[r] = o /\ \A i \in 1..Len(heap) : i # r => new[i] = heap[i]
      BY <1>3, <2>6, <2>7, <2>8, ExceptSeq
    <2>10. IsHeap(p, new)
      BY <2>5, <2>6, <2>9 DEF IsHeap, Heaps
    <2>11. Grows(heap, new)
      BY <2>5, <2>6, <2>9 DEF Grows
    <2>12. IsRefTo(vs[1], e.shape, new)
      <3>1. Agrees(new[r].shape, e.shape)
        BY <1>1, <1>3, <2>5, <2>9 DEF Agrees
      <3> QED
        BY <1>3, <2>9, <3>1 DEF IsRefTo
    <2>13. LowerSetAdd(e, vs, heap, TRUE) = Got(vs[1], new)
      BY <1>3, <1>5 DEF LowerSetAdd, new
    <2>14. IsValue(p, vs[1], e.shape, new)
      BY <1>1, <2>12 DEF IsValue
    <2> QED
      BY <2>10, <2>11, <2>13, <2>14, GotLaterIsSound
  <1> QED
    BY <1>4, <1>5

LEMMA SetHasSound ==
  ASSUME NEW p, NEW heap, IsHeap(p, heap), NEW e, e.op = "sethas",
         IsNode(e, e.args), Arg(e, 1).head = "set", NEW vs, Operands(p, e, vs, heap)
  PROVE  Sound(p, e.shape, heap, LowerSetHas(vs, heap))
  <1> DEFINE b == vs[2] \in ToSet(heap[vs[1][2]].items)
  <1>1. e.shape = BoolType /\ 1 \in 1..Len(vs)
    BY OperandsAre DEF IsNode, SetHasExpr, OnReceiver
  <1>2. vs[1][1] = "ref"
    BY <1>1, OperandsAre, RefIn
  <1>3. LowerSetHas(vs, heap) = Got(BoolV(b), heap)
    BY <1>2, Zenon DEF LowerSetHas
  <1>4. b \in BOOLEAN
    OBVIOUS
  <1> HIDE DEF b
  <1> QED
    BY <1>1, <1>3, <1>4, TruthSound

(***************************************************************************)
(* Strings                                                                  *)
(***************************************************************************)
LEMMA StringIn ==
  ASSUME NEW p, NEW heap, NEW t \in Seq(Words)
  PROVE  IsValue(p, StringV(t), StringType, heap)
  <1>1. StringType.head = "string" /\ "string" \in Scalars
    BY ScalarIs DEF StringType, Scalars
  <1>2. IsScalarOf(StringV(t), "string")
    BY ScalarsAre
  <1> QED
    BY <1>1, <1>2, ScalarIn

LEMMA SubstringSound ==
  ASSUME NEW p, NEW heap, IsHeap(p, heap), NEW t \in Seq(Words), NEW from \in Int, NEW to \in Int
  PROVE  Sound(p, StringType, heap, Substring(t, from, to, heap))
  <1>1. CASE 0 <= from /\ from <= to /\ to <= Len(t)
    <2>1. \A i \in (from + 1)..to : t[i] \in Words
      BY <1>1, LenProperties
    <2>2. SubSeq(t, from + 1, to) \in Seq(Words)
      BY <2>1, SubSeqProperties
    <2>3. IsValue(p, StringV(SubSeq(t, from + 1, to)), StringType, heap)
      BY <2>2, StringIn
    <2>4. Substring(t, from, to, heap) = Got(StringV(SubSeq(t, from + 1, to)), heap)
      BY <1>1 DEF Substring
    <2> QED
      BY <2>3, <2>4, GotIsSound
  <1>2. CASE ~(0 <= from /\ from <= to /\ to <= Len(t))
    <2>1. Substring(t, from, to, heap) = Fault("error", heap)
      BY <1>2 DEF Substring
    <2> QED
      BY <2>1, FaultIsSound DEF MayEnd
  <1> QED
    BY <1>1, <1>2

StringOps == {"strlen", "strat", "strhas", "substr", "reverse"}

LEMMA StringOperands ==
  ASSUME NEW p, NEW heap, NEW e, e.op \in StringOps, IsNode(e, e.args),
         \A i \in DOMAIN e.args : Arg(e, i).head = Strict[e.op][i],
         NEW vs, Operands(p, e, vs, heap)
  PROVE  /\ Len(vs) = StrNodes[e.op][1] /\ e.shape = StrNodes[e.op][2]
         /\ \A i \in 1..Len(vs) : IsScalarOf(vs[i], Strict[e.op][i])
  <1>1. Len(vs) = StrNodes[e.op][1] /\ e.shape = StrNodes[e.op][2]
    <2>1. e.op \in DOMAIN StrNodes
      BY DEF StringOps, StrNodes
    <2>2. Len(e.args) = StrNodes[e.op][1] /\ e = Node(e.op, e.args, StrNodes[e.op][2])
      BY <2>1 DEF IsNode
    <2>3. Node(e.op, e.args, StrNodes[e.op][2]).shape = StrNodes[e.op][2]
      BY DEF Node
    <2> QED
      BY <2>2, <2>3, OperandsAre
  <1>2. \A i \in 1..StrNodes[e.op][1] : Strict[e.op][i] \in Scalars
    BY SMTT(40) DEF StringOps, StrNodes, Strict, Scalars
  <1> QED
    BY <1>1, <1>2, OperandsAre, ScalarIn

LEMMA StringSound ==
  ASSUME NEW p, NEW heap, IsHeap(p, heap), NEW e, e.op \in StringOps, IsNode(e, e.args),
         \A i \in DOMAIN e.args : Arg(e, i).head = Strict[e.op][i],
         NEW vs, Operands(p, e, vs, heap)
  PROVE  Sound(p, e.shape, heap, LowerString(e, vs, heap, TRUE))
  <1> DEFINE t == vs[1][2]
  <1>1. /\ Len(vs) = StrNodes[e.op][1] /\ e.shape = StrNodes[e.op][2]
        /\ \A i \in 1..Len(vs) : IsScalarOf(vs[i], Strict[e.op][i])
    BY StringOperands
  <1>2. ~ \E i \in DOMAIN vs : vs[i][1] # Strict[e.op][i]
    BY <1>1, OperandsAre, ScalarValueIs
  <1>3. IsScalarOf(vs[1], "string") /\ t \in Seq(Words)
    <2>1. 1 \in 1..StrNodes[e.op][1] /\ Strict[e.op][1] = "string"
      BY DEF StringOps, StrNodes, Strict
    <2> QED
      BY <1>1, <2>1, ScalarValueIs
  <1>4. CASE e.op = "strlen"
    <2>1. e.shape = IntType
      BY <1>1, <1>4 DEF StrNodes
    <2>2. IsValue(p, IntV(Len(t)), IntType, heap)
      BY <1>3, LenProperties, ScalarsAre, ScalarIn, ScalarIs DEF IntType, Scalars
    <2>3. LowerString(e, vs, heap, TRUE) = Got(IntV(Len(t)), heap)
      BY <1>2, <1>4 DEF LowerString
    <2> QED
      BY <2>1, <2>2, <2>3, GotIsSound
  <1>5. CASE e.op = "strat"
    <2>1. e.shape = StringType /\ 2 \in 1..Len(vs) /\ Strict[e.op][2] = "int"
      BY <1>1, <1>5 DEF StrNodes, Strict
    <2>2. vs[2][2] \in Int
      BY <1>1, <2>1, ScalarValueIs
    <2>3. LowerString(e, vs, heap, TRUE) = Substring(t, vs[2][2], vs[2][2] + 1, heap)
      BY <1>2, <1>5 DEF LowerString
    <2>4. vs[2][2] + 1 \in Int
      BY <2>2
    <2> QED
      BY <1>3, <2>1, <2>2, <2>3, <2>4, SubstringSound, ZenonT(60)
  <1>6. CASE e.op = "strhas"
    <2> DEFINE b == \E i \in 0..Len(t) - Len(vs[2][2]) :
                      SubSeq(t, i + 1, i + Len(vs[2][2])) = vs[2][2]
    <2>1. e.shape = BoolType
      BY <1>1, <1>6 DEF StrNodes
    <2>2. LowerString(e, vs, heap, TRUE) = Got(BoolV(b), heap)
      BY <1>2, <1>6, Zenon DEF LowerString
    <2>3. b \in BOOLEAN
      OBVIOUS
    <2> HIDE DEF b
    <2> QED
      BY <2>1, <2>2, <2>3, TruthSound
  <1>7. CASE e.op = "substr"
    <2>1. /\ e.shape = StringType /\ {2, 3} \subseteq 1..Len(vs)
          /\ Strict[e.op][2] = "int" /\ Strict[e.op][3] = "int"
      BY <1>1, <1>7 DEF StrNodes, Strict
    <2>2. vs[2][2] \in Int /\ vs[3][2] \in Int
      BY <1>1, <2>1, ScalarValueIs
    <2>3. LowerString(e, vs, heap, TRUE) = Substring(t, vs[2][2], vs[3][2], heap)
      BY <1>2, <1>7 DEF LowerString
    <2> QED
      BY <1>3, <2>1, <2>2, <2>3, SubstringSound, ZenonT(60)
  <1>8. CASE e.op = "reverse"
    <2>1. LowerString(e, vs, heap, TRUE) = Fault("builder", heap)
      BY <1>2, <1>8, SMTT(40) DEF LowerString
    <2> QED
      BY <2>1, FaultIsSound DEF MayEnd
  <1> QED
    BY <1>4, <1>5, <1>6, <1>7, <1>8 DEF StringOps

JoinNext(of, t, n) == t \o (IF n = 1 THEN <<>> ELSE of[2]) \o of[1][n][2]
Gluing == INSTANCE Loops WITH Step <- JoinNext

LEMMA JoinUnfold ==
  ASSUME NEW vs, NEW heap, vs[1][1] = "ref", vs[2][1] = "string",
         heap[vs[1][2]].shape.elem = "string", Len(heap[vs[1][2]].items) \in Nat
  PROVE  LET xs == heap[vs[1][2]].items
         IN \E joined : /\ Gluing!IsLoop(joined, <<xs, vs[2][2]>>, <<>>, Len(xs))
                        /\ LowerJoin(vs, heap) = Got(StringV(joined[Len(xs)]), heap)
  <1> DEFINE xs == heap[vs[1][2]].items
  <1>1. \E joined : Gluing!IsLoop(joined, <<xs, vs[2][2]>>, <<>>, Len(xs))
    BY Gluing!LoopExists
  <1> QED
    BY <1>1, ZenonT(60) DEF Gluing!IsLoop, JoinNext, LowerJoin

LEMMA JoinSound ==
  ASSUME NEW p, NEW heap, IsHeap(p, heap), NEW e, e.op = "join", IsNode(e, e.args),
         \A i \in DOMAIN e.args : Arg(e, i).head = Strict[e.op][i],
         NEW vs, Operands(p, e, vs, heap)
  PROVE  Sound(p, e.shape, heap, LowerJoin(vs, heap))
  <1> DEFINE o == heap[vs[1][2]]
             xs == o.items
  <1>1. Len(vs) = 2 /\ e.shape = StringType
    BY OperandsAre DEF IsNode, StrNodes, Node
  <1>2. {1, 2} \subseteq 1..Len(vs) /\ Strict["join"][1] = "list" /\ Strict["join"][2] = "string"
    BY <1>1 DEF Strict
  <1>3. Arg(e, 1).head = "list" /\ Arg(e, 2).head = "string"
    BY <1>2, OperandsAre
  <1>4. vs[1][1] = "ref" /\ o.shape = Arg(e, 1) /\ xs \in Seq(Elements(p, Arg(e, 1)))
    BY <1>1, <1>3, ListIs, SMTT(40)
  <1>5. IsScalarOf(vs[2], "string")
    BY <1>2, <1>3, OperandsAre, ScalarIn DEF Scalars
  <1>6. vs[2][1] = "string" /\ vs[2][2] \in Seq(Words)
    BY <1>5, ScalarValueIs
  <1>7. CASE o.shape.elem # "string"
    <2>1. LowerJoin(vs, heap) = Fault("element", heap)
      BY <1>4, <1>6, <1>7 DEF LowerJoin
    <2> QED
      BY <2>1, FaultIsSound, SMTT(40) DEF MayEnd
  <1>8. CASE o.shape.elem = "string"
    <2>1. ElementOf(Arg(e, 1)) = StringType /\ StringType.head = "string"
      BY <1>3, <1>4, <1>8, ScalarIs DEF ElementOf, StringType, Scalars
    <2>2. Len(xs) \in Nat /\ \A n \in 1..Len(xs) : xs[n] \in Elements(p, Arg(e, 1))
      BY <1>4, LenProperties
    <2>3. \A n \in 1..Len(xs) : xs[n][2] \in Seq(Words)
      <3> TAKE n \in 1..Len(xs)
      <3>1. IsScalarOf(xs[n], "string")
        BY <2>1, <2>2 DEF Elements, IsItem
      <3> QED
        BY <3>1, ScalarValueIs
    <2>4. PICK joined : /\ Gluing!IsLoop(joined, <<xs, vs[2][2]>>, <<>>, Len(xs))
                        /\ LowerJoin(vs, heap) = Got(StringV(joined[Len(xs)]), heap)
      BY <1>4, <1>6, <1>8, <2>2, JoinUnfold
    <2>5. <<>> \in Seq(Words)
      OBVIOUS
    <2>6. \A t \in Seq(Words) : \A n \in 1..Len(xs) :
            JoinNext(<<xs, vs[2][2]>>, t, n) \in Seq(Words)
      BY <1>6, <2>3, <2>5, ConcatProperties DEF JoinNext
    <2>7. \A n \in 0..Len(xs) : joined[n] \in Seq(Words)
      <3> DEFINE of == <<xs, vs[2][2]>>
                 n == Len(xs)
      <3>1. n \in Nat /\ Gluing!IsLoop(joined, of, <<>>, n)
        BY <2>2, <2>4
      <3>2. \A t \in Seq(Words) : \A i \in 1..n : JoinNext(of, t, i) \in Seq(Words)
        BY <2>6
      <3> HIDE DEF of, n
      <3>3. \A i \in 0..n : joined[i] \in Seq(Words)
        BY <3>1, <3>2, <2>5, Gluing!LoopStays
      <3> QED
        BY <3>3 DEF n
    <2>8. IsValue(p, StringV(joined[Len(xs)]), StringType, heap)
      BY <2>2, <2>7, StringIn
    <2> QED
      BY <1>1, <2>4, <2>8, GotIsSound
  <1> QED
    BY <1>7, <1>8

(***************************************************************************)
(* Records and variants                                                     *)
(***************************************************************************)
\* The records of a verified program: their fields are scalars.
LEMMA FieldsAre ==
  ASSUME NEW p, p.records \in Seq(RecordDecls), VerifyRecords(p), NEW r, Named(p.records, r)
  PROVE  /\ Len(Decl(p.records, r).fields) \in Nat
         /\ DOMAIN Decl(p.records, r).fields = 1..Len(Decl(p.records, r).fields)
         /\ \A i \in DOMAIN Decl(p.records, r).fields : Decl(p.records, r).fields[i].shape.head \in Scalars
  <1>1. PICK i \in DOMAIN p.records : Decl(p.records, r) = p.records[i]
    BY DEF Named, Decl
  <1>2. p.records[i] \in RecordDecls
    BY LenProperties
  <1>3. p.records[i].fields \in Seq([name : Words, shape : Shapes])
    BY <1>2 DEF RecordDecls
  <1>4. Len(p.records[i].fields) \in Nat /\ DOMAIN p.records[i].fields = 1..Len(p.records[i].fields)
    BY <1>3, LenProperties
  <1>5. \A j \in DOMAIN p.records[i].fields : p.records[i].fields[j].shape \in {Scalar(h) : h \in Scalars}
    BY DEF VerifyRecords
  <1> QED
    BY <1>1, <1>4, <1>5, ScalarIs

LEMMA RecordLitSound ==
  ASSUME NEW p, p.records \in Seq(RecordDecls), VerifyRecords(p),
         NEW heap, IsHeap(p, heap), NEW c, c.prog = p, NEW e, e.op = "record",
         IsShape(e.shape), IsNode(e, e.args), VerifyRecordLit(c, e), NEW vs, Operands(p, e, vs, heap)
  PROVE  Sound(p, e.shape, heap, LowerRecordLit(e, vs, heap))
  <1> DEFINE fields == Decl(p.records, e.shape.name).fields
             v == <<"record", e.shape.name, vs>>
  <1>1. /\ Named(p.records, e.shape.name) /\ Len(e.args) = Len(fields)
        /\ \A i \in DOMAIN fields : Arg(e, i).head = fields[i].shape.head
    BY DEF VerifyRecordLit
  <1>2. /\ Len(vs) \in Nat /\ Len(vs) = Len(fields)
        /\ DOMAIN fields = 1..Len(vs) /\ DOMAIN vs = 1..Len(vs)
        /\ \A i \in 1..Len(vs) : fields[i].shape.head \in Scalars
    <2>1. DOMAIN fields = 1..Len(fields) /\ \A i \in DOMAIN fields : fields[i].shape.head \in Scalars
      BY <1>1, FieldsAre
    <2>2. Len(vs) \in Nat /\ Len(vs) = Len(e.args) /\ DOMAIN vs = 1..Len(vs)
      BY OperandsAre
    <2> HIDE DEF fields
    <2> QED
      BY <1>1, <2>1, <2>2
  <1>3. \A i \in 1..Len(vs) : IsScalarOf(vs[i], fields[i].shape.head)
    BY <1>1, <1>2, OperandsAre, ScalarIn
  <1>4. PICK A : vs \in Seq(A)
    BY DEF Operands, IsSeq
  <1>5. vs \in Seq(ScalarValues)
    BY <1>2, <1>3, <1>4, SeqOfThose DEF IsScalarOf
  <1>6. e.shape.head = "record" /\ e.shape.name \in Words
    BY DEF IsNode, RecordLit, RecordOf, Shape, IsShape, Shapes
  <1>7. v \in RecordValues /\ v[2] = e.shape.name /\ v[3] = vs
    BY <1>5, <1>6, SMTT(40) DEF RecordValues
  <1>8. IsRecordOf(p, v, e.shape.name)
    BY <1>1, <1>2, <1>3, <1>7 DEF IsRecordOf, IsScalarOf
  <1>9. IsValue(p, v, e.shape, heap)
    BY <1>6, <1>8, RecordIn, SMTT(40)
  <1> QED
    BY <1>9, GotIsSound DEF LowerRecordLit

LEMMA FieldAccessSound ==
  ASSUME NEW cx, NEW p, cx.prog = p, p.records \in Seq(RecordDecls), VerifyRecords(p),
         NEW heap, IsHeap(p, heap), NEW c, c.prog = p, NEW e, e.op = "field",
         IsNode(e, e.args), VerifyFieldAccess(c, e), NEW vs, Operands(p, e, vs, heap)
  PROVE  Sound(p, e.shape, heap, LowerFieldAccess(cx, e, vs, heap))
  <1> DEFINE fields == Decl(p.records, e.record).fields
             at == CHOOSE i \in DOMAIN fields : fields[i].name = e.field
  <1>1. 1 \in 1..Len(vs)
    BY OperandsAre DEF IsNode, FieldAccess
  <1>2. /\ Arg(e, 1).head = "record" /\ Arg(e, 1).name = e.record
        /\ Named(p.records, e.record) /\ Named(fields, e.field)
        /\ Decl(fields, e.field).shape = e.shape
    BY DEF VerifyFieldAccess
  <1>3. IsRecordOf(p, vs[1], e.record)
    BY <1>1, <1>2, OperandsAre, RecordIn
  <1>4. /\ vs[1][1] = "record" /\ vs[1][2] = e.record /\ vs[1][3] \in Seq(ScalarValues)
        /\ Len(vs[1][3]) = Len(fields)
        /\ \A i \in DOMAIN fields : vs[1][3][i][1] = fields[i].shape.head
    BY <1>3, SMTT(40) DEF IsRecordOf, RecordValues
  <1>5. at \in DOMAIN fields /\ fields[at].shape = e.shape
    BY <1>2, ZenonT(60) DEF Named, Decl
  <1>6. /\ DOMAIN fields = 1..Len(fields)
        /\ \A i \in DOMAIN fields : fields[i].shape.head \in Scalars
    BY <1>2, FieldsAre, ZenonT(60)
  <1>7. IsScalarOf(vs[1][3][at], e.shape.head) /\ e.shape.head \in Scalars
    BY <1>4, <1>5, <1>6, LenProperties, ZenonT(60) DEF IsScalarOf
  <1>8. LowerFieldAccess(cx, e, vs, heap) = Got(vs[1][3][at], heap)
    BY <1>2, <1>4, SMTT(40) DEF LowerFieldAccess
  <1>9. IsValue(p, vs[1][3][at], e.shape, heap)
    BY <1>7, ScalarIn, ZenonT(60)
  <1> QED
    BY <1>8, <1>9, GotIsSound, ZenonT(60)

LEMMA VariantLitSound ==
  ASSUME NEW cx, NEW p, NEW heap, IsHeap(p, heap), NEW e, e.op = "variant", IsNode(e, e.args),
         NEW vs
  PROVE  Sound(p, e.shape, heap, LowerVariantLit(cx, e, vs, heap))
  <1>1. e.shape.head = "union"
    BY DEF IsNode, VariantLit, UnionOf, Shape
  <1>2. IsValue(p, <<"variant", e.variant, vs, e.shape.name>>, e.shape, heap)
    BY <1>1 DEF IsValue
  <1>3. Sound(p, e.shape, heap, Got(<<"variant", e.variant, vs, e.shape.name>>, heap))
    BY <1>2, GotIsSound
  <1>4. Sound(p, e.shape, heap, Fault("variant", heap))
    BY FaultIsSound DEF MayEnd
  <1> QED
    BY <1>3, <1>4, Zenon DEF LowerVariantLit

(***************************************************************************)
(* Negations                                                                *)
(***************************************************************************)
LEMMA NotSound ==
  ASSUME NEW p, NEW cx, NEW heap, IsHeap(p, heap), NEW e, e.op = "not", IsNode(e, e.args),
         Arg(e, 1).head = "bool", NEW vs, Operands(p, e, vs, heap)
  PROVE  Sound(p, e.shape, heap, Apply(cx, e, vs, heap))
  <1>1. 1 \in 1..Len(vs) /\ e.shape = BoolType
    BY OperandsAre DEF IsNode, NotExpr, Node
  <1>2. IsScalarOf(vs[1], "bool")
    BY <1>1, OperandsAre, ScalarIn DEF Scalars
  <1>3. vs[1][1] = "bool" /\ (~vs[1][2]) \in BOOLEAN
    BY <1>2, ScalarValueIs
  <1>4. Apply(cx, e, vs, heap) = Got(BoolV(~vs[1][2]), heap)
    BY <1>3, Zenon DEF Apply
  <1> QED
    BY <1>1, <1>3, <1>4, TruthSound, Zenon

LEMMA NegSound ==
  ASSUME NEW p, NEW cx, NEW heap, IsHeap(p, heap), NEW e, e.op = "neg", IsNode(e, e.args),
         Arg(e, 1).head = "int", NEW vs, Operands(p, e, vs, heap)
  PROVE  Sound(p, e.shape, heap, Apply(cx, e, vs, heap))
  <1>1. 1 \in 1..Len(vs) /\ e.shape = IntType
    BY OperandsAre DEF IsNode, NegExpr, Node
  <1>2. IsScalarOf(vs[1], "int")
    BY <1>1, OperandsAre, ScalarIn DEF Scalars
  <1>3. vs[1][1] = "int" /\ -vs[1][2] \in Int
    BY <1>2, ScalarValueIs
  <1>4. Apply(cx, e, vs, heap) = Got(IntV(-vs[1][2]), heap)
    BY <1>3 DEF Apply
  <1>5. IsValue(p, IntV(-vs[1][2]), IntType, heap)
    BY <1>3, ScalarsAre, ScalarIn, ScalarIs DEF IntType, Scalars
  <1> QED
    BY <1>1, <1>4, <1>5, GotIsSound

(***************************************************************************)
(* What is asked of each node, and which of the lemmas above it falls under. *)
(***************************************************************************)
StrictOps ==
  {"not", "neg", "strlen", "strat", "strhas", "substr", "reverse", "join", "sort", "slice",
   "setlen", "setlist", "omaplen", "vfield", "readfile", "lines", "csv"}

LEMMA StrictIs ==
  DOMAIN Strict = StrictOps
  BY DEF Strict, StrictOps

LEMMA VerifyNodeIs ==
  ASSUME NEW c, NEW e, VerifyNode(c, e)
  PROVE  /\ e.op \in StrictOps => \A i \in DOMAIN e.args : Arg(e, i).head = Strict[e.op][i]
         /\ e.op \in {"var"} => VerifyVarRef(c, e)
         /\ e.op = "unionvar" => VerifyUnionVarRef(c, e)
         /\ e.op = "list" => VerifyListLit(c, e)
         /\ e.op \in {"index", "len"} => VerifyOfList(c, e)
         /\ e.op = "append" => VerifyAppend(e)
         /\ e.op = "map" => VerifyMapLit(c, e)
         /\ e.op \in {"get", "has", "maplen", "keys"} => VerifyOfMap(c, e)
         /\ e.op = "set" => VerifySetLiteral(e)
         /\ e.op = "setadd" => VerifyOfSet(e, e.shape)
         /\ e.op = "sethas" => VerifyOfSet(e, e.of)
         /\ e.op = "record" => VerifyRecordLit(c, e)
         /\ e.op = "field" => VerifyFieldAccess(c, e)
         /\ e.op = "variant" => VerifyVariantLit(c, e)
         /\ e.op \in Binary => VerifyBinary(e)
  BY StrictIs, SMTT(40) DEF VerifyNode, StrictOps, Binary, HigherOrder

LEMMA ApplyIs ==
  ASSUME NEW cx, NEW e, NEW vs, NEW heap
  PROVE  /\ e.op = "list" => Apply(cx, e, vs, heap) = LowerListLit(e, vs, heap)
         /\ e.op = "append" => Apply(cx, e, vs, heap) = LowerAppend(e, vs, heap)
         /\ e.op = "index" => Apply(cx, e, vs, heap) = LowerIndex(e, vs, heap, cx.jvm)
         /\ e.op \in {"len", "maplen", "setlen"} => Apply(cx, e, vs, heap) = LowerLen(e, vs, heap)
         /\ e.op = "map" => Apply(cx, e, vs, heap) = LowerMapLit(e, vs, heap)
         /\ e.op = "keys" => Apply(cx, e, vs, heap) = LowerMapKeys(e, vs, heap, cx.jvm)
         /\ e.op = "sort" => Apply(cx, e, vs, heap) = LowerSort(e, vs, heap)
         /\ e.op = "slice" => Apply(cx, e, vs, heap) = LowerSlice(e, vs, heap)
         /\ e.op = "set" => Apply(cx, e, vs, heap) = LowerSetLiteral(e, vs, heap)
         /\ e.op = "setadd" => Apply(cx, e, vs, heap) = LowerSetAdd(e, vs, heap, cx.jvm)
         /\ e.op = "sethas" => Apply(cx, e, vs, heap) = LowerSetHas(vs, heap)
         /\ e.op \in StringOps => Apply(cx, e, vs, heap) = LowerString(e, vs, heap, cx.jvm)
         /\ e.op = "join" => Apply(cx, e, vs, heap) = LowerJoin(vs, heap)
         /\ e.op = "get" => Apply(cx, e, vs, heap) = LowerMapGet(e, vs, heap, cx.jvm)
         /\ e.op = "has" => Apply(cx, e, vs, heap) = LowerMapHas(e, vs, heap)
         /\ e.op = "record" => Apply(cx, e, vs, heap) = LowerRecordLit(e, vs, heap)
         /\ e.op = "field" => Apply(cx, e, vs, heap) = LowerFieldAccess(cx, e, vs, heap)
         /\ e.op = "variant" => Apply(cx, e, vs, heap) = LowerVariantLit(cx, e, vs, heap)
         /\ e.op = "vfield" => Apply(cx, e, vs, heap) = LowerVariantFieldAccess(e, vs, heap, cx.jvm)
         /\ e.op \in Binary \ {"and", "or"} => Apply(cx, e, vs, heap) = LowerBinary(e, vs, heap)
  BY DEF Apply, StringOps, Binary

\* The nodes whose operands are evaluated first, and then they.
Applied ==
  (Binary \ {"and", "or"}) \cup StringOps \cup
  {"not", "neg", "list", "append", "index", "len", "maplen", "setlen", "map", "get", "has", "keys",
   "sort", "slice", "set", "setadd", "sethas", "join", "record", "field", "variant", "vfield"}

LEMMA ApplySound ==
  ASSUME NEW cx, cx.jvm = TRUE, NEW p, cx.prog = p, p.records \in Seq(RecordDecls), VerifyRecords(p),
         NEW c, c.prog = p, NEW heap, IsHeap(p, heap), NEW e, e.op \in Applied,
         IsShape(e.shape), IsNode(e, e.args), VerifyNode(c, e), NEW vs, Operands(p, e, vs, heap)
  PROVE  Sound(p, e.shape, heap, Apply(cx, e, vs, heap))
  <1>1. CASE e.op \in Binary \ {"and", "or"}
    BY <1>1, VerifyNodeIs, ApplyIs, BinarySound
  <1>2. CASE e.op \in {"list", "append", "index"}
    <2>1. CASE e.op = "list"
      BY <2>1, VerifyNodeIs, ApplyIs, ListLitSound
    <2>2. CASE e.op = "append"
      BY <2>2, VerifyNodeIs, ApplyIs, AppendSound
    <2>3. CASE e.op = "index"
      <3>1. VerifyOfList(c, e)
        BY <2>3, VerifyNodeIs
      <3>2. Apply(cx, e, vs, heap) = LowerIndex(e, vs, heap, TRUE)
        BY <2>3, ApplyIs
      <3> QED
        BY <2>3, <3>1, <3>2, IndexSound
    <2> QED
      BY <1>2, <2>1, <2>2, <2>3
  <1>3. CASE e.op \in {"map", "get", "has", "keys"}
    <2>1. CASE e.op = "map"
      BY <2>1, VerifyNodeIs, ApplyIs, MapLitSound
    <2>2. CASE e.op = "get"
      <3>1. VerifyOfMap(c, e)
        BY <2>2, VerifyNodeIs
      <3>2. Apply(cx, e, vs, heap) = LowerMapGet(e, vs, heap, TRUE)
        BY <2>2, ApplyIs, ZenonT(60)
      <3> QED
        BY <2>2, <3>1, <3>2, MapGetSound
    <2>3. CASE e.op = "has"
      BY <2>3, VerifyNodeIs, ApplyIs, MapHasSound
    <2>4. CASE e.op = "keys"
      <3>1. VerifyOfMap(c, e)
        BY <2>4, VerifyNodeIs
      <3>2. Apply(cx, e, vs, heap) = LowerMapKeys(e, vs, heap, TRUE)
        BY <2>4, ApplyIs
      <3> QED
        BY <2>4, <3>1, <3>2, MapKeysSound
    <2> QED
      BY <1>3, <2>1, <2>2, <2>3, <2>4
  <1>4. CASE e.op \in {"len", "maplen", "setlen"}
    <2>1. Arg(e, 1).head \in {"list", "map", "set"}
      <3>1. CASE e.op = "len"
        BY <3>1, VerifyNodeIs DEF VerifyOfList
      <3>2. CASE e.op = "maplen"
        BY <3>2, VerifyNodeIs DEF VerifyOfMap
      <3>3. CASE e.op = "setlen"
        <4>1. 1 \in DOMAIN e.args
          BY <3>3 DEF IsNode, SetLenExpr, Node
        <4> QED
          BY <3>3, <4>1, VerifyNodeIs DEF StrictOps, Strict
      <3> QED
        BY <1>4, <3>1, <3>2, <3>3
    <2> QED
      BY <1>4, <2>1, ApplyIs, LenSound
  <1>5. CASE e.op \in {"set", "setadd", "sethas"}
    <2>1. CASE e.op = "set"
      BY <2>1, VerifyNodeIs, ApplyIs, SetLiteralSound
    <2>2. CASE e.op = "setadd"
      <3>1. Arg(e, 1).head = "set"
        BY <2>2, VerifyNodeIs DEF VerifyOfSet
      <3>2. Apply(cx, e, vs, heap) = LowerSetAdd(e, vs, heap, TRUE)
        BY <2>2, ApplyIs, ZenonT(60)
      <3> QED
        BY <2>2, <3>1, <3>2, SetAddSound
    <2>3. CASE e.op = "sethas"
      BY <2>3, VerifyNodeIs, ApplyIs, SetHasSound DEF VerifyOfSet
    <2> QED
      BY <1>5, <2>1, <2>2, <2>3
  <1>6. CASE e.op \in StringOps
    <2>1. \A i \in DOMAIN e.args : Arg(e, i).head = Strict[e.op][i]
      BY <1>6, VerifyNodeIs DEF StrictOps, StringOps
    <2>2. Apply(cx, e, vs, heap) = LowerString(e, vs, heap, TRUE)
      BY <1>6, ApplyIs, ZenonT(60)
    <2>3. Sound(p, e.shape, heap, LowerString(e, vs, heap, TRUE))
      BY <1>6, <2>1, StringSound
    <2> QED
      BY <2>2, <2>3
  <1>7. CASE e.op = "join"
    BY <1>7, VerifyNodeIs, ApplyIs, JoinSound DEF StrictOps
  <1>8. CASE e.op = "sort"
    <2>1. Arg(e, 1).head = "list"
      <3>1. 1 \in DOMAIN e.args
        BY <1>8 DEF IsNode, ListSortAscExpr, Node
      <3> QED
        BY <1>8, <3>1, VerifyNodeIs DEF StrictOps, Strict
    <2> QED
      BY <1>8, <2>1, ApplyIs, SortSound
  <1>9. CASE e.op = "slice"
    <2>1. Arg(e, 1).head = "list" /\ Arg(e, 2).head = "int" /\ Arg(e, 3).head = "int"
      <3>1. {1, 2, 3} \subseteq DOMAIN e.args
        BY <1>9 DEF IsNode, ListSliceExpr, Node
      <3> QED
        BY <1>9, <3>1, VerifyNodeIs DEF StrictOps, Strict
    <2> QED
      BY <1>9, <2>1, ApplyIs, SliceSound
  <1>10. CASE e.op = "record"
    BY <1>10, VerifyNodeIs, ApplyIs, RecordLitSound
  <1>11. CASE e.op = "field"
    BY <1>11, VerifyNodeIs, ApplyIs, FieldAccessSound
  <1>12. CASE e.op = "variant"
    BY <1>12, ApplyIs, VariantLitSound
  <1>13. CASE e.op = "vfield"
    BY <1>13, ApplyIs, FaultIsSound DEF LowerVariantFieldAccess, MayEnd
  <1>14. CASE e.op = "not"
    <2>1. Arg(e, 1).head = "bool"
      <3>1. 1 \in DOMAIN e.args
        BY <1>14 DEF IsNode, NotExpr, Node
      <3> QED
        BY <1>14, <3>1, VerifyNodeIs DEF StrictOps, Strict
    <2> QED
      BY <1>14, <2>1, NotSound
  <1>15. CASE e.op = "neg"
    <2>1. Arg(e, 1).head = "int"
      <3>1. 1 \in DOMAIN e.args
        BY <1>15 DEF IsNode, NegExpr, Node
      <3> QED
        BY <1>15, <3>1, VerifyNodeIs DEF StrictOps, Strict
    <2> QED
      BY <1>15, <2>1, NegSound
  <1> QED
    BY <1>1, <1>2, <1>3, <1>4, <1>5, <1>6, <1>7, <1>8, <1>9, <1>10, <1>11, <1>12, <1>13, <1>14,
       <1>15 DEF Applied

(***************************************************************************)
(* Variables and literals                                                   *)
(***************************************************************************)
LEMMA ValueAgrees ==
  ASSUME NEW p, NEW heap, NEW s, IsShape(s), NEW t, IsShape(t), Agrees(s, t),
         NEW v, MayBe(p, v, s, heap)
  PROVE  MayBe(p, v, t, heap)
  <1>1. s.head = t.head
    BY HeadsAgree
  <1>2. CASE s.head \notin Loose
    BY <1>2, SameShape
  <1>3. CASE s.head \in Loose
    <2>1. s # IntType
      BY <1>3, ScalarIs DEF IntType, Scalars, Loose
    <2>2. IsValue(p, v, s, heap)
      BY <2>1 DEF MayBe
    <2>3. s.head # "record"
      BY <1>3 DEF Loose
    <2>4. CASE s.head = "set"
      <3>1. \A r \in DOMAIN heap : Agrees(heap[r].shape, s) => Agrees(heap[r].shape, t)
        BY <1>1, <2>4 DEF Agrees
      <3> QED
        BY <1>1, <2>2, <2>4, <3>1 DEF IsValue, IsRefTo, MayBe
    <2>5. CASE s.head \in {"union", "fun"}
      BY <1>1, <2>2, <2>5 DEF IsValue, MayBe
    <2>6. CASE s.head = "omap"
      BY <1>1, <2>2, <2>6 DEF IsValue, IsItem, MayBe
    <2> QED
      BY <1>3, <2>4, <2>5, <2>6 DEF Loose
  <1> QED
    BY <1>2, <1>3

LEMMA ReadVarSound ==
  ASSUME NEW cx, NEW c, NEW heap, IsHeap(cx.prog, heap), Sees(cx, c, heap),
         NEW x, Bound(c, x), NEW s, IsShape(s), Agrees(Lookup(c, x).shape, s)
  PROVE  Sound(cx.prog, s, heap, ReadVar(cx, x, heap))
  <1>1. x \in UNION {DOMAIN c.scopes[i] : i \in DOMAIN c.scopes}
    BY DEF Bound
  <1>2. /\ IsShape(Lookup(c, x).shape)
        /\ IF Bound(cx, x)
             THEN Lookup(cx, x).v = Unset \/ MayBe(cx.prog, Lookup(cx, x).v, Lookup(c, x).shape, heap)
             ELSE IsEnvName(cx, x)
    BY <1>1 DEF Sees
  <1>3. CASE ~Bound(cx, x)
    BY <1>2, <1>3, FaultIsSound DEF ReadVar, MayEnd
  <1>4. CASE Bound(cx, x) /\ Lookup(cx, x).v = Unset
    BY <1>4, FaultIsSound DEF ReadVar, MayEnd
  <1>5. CASE Bound(cx, x) /\ Lookup(cx, x).v # Unset
    <2>1. MayBe(cx.prog, Lookup(cx, x).v, s, heap)
      BY <1>2, <1>5, ValueAgrees
    <2>2. ReadVar(cx, x, heap) = Got(Lookup(cx, x).v, heap)
      BY <1>5 DEF ReadVar
    <2> QED
      BY <2>1, <2>2, GrowsSame DEF Sound, Got, MayEnd
  <1> QED
    BY <1>3, <1>4, <1>5

LEMMA FunLitSound ==
  ASSUME NEW p, NEW cx, NEW heap, IsHeap(p, heap), NEW e, e.op = "funlit", IsLeaf(e)
  PROVE  Sound(p, e.shape, heap, LowerFunLit(cx, e, heap))
  <1>1. e.shape.head = "fun"
    BY DEF IsLeaf, FunLit, FunOf, Scalar, Shape
  <1>2. \A values : IsValue(p, FunV(e.func, values, e.shape.sig), e.shape, heap)
    BY <1>1, SMTT(40) DEF IsValue, FunV
  <1>3. \/ LowerFunLit(cx, e, heap) \in {Fault("lambda", heap), Fault("closure", heap)}
        \/ \E values : LowerFunLit(cx, e, heap) = Got(FunV(e.func, values, e.shape.sig), heap)
    BY ZenonT(60) DEF LowerFunLit
  <1> QED
    BY <1>2, <1>3, FaultIsSound, GotIsSound DEF MayEnd

Leaves == {"int", "string", "bool", "var", "unionvar", "funlit"}

LEMMA LeafSound ==
  ASSUME NEW cx, NEW c, NEW heap, IsHeap(cx.prog, heap), Sees(cx, c, heap),
         NEW e, e.op \in Leaves, IsLeaf(e), IsShape(e.shape), VerifyNode(c, e), NEW ev
  PROVE  Sound(cx.prog, e.shape, heap, EvalNode(cx, ev, e, heap))
  <1>1. CASE e.op = "int"
    <2>1. e.n \in Int /\ e.shape = IntType
      BY <1>1 DEF IsLeaf, IntLit
    <2>2. IsValue(cx.prog, IntV(e.n), IntType, heap)
      BY <2>1, ScalarsAre, ScalarIn, ScalarIs DEF IntType, Scalars
    <2>3. EvalNode(cx, ev, e, heap) = Got(IntV(e.n), heap)
      BY <1>1 DEF EvalNode
    <2> QED
      BY <2>1, <2>2, <2>3, GotIsSound
  <1>2. CASE e.op = "string"
    <2>1. e.t \in Seq(Words) /\ e.shape = StringType
      BY <1>2 DEF IsLeaf, StringLit
    <2>2. EvalNode(cx, ev, e, heap) = Got(StringV(e.t), heap)
      BY <1>2 DEF EvalNode
    <2> QED
      BY <2>1, <2>2, StringIn, GotIsSound
  <1>3. CASE e.op = "bool"
    <2>1. e.b \in BOOLEAN /\ e.shape = BoolType
      BY <1>3 DEF IsLeaf, BoolLit
    <2>2. EvalNode(cx, ev, e, heap) = Got(BoolV(e.b), heap)
      BY <1>3, Zenon DEF EvalNode
    <2> QED
      BY <2>1, <2>2, TruthSound, Zenon
  <1>4. CASE e.op \in {"var", "unionvar"}
    <2>1. Bound(c, e.x) /\ Agrees(Lookup(c, e.x).shape, e.shape)
      BY <1>4, VerifyNodeIs, AgreesWithItself DEF VerifyVarRef, VerifyUnionVarRef
    <2>2. EvalNode(cx, ev, e, heap) = ReadVar(cx, e.x, heap)
      BY <1>4 DEF EvalNode
    <2> QED
      BY <2>1, <2>2, ReadVarSound
  <1>5. CASE e.op = "funlit"
    <2>1. EvalNode(cx, ev, e, heap) = LowerFunLit(cx, e, heap)
      BY <1>5 DEF EvalNode
    <2> QED
      BY <1>5, <2>1, FunLitSound
  <1> QED
    BY <1>1, <1>2, <1>3, <1>4, <1>5 DEF Leaves

(***************************************************************************)
(* Operands one after the other                                             *)
(***************************************************************************)
\* Evaluations that are sound for this expression wherever the locals are seen.
SoundFor(cx, c, ev, e) ==
  \A heap : IsHeap(cx.prog, heap) /\ Sees(cx, c, heap) => Sound(cx.prog, e.shape, heap, ev[<<e, heap>>])

LEMMA SoundLater ==
  ASSUME NEW p, NEW s, NEW a, IsHeap(p, a), NEW b, IsHeap(p, b), Grows(a, b),
         NEW r, Sound(p, s, b, r)
  PROVE  Sound(p, s, a, r)
  BY GrowsOn DEF Sound

LEMMA NotOkIsSound ==
  ASSUME NEW p, NEW s, NEW t, NEW heap, NEW a, Sound(p, s, heap, a), a.r # "ok"
  PROVE  Sound(p, t, heap, a)
  BY DEF Sound

TurnNext(of, a, i) ==
  IF a.r # "ok" THEN a
  ELSE LET b == of[1][<<of[2][i], a.heap>>]
       IN IF b.r = "ok" THEN Got(Append(a.v, b.v), b.heap) ELSE b
Turning == INSTANCE Loops WITH Step <- TurnNext

LEMMA InTurnUnfold ==
  ASSUME NEW ev, NEW es, NEW heap, Len(es) \in Nat
  PROVE  \E a : Turning!IsLoop(a, <<ev, es>>, Got(<<>>, heap), Len(es)) /\ InTurn(ev, es, heap) = a[Len(es)]
  <1>1. \E a : Turning!IsLoop(a, <<ev, es>>, Got(<<>>, heap), Len(es))
    BY Turning!LoopExists
  <1> QED
    BY <1>1 DEF Turning!IsLoop, TurnNext, InTurn

\* The first n operands are done, or one of them has ended it.
TurnIs(p, es, n, heap, a) ==
  /\ IsHeap(p, a.heap) /\ Grows(heap, a.heap) /\ a.r \in MayEnd
  /\ a.r = "ok" => /\ IsSeq(a.v) /\ Len(a.v) = n
                   /\ \A i \in 1..n : MayBe(p, a.v[i], es[i].shape, a.heap)

LEMMA TurnStep ==
  ASSUME NEW cx, NEW c, NEW heap, IsHeap(cx.prog, heap), Sees(cx, c, heap),
         NEW ev, NEW es, NEW n \in Nat, SoundFor(cx, c, ev, es[n + 1]),
         NEW a, TurnIs(cx.prog, es, n, heap, a)
  PROVE  TurnIs(cx.prog, es, n + 1, heap, TurnNext(<<ev, es>>, a, n + 1))
  <1> DEFINE p == cx.prog
             b == ev[<<es[n + 1], a.heap>>]
             v == Append(a.v, b.v)
  <1>1. CASE a.r # "ok"
    <2>1. TurnNext(<<ev, es>>, a, n + 1) = a
      BY <1>1 DEF TurnNext
    <2> QED
      BY <1>1, <2>1 DEF TurnIs
  <1>2. CASE a.r = "ok"
    <2>1. Sees(cx, c, a.heap)
      BY StaysSeen DEF TurnIs
    <2>2. Sound(p, es[n + 1].shape, a.heap, b)
      BY <2>1 DEF TurnIs, SoundFor
    <2>3. IsHeap(p, b.heap) /\ Grows(a.heap, b.heap) /\ Grows(heap, b.heap) /\ b.r \in MayEnd
      BY <2>2, GrowsOn DEF TurnIs, Sound
    <2>4. CASE b.r # "ok"
      <3>1. TurnNext(<<ev, es>>, a, n + 1) = b
        BY <1>2, <2>4 DEF TurnNext
      <3> HIDE DEF b
      <3> QED
        BY <2>3, <2>4, <3>1 DEF TurnIs
    <2>5. CASE b.r = "ok"
      <3>1. TurnNext(<<ev, es>>, a, n + 1) = Got(v, b.heap)
        BY <1>2, <2>5 DEF TurnNext
      <3>2. PICK A : a.v \in Seq(A)
        BY <1>2 DEF TurnIs, IsSeq
      <3>3. a.v \in Seq(A \cup {b.v}) /\ b.v \in A \cup {b.v}
        <4>1. \A i \in DOMAIN a.v : a.v[i] \in A \cup {b.v}
          BY <3>2, LenProperties
        <4> QED
          BY <3>2, <4>1, SeqOfThose
      <3>4. Len(a.v) = n
        BY <1>2 DEF TurnIs
      <3> HIDE DEF b
      <3>5. /\ v \in Seq(A \cup {b.v}) /\ Len(v) = n + 1 /\ v[n + 1] = b.v
            /\ \A i \in 1..n : v[i] = a.v[i]
        BY <3>3, <3>4, AppendProperties, LenProperties
      <3> HIDE DEF v
      <3>6. \A i \in 1..n : MayBe(p, v[i], es[i].shape, b.heap)
        <4> TAKE i \in 1..n
        <4>1. MayBe(p, a.v[i], es[i].shape, a.heap) /\ IsHeap(p, a.heap)
          BY <1>2 DEF TurnIs
        <4> QED
          BY <2>3, <3>5, <4>1, StaysValue
      <3>7. MayBe(p, v[n + 1], es[n + 1].shape, b.heap)
        BY <2>2, <2>5, <3>5 DEF Sound
      <3>8. \A i \in 1..n + 1 : MayBe(p, v[i], es[i].shape, b.heap)
        <4> TAKE i \in 1..n + 1
        <4>1. i \in 1..n \/ i = n + 1
          OBVIOUS
        <4> QED
          BY <3>6, <3>7, <4>1
      <3>9. IsSeq(v)
        BY <3>5 DEF IsSeq
      <3> QED
        BY <2>3, <3>1, <3>5, <3>8, <3>9, SMTT(40) DEF TurnIs, Got, MayEnd
    <2> QED
      BY <2>4, <2>5
  <1> QED
    BY <1>1, <1>2

LEMMA InTurnIs ==
  ASSUME NEW cx, NEW c, NEW heap, IsHeap(cx.prog, heap), Sees(cx, c, heap),
         NEW ev, NEW es, Len(es) \in Nat, \A i \in 1..Len(es) : SoundFor(cx, c, ev, es[i])
  PROVE  TurnIs(cx.prog, es, Len(es), heap, InTurn(ev, es, heap))
  <1> DEFINE n == Len(es)
  <1>1. PICK a : Turning!IsLoop(a, <<ev, es>>, Got(<<>>, heap), n) /\ InTurn(ev, es, heap) = a[n]
    BY InTurnUnfold
  <1>2. n \in Nat
    OBVIOUS
  <1>0. \A i \in 1..n : SoundFor(cx, c, ev, es[i])
    OBVIOUS
  <1> HIDE DEF n
  <1> DEFINE T == {i \in 0..n : TurnIs(cx.prog, es, i, heap, a[i])}
  <1>3. 0 \in T
    <2>1. a[0] = Got(<<>>, heap)
      BY <1>1, <1>2 DEF Turning!IsLoop
    <2>2. IsSeq(<<>>) /\ Len(<<>>) = 0
      <3>1. <<>> \in Seq({})
        OBVIOUS
      <3> QED
        BY <3>1 DEF IsSeq
    <2>3. TurnIs(cx.prog, es, 0, heap, Got(<<>>, heap))
      BY <2>2, GrowsSame DEF TurnIs, Got, MayEnd
    <2> QED
      BY <1>2, <2>1, <2>3
  <1>4. ASSUME NEW i \in 0..n - 1, i \in T
        PROVE  i + 1 \in T
    <2>1. a[i + 1] = TurnNext(<<ev, es>>, a[i], i + 1)
      BY <1>1, <1>2, SMTT(40) DEF Turning!IsLoop
    <2>2. TurnIs(cx.prog, es, i, heap, a[i]) /\ i + 1 \in 1..n /\ i \in Nat
      BY <1>2, <1>4
    <2>3. TurnIs(cx.prog, es, i + 1, heap, TurnNext(<<ev, es>>, a[i], i + 1))
      BY <1>0, <2>2, TurnStep
    <2> QED
      BY <2>1, <2>2, <2>3
  <1> HIDE DEF T
  <1>5. 0..n \subseteq T
    BY <1>2, <1>3, <1>4, ClimbTo
  <1>6. TurnIs(cx.prog, es, n, heap, a[n])
    BY <1>2, <1>5 DEF T
  <1> QED
    BY <1>1, <1>6 DEF n

LEMMA ShortCircuitSound ==
  ASSUME NEW cx, NEW c, NEW heap, IsHeap(cx.prog, heap), Sees(cx, c, heap),
         NEW e, e.op \in {"and", "or"}, IsNode(e, e.args), VerifyBinary(e),
         NEW ev, SoundFor(cx, c, ev, e.args[1]), SoundFor(cx, c, ev, e.args[2])
  PROVE  Sound(cx.prog, e.shape, heap, ShortCircuit(ev, e, heap))
  <1> DEFINE p == cx.prog
             a == ev[<<e.args[1], heap>>]
             d == ev[<<e.args[2], a.heap>>]
  <1>1. e.shape = BoolType /\ Arg(e, 1).head = "bool" /\ Arg(e, 2).head = "bool"
    BY DEF IsNode, BinaryExpr, Node, Binary, VerifyBinary, ResultType, OperandTypes, BoolType
  <1>2. Sound(p, Arg(e, 1), heap, a)
    BY DEF SoundFor, Arg
  <1>3. IsHeap(p, a.heap) /\ Grows(heap, a.heap) /\ Sees(cx, c, a.heap)
    BY <1>2, StaysSeen DEF Sound
  <1>4. Sound(p, Arg(e, 2), a.heap, d)
    BY <1>3 DEF SoundFor, Arg
  <1>5. Sound(p, Arg(e, 2), heap, d)
    BY <1>3, <1>4, SoundLater
  <1>6. \A s, r : s.head = "bool" /\ Sound(p, s, heap, r) /\ r.r = "ok" =>
          r.v[1] = "bool" /\ Sound(p, BoolType, heap, r)
    <2> SUFFICES ASSUME NEW s, s.head = "bool", NEW r, Sound(p, s, heap, r), r.r = "ok"
                 PROVE  r.v[1] = "bool" /\ Sound(p, BoolType, heap, r)
      OBVIOUS
    <2>1. BoolType.head = "bool" /\ IntType.head = "int" /\ "bool" \in Scalars
      BY ScalarIs DEF BoolType, IntType, Scalars
    <2>2. IsValue(p, r.v, s, r.heap)
      BY <2>1 DEF Sound, MayBe
    <2>3. IsScalarOf(r.v, "bool")
      BY <2>1, <2>2, ScalarIn
    <2>4. IsValue(p, r.v, BoolType, r.heap)
      BY <2>1, <2>3, ScalarIn
    <2> QED
      BY <2>3, <2>4, ScalarValueIs DEF Sound, MayBe
  <1> DEFINE decided == a.r = "ok" /\ a.v = BoolV(e.op = "or")
             b == IF a.r # "ok" \/ decided THEN a ELSE d
  <1>7. ShortCircuit(ev, e, heap) =
          IF b.r = "ok" /\ (a.v[1] # "bool" \/ b.v[1] # "bool") THEN Fault("type", b.heap) ELSE b
    BY Zenon DEF ShortCircuit
  <1>8. b \in {a, d}
    OBVIOUS
  <1>9. b.r = "ok" => a.r = "ok"
    OBVIOUS
  <1> HIDE DEF a, d, decided, b
  <1>10. CASE b.r = "ok"
    <2>1. a.v[1] = "bool" /\ b.v[1] = "bool" /\ Sound(p, BoolType, heap, b)
      BY <1>1, <1>2, <1>5, <1>6, <1>8, <1>9, <1>10
    <2> QED
      BY <1>1, <1>7, <2>1
  <1>11. CASE b.r # "ok"
    <2>1. Sound(p, BoolType, heap, b)
      BY <1>2, <1>5, <1>8, <1>11, NotOkIsSound
    <2> QED
      BY <1>1, <1>7, <1>11, <2>1
  <1> QED
    BY <1>10, <1>11

LEMMA NodeSound ==
  ASSUME NEW cx, cx.jvm = TRUE, cx.prog.records \in Seq(RecordDecls), VerifyRecords(cx.prog),
         NEW c, NEW heap, IsHeap(cx.prog, heap), Sees(cx, c, heap),
         NEW e, e.op \in Applied, IsShape(e.shape), IsNode(e, e.args), VerifyNode(c, e),
         IsSeq(e.args), \A i \in DOMAIN e.args : IsShape(Arg(e, i)),
         NEW ev, \A i \in DOMAIN e.args : SoundFor(cx, c, ev, e.args[i])
  PROVE  Sound(cx.prog, e.shape, heap, EvalNode(cx, ev, e, heap))
  <1> DEFINE p == cx.prog
             a == InTurn(ev, e.args, heap)
  <1>1. Len(e.args) \in Nat /\ DOMAIN e.args = 1..Len(e.args)
    BY SeqIs
  <1>2. TurnIs(p, e.args, Len(e.args), heap, a)
    BY <1>1, InTurnIs
  <1>3. EvalNode(cx, ev, e, heap) =
          IF a.r # "ok" THEN a
          ELSE IF Caught \in ToSet(a.v) THEN Fault("caught", a.heap) ELSE Apply(cx, e, a.v, a.heap)
    BY DEF EvalNode, Applied, Binary, StringOps
  <1> HIDE DEF a
  <1>4. IsHeap(p, a.heap) /\ Grows(heap, a.heap) /\ a.r \in MayEnd
    BY <1>2 DEF TurnIs
  <1>5. CASE a.r # "ok"
    BY <1>3, <1>4, <1>5 DEF Sound
  <1>6. CASE a.r = "ok" /\ Caught \in ToSet(a.v)
    <2>1. Sound(p, e.shape, a.heap, Fault("caught", a.heap))
      BY <1>4, FaultIsSound DEF MayEnd
    <2> QED
      BY <1>3, <1>4, <1>6, <2>1, SoundLater
  <1>7. CASE a.r = "ok" /\ Caught \notin ToSet(a.v)
    <2>1. /\ IsSeq(a.v) /\ Len(a.v) = Len(e.args)
          /\ \A i \in 1..Len(e.args) : MayBe(p, a.v[i], Arg(e, i), a.heap)
      BY <1>2, <1>7 DEF TurnIs, Arg
    <2>2. DOMAIN a.v = 1..Len(e.args)
      BY <2>1, SeqIs
    <2>3. \A i \in DOMAIN a.v : IsShape(Arg(e, i)) /\ IsValue(p, a.v[i], Arg(e, i), a.heap)
      BY <1>1, <1>7, <2>1, <2>2 DEF MayBe, ToSet
    <2>4. Operands(p, e, a.v, a.heap)
      BY <2>1, <2>3 DEF Operands
    <2>5. c.prog = p
      BY DEF Sees
    <2>6. Sound(p, e.shape, a.heap, Apply(cx, e, a.v, a.heap))
      BY <1>4, <2>4, <2>5, ApplySound
    <2> QED
      BY <1>3, <1>4, <1>7, <2>6, SoundLater
  <1> QED
    BY <1>5, <1>6, <1>7

(***************************************************************************)
(* From the operands to the expression, level by level.                     *)
(***************************************************************************)
VerifyNext(c, m, n) ==
  [x \in Exprs[n] |-> (\A i \in DOMAIN Args(x) : m[Args(x)[i]]) /\ VerifyNode(c, x)]
LowerNext(none, m, n) ==
  [x \in Exprs[n] |-> x.op \notin Unlowered /\ \A i \in DOMAIN Args(x) : m[Args(x)[i]]]
EvalNext(cx, m, n) == [at \in Exprs[n] \X Heaps |-> EvalNode(cx, m, at[1], at[2])]
Verifying == INSTANCE Loops WITH Step <- VerifyNext
Lowering == INSTANCE Loops WITH Step <- LowerNext
Evaluating == INSTANCE Loops WITH Step <- EvalNext

LEMMA VerifyUnfold ==
  ASSUME NEW c, Len(Exprs) \in Nat
  PROVE  \E m : /\ Verifying!IsLoop(m, c, <<>>, Len(Exprs))
                /\ \A e : VerifyExpr(c, e) = m[Len(Exprs)][e]
  <1>1. \E m : Verifying!IsLoop(m, c, <<>>, Len(Exprs))
    BY Verifying!LoopExists
  <1> QED
    BY <1>1, Zenon DEF Verifying!IsLoop, VerifyNext, VerifyExpr

LEMMA LowersUnfold ==
  ASSUME Len(Exprs) \in Nat
  PROVE  \E m : /\ Lowering!IsLoop(m, None, <<>>, Len(Exprs))
                /\ \A e : LowersExpr(e) = m[Len(Exprs)][e]
  <1>1. \E m : Lowering!IsLoop(m, None, <<>>, Len(Exprs))
    BY Lowering!LoopExists
  <1> QED
    BY <1>1, Zenon DEF Lowering!IsLoop, LowerNext, LowersExpr

LEMMA EvaluationsUnfold ==
  ASSUME NEW cx, Len(Exprs) \in Nat
  PROVE  \E m : /\ Evaluating!IsLoop(m, cx, <<>>, Len(Exprs))
                /\ Evaluations(cx) = m[Len(Exprs)]
  <1>1. \E m : Evaluating!IsLoop(m, cx, <<>>, Len(Exprs))
    BY Evaluating!LoopExists
  <1> QED
    BY <1>1, Zenon DEF Evaluating!IsLoop, EvalNext, Evaluations

LEMMA LevelsAre ==
  /\ Len(Exprs) \in Nat
  /\ \A n \in 1..Len(Exprs) : \A e \in Exprs[n] :
       /\ IsShape(e.shape)
       /\ Args(e) \in Seq({a \in Under(Exprs, n) : a.op \notin Callers})
       /\ IF "args" \in DOMAIN e THEN IsNode(e, e.args) ELSE IsLeaf(e)
  BY ExprsAssumption, LenProperties

LEMMA OperandsUnder ==
  ASSUME NEW n \in 1..Len(Exprs), NEW e \in Exprs[n]
  PROVE  /\ IsSeq(Args(e))
         /\ \A i \in DOMAIN Args(e) :
              Args(e)[i] \in Under(Exprs, n) /\ Args(e)[i].op \notin Callers /\ IsShape(Args(e)[i].shape)
  <1>1. Args(e) \in Seq({a \in Under(Exprs, n) : a.op \notin Callers})
    BY LevelsAre
  <1>2. \A i \in DOMAIN Args(e) : Args(e)[i] \in {a \in Under(Exprs, n) : a.op \notin Callers}
    BY <1>1, LenProperties
  <1>3. \A a \in Under(Exprs, n) : IsShape(a.shape)
    <2>1. CASE n = 1
      BY <2>1 DEF Under
    <2>2. CASE n # 1
      <3>1. n - 1 \in 1..Len(Exprs) /\ Under(Exprs, n) = Exprs[n - 1]
        <4>1. Len(Exprs) \in Nat
          BY LevelsAre
        <4> QED
          BY <2>2, <4>1 DEF Under
      <3> QED
        BY <3>1, LevelsAre
    <2> QED
      BY <2>1, <2>2
  <1> QED
    BY <1>1, <1>2, <1>3 DEF IsSeq

\* What is verified and lowered is a leaf, or a node that is applied to its operands.
LEMMA KindsOfNode ==
  ASSUME NEW c, NEW n \in 1..Len(Exprs), NEW e \in Exprs[n], VerifyNode(c, e),
         e.op \notin Callers, e.op \notin Unlowered
  PROVE  \/ IsLeaf(e) /\ e.op \in Leaves
         \/ IsNode(e, e.args) /\ Args(e) = e.args /\ e.op \in Applied \cup {"and", "or"}
  <1>1. CASE "args" \in DOMAIN e
    <2>1. IsNode(e, e.args) /\ Args(e) = e.args
      BY <1>1, LevelsAre DEF Args
    <2>2. DOMAIN StrNodes = StringOps \cup {"join", "readfile", "lines", "csv"}
      BY DEF StrNodes, StringOps
    <2>3. e.op \in Binary \cup DOMAIN StrNodes \cup Callers \cup
            {"not", "neg", "list", "append", "index", "len", "get", "has", "maplen", "keys", "values",
             "map", "record", "field", "variant", "vfield", "sort", "slice", "min", "max", "sum",
             "contains", "set", "setadd", "sethas", "setlen", "setlist", "omap", "omapget", "omapset",
             "omaphas", "omaplen"}
      BY <2>1 DEF IsNode
    <2>4. e.op \in Applied \cup {"and", "or"}
      BY <2>2, <2>3 DEF Applied, Unlowered
    <2> QED
      BY <2>1, <2>4
  <1>2. CASE "args" \notin DOMAIN e
    <2>1. IsLeaf(e)
      BY <1>2, LevelsAre
    <2>2. e.op # "none"
      BY DEF VerifyNode, Strict, HigherOrder
    <2> QED
      BY <2>1, <2>2 DEF IsLeaf, Leaves
  <1> QED
    BY <1>1, <1>2

LEMMA LevelSound ==
  ASSUME NEW cx, cx.jvm = TRUE, cx.prog.records \in Seq(RecordDecls), VerifyRecords(cx.prog), NEW c,
         NEW n \in 1..Len(Exprs), NEW e \in Exprs[n], e.op \notin Callers, e.op \notin Unlowered,
         VerifyNode(c, e), NEW ev, \A i \in DOMAIN Args(e) : SoundFor(cx, c, ev, Args(e)[i]),
         NEW heap, IsHeap(cx.prog, heap), Sees(cx, c, heap)
  PROVE  Sound(cx.prog, e.shape, heap, EvalNode(cx, ev, e, heap))
  <1>1. IsShape(e.shape)
    BY LevelsAre
  <1>2. CASE IsLeaf(e) /\ e.op \in Leaves
    BY <1>1, <1>2, LeafSound
  <1>3. CASE IsNode(e, e.args) /\ Args(e) = e.args /\ e.op \in Applied
    <2>1. IsSeq(e.args) /\ \A i \in DOMAIN e.args : IsShape(Arg(e, i))
      BY <1>3, OperandsUnder DEF Arg
    <2> QED
      BY <1>1, <1>3, <2>1, NodeSound
  <1>4. CASE IsNode(e, e.args) /\ Args(e) = e.args /\ e.op \in {"and", "or"}
    <2>1. {1, 2} \subseteq DOMAIN e.args
      BY <1>4 DEF IsNode, BinaryExpr, Node, Binary
    <2>2. VerifyBinary(e)
      BY <1>4, VerifyNodeIs DEF Binary
    <2>3. EvalNode(cx, ev, e, heap) = ShortCircuit(ev, e, heap)
      BY <1>4 DEF EvalNode
    <2>4. SoundFor(cx, c, ev, e.args[1]) /\ SoundFor(cx, c, ev, e.args[2])
      BY <1>4, <2>1
    <2> QED
      BY <1>4, <2>2, <2>3, <2>4, ShortCircuitSound
  <1> QED
    BY <1>2, <1>3, <1>4, KindsOfNode

\* An expression that is verified and lowered evaluates, in any heap and with any
\* locals that are what the verifier has in scope, to a value of its type, or ends
\* as Verify leaves it to: never for a name that is not there or a type.
THEOREM ExpressionsAreSound ==
  ASSUME NEW cx, cx.jvm = TRUE, cx.prog.records \in Seq(RecordDecls), VerifyRecords(cx.prog),
         NEW c, NEW heap, IsHeap(cx.prog, heap), Sees(cx, c, heap),
         NEW e \in Exprs[Len(Exprs)], e.op \notin Callers, VerifyExpr(c, e), LowersExpr(e)
  PROVE  Sound(cx.prog, e.shape, heap, Eval(cx, e, heap))
  <1> DEFINE top == Len(Exprs)
  <1>1. top \in Nat /\ top # 0
    BY LevelsAre, ExprsAssumption, EmptySeq
  <1>2. PICK verified : /\ Verifying!IsLoop(verified, c, <<>>, top)
                        /\ \A x : VerifyExpr(c, x) = verified[top][x]
    BY <1>1, VerifyUnfold
  <1>3. PICK lowers : /\ Lowering!IsLoop(lowers, None, <<>>, top)
                      /\ \A x : LowersExpr(x) = lowers[top][x]
    BY <1>1, LowersUnfold
  <1>4. PICK ev : Evaluating!IsLoop(ev, cx, <<>>, top) /\ Evaluations(cx) = ev[top]
    BY <1>1, EvaluationsUnfold
  <1> DEFINE Good(n) == \A x \in Under(Exprs, n + 1) :
               x.op \notin Callers /\ verified[n][x] /\ lowers[n][x] => SoundFor(cx, c, ev[n], x)
             T == {n \in 0..top : Good(n)}
  <1>5. 0 \in T
    <2>1. Under(Exprs, 0 + 1) = {}
      BY DEF Under
    <2> QED
      BY <1>1, <2>1
  <1>6. ASSUME NEW n \in 0..top - 1, n \in T
        PROVE  n + 1 \in T
    <2>1. n + 1 \in 1..top /\ n + 1 \in 0..top /\ n + 1 # 0 /\ n + 1 - 1 = n /\ Good(n)
      BY <1>1, <1>6
    <2>2. verified[n + 1] = VerifyNext(c, verified[n], n + 1)
      BY <1>1, <1>2, Verifying!LoopAt
    <2>3. lowers[n + 1] = LowerNext(None, lowers[n], n + 1)
      BY <1>1, <1>3, Lowering!LoopAt
    <2>4. ev[n + 1] = EvalNext(cx, ev[n], n + 1)
      BY <1>1, <1>4, Evaluating!LoopAt
    <2>5. Under(Exprs, n + 1 + 1) = Exprs[n + 1]
      BY <2>1 DEF Under
    <2>6. ASSUME NEW x \in Exprs[n + 1], x.op \notin Callers, verified[n + 1][x], lowers[n + 1][x],
                 NEW h, IsHeap(cx.prog, h), Sees(cx, c, h)
          PROVE  Sound(cx.prog, x.shape, h, ev[n + 1][<<x, h>>])
      <3>1. (\A i \in DOMAIN Args(x) : verified[n][Args(x)[i]]) /\ VerifyNode(c, x)
        BY <2>2, <2>6, Zenon DEF VerifyNext
      <3>2. x.op \notin Unlowered /\ \A i \in DOMAIN Args(x) : lowers[n][Args(x)[i]]
        BY <2>3, <2>6, Zenon DEF LowerNext
      <3>3. ev[n + 1][<<x, h>>] = EvalNode(cx, ev[n], x, h)
        BY <2>4, <2>6 DEF EvalNext, IsHeap
      <3>4. \A i \in DOMAIN Args(x) : Args(x)[i] \in Under(Exprs, n + 1) /\ Args(x)[i].op \notin Callers
        BY <2>1, OperandsUnder
      <3>5. \A i \in DOMAIN Args(x) : SoundFor(cx, c, ev[n], Args(x)[i])
        BY <2>1, <3>1, <3>2, <3>4, Zenon
      <3>6. Sound(cx.prog, x.shape, h, EvalNode(cx, ev[n], x, h))
        BY <2>1, <2>6, <3>1, <3>2, <3>5, LevelSound
      <3> QED
        BY <3>3, <3>6
    <2>7. Good(n + 1)
      BY <2>5, <2>6, Zenon DEF SoundFor
    <2> QED
      BY <2>1, <2>7
  <1> HIDE DEF T
  <1>7. 0..top \subseteq T
    BY <1>1, <1>5, <1>6, ClimbTo
  <1>8. top \in T
    BY <1>1, <1>7
  <1>9. Good(top)
    BY <1>8 DEF T
  <1>10. Under(Exprs, top + 1) = Exprs[top]
    BY <1>1 DEF Under
  <1>11. SoundFor(cx, c, ev[top], e)
    BY <1>2, <1>3, <1>9, <1>10, Zenon
  <1> QED
    BY <1>4, <1>11 DEF SoundFor, Eval
=============================================================================
