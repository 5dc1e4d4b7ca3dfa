------------------------------ MODULE Datalog ------------------------------
(***************************************************************************)
(* The compile-time Datalog evaluator (transpiler/lower/datalog.go): a       *)
(* bottom-up fixpoint over the rules of a query's program.  A step applies   *)
(* one rule to the relations as they are; a pass applies all rules in        *)
(* order; passes go on until one adds nothing.  A term is a variable or a    *)
(* constant; bindings and derived tuples are sets, so the order of tuples    *)
(* one application adds is left open.  Relations keep their duplicates.      *)
(***************************************************************************)
EXTENDS Integers, Sequences, FiniteSets, SequencesExt, TLC

CONSTANTS
  Names,     \* relation names
  Consts,    \* constants of the programs
  Programs   \* the programs evaluated: facts, rules and a query

Var(x) == [var |-> TRUE, text |-> x]
Const(x) == [var |-> FALSE, text |-> x]
Atom(name, args) == [kind |-> "pos", name |-> name, args |-> args]
Not(name, args) == [kind |-> "not", name |-> name, args |-> args]
Neq(x, y) == [kind |-> "neq", args |-> <<x, y>>]
Rule(head, args, body) == [head |-> head, args |-> args, body |-> body]

VARIABLES
  prog,     \* the program under evaluation
  rel,      \* state: relation name -> its tuples
  next,     \* the rule the current pass applies next
  changed,  \* whether the current pass has added a tuple
  out       \* the answer, <<"pending">> until the fixpoint

vars == <<prog, rel, next, changed, out>>

Pending == <<"pending">>
Tuples(name) == ToSet(rel[name])

\* Each fact is appended to its relation.
AddFact(facts, state, i) == [state EXCEPT ![facts[i][1]] = Append(@, facts[i][2])]

Seed(p) ==
  LET state[i \in 0..Len(p.facts)] ==
        IF i = 0 THEN [n \in Names |-> <<>>] ELSE AddFact(p.facts, state[i - 1], i)
  IN state[Len(p.facts)]

Init ==
  /\ prog \in Programs
  /\ rel = Seed(prog)
  /\ next = 1
  /\ changed = FALSE
  /\ out = Pending

(***************************************************************************)
(* deriveRule: a nested-loop join of the body, from the empty binding.      *)
(***************************************************************************)

\* resolveArg: a variable without a value stands for its own text.
Resolve(arg, env) ==
  IF arg.var /\ arg.text \in DOMAIN env THEN env[arg.text] ELSE arg.text

VarsOf(args) == {args[i].text : i \in {j \in 1..Len(args) : args[j].var}}

\* The binding with the tuple's values for the variables it lacks.
Extend(args, t, env) ==
  [v \in DOMAIN env \cup VarsOf(args) |->
     IF v \in DOMAIN env THEN env[v]
     ELSE t[CHOOSE i \in 1..Len(args) : args[i].var /\ args[i].text = v]]

\* Wrong on purpose: a variable that has a value is not compared with the tuple.
MatchConstants(args, t, env) ==
  IF Len(t) = Len(args) /\ \A i \in 1..Len(args) : args[i].var \/ args[i].text = t[i]
    THEN {Extend(args, t, env)} ELSE {}

\* A constant must equal the tuple's value, a variable must be bound to it or
\* gets it.
Match(args, t, env) ==
  IF Len(t) # Len(args) THEN {}
  ELSE {new \in {Extend(args, t, env)} :
          \A i \in 1..Len(args) : Resolve(args[i], new) = t[i]}

\* Negation: some tuple equals the arguments as they are bound.
Holds(name, args, env) ==
  \E t \in Tuples(name) :
    Len(t) = Len(args) /\ \A i \in 1..Len(args) : Resolve(args[i], env) = t[i]

\* An inequality with an unbound side lets the binding pass.
Differ(args, env) ==
  {args[1].text, args[2].text} \subseteq DOMAIN env => env[args[1].text] # env[args[2].text]

Join(envs, lit) ==
  CASE lit.kind = "neq" -> {env \in envs : Differ(lit.args, env)}
    [] lit.kind = "not" -> {env \in envs : ~Holds(lit.name, lit.args, env)}
    [] lit.kind = "pos" ->
         UNION {Match(lit.args, t, env) : t \in Tuples(lit.name), env \in envs}

Unbound == [v \in {} |-> ""]

Environments(body) ==
  LET envs[i \in 0..Len(body)] ==
        IF i = 0 THEN {Unbound} ELSE Join(envs[i - 1], body[i])
  IN envs[Len(body)]

\* A head variable that the body leaves unbound drops the tuple.
DeriveRule(rule) ==
  {[i \in 1..Len(rule.args) |-> Resolve(rule.args[i], env)] :
     env \in {e \in Environments(rule.body) : VarsOf(rule.args) \subseteq DOMAIN e}}

(***************************************************************************)
(* datalogEval.                                                             *)
(***************************************************************************)

ApplyRule ==
  LET rule == prog.rules[next]
      new == DeriveRule(rule) \ Tuples(rule.head)
  IN
  /\ out = Pending /\ next <= Len(prog.rules)
  /\ rel' = [rel EXCEPT ![rule.head] = @ \o SetToSeq(new)]
  /\ changed' = (changed \/ new # {})
  /\ next' = next + 1
  /\ UNCHANGED <<prog, out>>

\* A pass that added something is followed by another.
NextPass ==
  /\ out = Pending /\ next > Len(prog.rules) /\ changed
  /\ next' = 1
  /\ changed' = FALSE
  /\ UNCHANGED <<prog, rel, out>>

\* What stands for a free variable in the query; anything else is a bound constant.
FreeArg == ""
Matches(t, args) ==
  Len(t) = Len(args) /\ \A i \in 1..Len(args) : args[i] \in {FreeArg, t[i]}
AddFree(args, t, vals, i) == IF args[i] = FreeArg THEN Append(vals, t[i]) ELSE vals
Free(t, args) ==
  LET vals[i \in 0..Len(args)] ==
        IF i = 0 THEN <<>> ELSE AddFree(args, t, vals[i - 1], i)
  IN vals[Len(args)]

AddMatch(tuples, args, got, i) ==
  IF Matches(tuples[i], args) THEN got \o Free(tuples[i], args) ELSE got
Collect ==
  LET tuples == rel[prog.query.name]
      got[i \in 0..Len(tuples)] ==
        IF i = 0 THEN <<>> ELSE AddMatch(tuples, prog.query.args, got[i - 1], i)
  IN got[Len(tuples)]

\* Wrong on purpose: one pass is enough.
AnswerAfterOnePass ==
  /\ out = Pending /\ next > Len(prog.rules)
  /\ out' = Collect
  /\ UNCHANGED <<prog, rel, next, changed>>

Answer ==
  /\ out = Pending /\ next > Len(prog.rules) /\ ~changed
  /\ out' = Collect
  /\ UNCHANGED <<prog, rel, next, changed>>

Next == ApplyRule \/ NextPass \/ Answer

Spec == Init /\ [][Next]_vars

(***************************************************************************)
(* What a program means, by ground instances: the least set of atoms that    *)
(* holds the facts and every head whose body holds.                         *)
(***************************************************************************)
Ground(args, s) == [i \in 1..Len(args) |-> IF args[i].var THEN s[args[i].text] ELSE args[i].text]

RuleVars(rule) ==
  VarsOf(rule.args) \cup UNION {VarsOf(rule.body[i].args) : i \in 1..Len(rule.body)}

LiteralHolds(lit, s, M) ==
  LET g == Ground(lit.args, s) IN
  CASE lit.kind = "pos" -> <<lit.name, g>> \in M
    [] lit.kind = "not" -> <<lit.name, g>> \notin M
    [] lit.kind = "neq" -> g[1] # g[2]

BodyHolds(rule, s, M) == \A i \in 1..Len(rule.body) : LiteralHolds(rule.body[i], s, M)

Heads(rule, M) ==
  {<<rule.head, Ground(rule.args, s)>> :
     s \in {a \in [RuleVars(rule) -> Consts] : BodyHolds(rule, a, M)}}

Derived(p, M) == UNION {Heads(p.rules[i], M) : i \in 1..Len(p.rules)}

HeadAtoms(rule) ==
  {<<rule.head, Ground(rule.args, s)>> : s \in [VarsOf(rule.args) -> Consts]}

Base(p) == ToSet(p.facts)
AllHeads(p) == UNION {HeadAtoms(p.rules[i]) : i \in 1..Len(p.rules)}

\* The sets of atoms that hold the facts and are closed under the rules.
Models(p) ==
  {M \in {Base(p) \cup H : H \in SUBSET AllHeads(p)} : Derived(p, M) \subseteq M}

LeastModel(p) ==
  LET models == Models(p) IN {a \in Base(p) \cup AllHeads(p) : \A M \in models : a \in M}

Atoms == UNION {{<<n, t>> : t \in Tuples(n)} : n \in Names}

(***************************************************************************)
(* The programs that have such a meaning.  deriveRule compares an unbound    *)
(* variable as its own text and lets an unbound inequality pass, so a        *)
(* variable of an inequality, a negation or a head has to be bound by a      *)
(* positive literal that comes earlier.                                     *)
(***************************************************************************)
IsTerms(args) ==
  /\ args \in Seq([var : BOOLEAN, text : STRING])
  /\ \A i \in 1..Len(args) : args[i].var \/ args[i].text \in Consts

\* The variables that the first n literals of a body bind.
BoundBy(body, n) == UNION {VarsOf(body[i].args) : i \in {j \in 1..n : body[j].kind = "pos"}}

IsLiteral(lit) ==
  /\ IsTerms(lit.args)
  /\ \/ lit.kind \in {"pos", "not"} /\ lit.name \in Names
     \/ lit.kind = "neq" /\ Len(lit.args) = 2 /\ lit.args[1].var /\ lit.args[2].var

Safe(rule) ==
  /\ rule.head \in Names /\ IsTerms(rule.args) /\ Len(rule.body) \in Nat
  /\ \A i \in 1..Len(rule.body) :
       /\ IsLiteral(rule.body[i])
       /\ rule.body[i].kind # "pos" => VarsOf(rule.body[i].args) \subseteq BoundBy(rule.body, i - 1)
  /\ VarsOf(rule.args) \subseteq BoundBy(rule.body, Len(rule.body))

IsProgram(p) ==
  /\ p.facts \in Seq(Names \X Seq(Consts)) /\ IsInjective(p.facts)
  /\ Len(p.rules) \in Nat /\ \A i \in 1..Len(p.rules) : Safe(p.rules[i])
  /\ p.query.name \in Names /\ p.query.args \in Seq(Consts \cup {FreeArg})

\* No rule derives a relation that some rule negates.
NegatesFactsOnly(p) ==
  \A i, k \in 1..Len(p.rules) : \A j \in 1..Len(p.rules[i].body) :
    p.rules[i].body[j].kind = "not" => p.rules[i].body[j].name # p.rules[k].head

(***************************************************************************)
(* Properties                                                               *)
(***************************************************************************)

\* deriveRule: at every step a relation holds nothing but what the program
\* means, joins, repeated variables, constants and inequalities included.
NothingElseFollows == Atoms \subseteq LeastModel(prog)

\* datalogEval: whatever the order of the rules, at the fixpoint everything the
\* program means is there, and the query lists each match once.
AnswerIsComplete ==
  out # Pending =>
    /\ LeastModel(prog) \subseteq Atoms
    /\ LET hits == {t \in Tuples(prog.query.name) : Matches(t, prog.query.args)}
           free == {i \in 1..Len(prog.query.args) : prog.query.args[i] = FreeArg}
       IN Len(out) = Cardinality(hits) * Cardinality(free)

\* program.go:1793 calls IsNot "negation-as-failure": in the answer no tuple
\* rests on the absence of another that is there.
NegationIsFailure == out # Pending => Atoms \subseteq Base(prog) \cup Derived(prog, Atoms)

=============================================================================
