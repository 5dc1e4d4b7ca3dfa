------------------------------ MODULE MCImport ------------------------------
(* Small instances of JarCache, Pipeline and Synthesis for TLC, side by side:  *)
(* a behaviour uses the cache, runs builds, or binds the classes of a surface. *)
EXTENDS JarCache, Pipeline, Synthesis

CONSTANTS k1, k2, p1, p2, g1, r1, r2, r3
TwoKeys == {k1, k2}
TwoPutters == {p1, p2}
OneGetter == {g1}
ThreeRuns == {r1, r2, r3}
\* Keys, builds and runs are told apart by nothing but their names.
Alike == Permutations(TwoKeys) \cup Permutations(TwoPutters) \cup Permutations(ThreeRuns)

\* Two groups that publish the same artifact and version, and a second version
\* of the first, which has lost a class and changed another.  The second group's
\* has no class to wrap.
First == [ga |-> "com.a:lib", av |-> "lib-1"]
Namesake == [ga |-> "com.b:lib", av |-> "lib-1"]
Second == [ga |-> "com.a:lib", av |-> "lib-2"]

AllOptions == [NoCache : BOOLEAN, WorkDir : {"none", "plain", "prefixed"}]

ThreeCoords == {First, Namesake, Second}
LibClasses == 
  [c \in ThreeCoords |-> CASE c = First -> {"Map", "Set"} [] c = Second -> {"Map"} [] OTHER -> {}]

(* Surfaces: one method of every signature, and classes of two members.       *)
Inner == {"a.Lib$Part"}
Reflection == {"java.lang.reflect.Method", "sun.misc.Unsafe"}
Generic(b, args) == [base |-> b, args |-> args]
StringType == Type("java.lang.String")
ObjectType == Type("java.lang.Object")
ListOf(t) == Generic("java.util.List", <<t>>)
Erased ==
  {Type(b) : b \in {"int", "short", "long", "boolean", "double", "byte[]", "[I", "java.lang.Short",
                    "java.lang.Integer", "java.lang.Object", "java.util.List", "java.util.Map",
                    "java.lang.String", "a.Lib"} \cup Inner \cup Reflection}
\* What a fixture may say in place of erased names.
Full ==
  {ListOf(StringType), ListOf(Type("?")), ListOf(ObjectType), ListOf(Type("a.Lib$Part")), Type("?"),
   Generic("java.util.Map", <<StringType, ListOf(Type("java.lang.Integer"))>>),
   Generic("java.util.Optional", <<Type("a.Lib")>>), Type("int[]"),
   Generic("java.util.concurrent.CompletableFuture", <<StringType>>),
   Generic("java.util.LinkedHashMap", <<StringType, StringType>>)}
Types == Erased \cup Full
AllTypes ==
  Types \cup {Type("void"), ListOf(Type("java.lang.Integer")), Type("a.Lib$Part"), Type("?")}

Method(f, returns, params) ==
  [name |-> f, isPublic |-> TRUE, isStatic |-> FALSE, isVarargs |-> FALSE,
   returnType |-> returns, parameterTypes |-> params]
Class(n, methods, fs) == [name |-> n, methods |-> methods, fields |-> fs]
Field(f, t) == [name |-> f, isPublic |-> TRUE, isStatic |-> TRUE, type |-> t]
Lib == <<"a", ".", "Lib">>

Signatures ==
  {<<Class(Lib, <<[Method(<<"f">>, r, ps) EXCEPT !.isStatic = s]>>, <<>>)>> :
     r \in Types \cup {Type("void")}, ps \in {<<>>} \cup {<<t>> : t \in Types}, s \in BOOLEAN}

Various ==
  {Method(<<"f">>, Type("int"), <<StringType, Type("a.Lib")>>),
   Method(<<"f">>, Type("void"), <<>>), Method(<<"static", "_", "f">>, Type("void"), <<ObjectType>>),
   Method(<<"g">>, Type("a.Lib$Part"), <<ObjectType>>), Method(<<"g">>, StringType, <<Type("?")>>),
   [Method(<<"f">>, Type("void"), <<>>) EXCEPT !.isStatic = TRUE],
   [Method(<<"v">>, Type("void"), <<ListOf(StringType)>>) EXCEPT !.isVarargs = TRUE],
   [Method(<<"p">>, Type("void"), <<>>) EXCEPT !.isPublic = FALSE]}
SomeFields == {<<>>, <<Field(<<"X">>, Type("int"))>>, <<Field(<<"X">>, ObjectType)>>}
\* The second has the short name of the first, the last two one identifier.
ClassNames == {Lib, <<"b", ".", "Lib">>, <<"a", ".", "b", ".", "Lib">>, <<"a", "_", "b", ".", "Lib">>}
PairsOfMethods ==
  {<<Class(Lib, <<m1, m2>>, fs)>> : m1, m2 \in Various, fs \in SomeFields}
PairsOfClasses ==
  {<<Class(ns[1], <<m1>>, fs), Class(ns[2], <<m2>>, <<>>)>> :
     ns \in {ns \in ClassNames \X ClassNames : ns[1] # ns[2]}, m1, m2 \in Various, fs \in SomeFields}
Bare == <<Class(Lib, <<>>, <<>>)>>
SomeSurfaces == {<<>>, Bare} \cup Signatures \cup PairsOfMethods \cup PairsOfClasses

\* A new driver.
Fresh == [NoCache |-> FALSE, WorkDir |-> "none"]

EitherInit ==
  /\ surface = Bare \/ opts = Fresh
  /\ Init /\ PipelineInit /\ SynthesisInit

\* Which of the three a behaviour is about.
Untouched == surface = Bare /\ files = <<>>
EitherNext ==
  \/ Untouched /\ opts = Fresh /\ PipelineInit /\ Next /\ UNCHANGED <<pipelineVars, synthesisVars>>
  \/ Untouched /\ Init /\ PipelineNext /\ UNCHANGED <<vars, synthesisVars>>
  \/ Init /\ opts = Fresh /\ PipelineInit /\ SynthesisNext /\ UNCHANGED <<vars, pipelineVars>>
  \/ step = "done" /\ UNCHANGED <<vars, pipelineVars, synthesisVars>>

EitherSpec == EitherInit /\ [][EitherNext]_<<vars, pipelineVars, synthesisVars>>
=============================================================================
