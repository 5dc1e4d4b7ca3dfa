------------------------------ MODULE Synthesis ------------------------------
(***************************************************************************)
(* From the reflected surface of a JAR to its bindings (steps 3 and 4 of     *)
(* build/pipeline.go): typemap.Map decides for every Java type how it crosses *)
(* JNI or why it does not, wrapper.Synth gathers the methods of a class that  *)
(* can be wrapped, EmitJavaSource writes them as a class of static methods,   *)
(* EmitShimMochi declares them to Mochi, CollectSkips reports the rest.  The  *)
(* three passes call Synth for themselves and must agree.                    *)
(* A class or member name is the sequence of its parts and separators; a type *)
(* is a base name and its type arguments, which the reflect tool erases; the  *)
(* text of a skip reason is the token it starts with.  External: javac.       *)
(***************************************************************************)
EXTENDS Integers, Sequences, SequencesExt

CONSTANTS
  Surfaces,    \* the surfaces in play: sequences of classes
  JavaTypes,   \* the types in their signatures
  InnerNames,  \* type names with a $
  Reflective   \* type names of java.lang.reflect, sun and com.sun

VARIABLES
  surface, \* the reflected classes
  step,    \* "wrap", "report", "shim" or "done"
  pos,     \* the class the loop is at
  files,   \* the wrapper directory: file name -> class
  report,  \* the skip reports
  shim     \* the extern declarations, per class

synthesisVars == <<surface, step, pos, files, report, shim>>

(***************************************************************************)
(* What the reflect tool reports: a class of a name once.                    *)
(***************************************************************************)
MethodInfos ==
  [name : Seq(STRING), isPublic : BOOLEAN, isStatic : BOOLEAN, isVarargs : BOOLEAN,
   returnType : JavaTypes, parameterTypes : Seq(JavaTypes)]
FieldInfos == [name : Seq(STRING), isPublic : BOOLEAN, isStatic : BOOLEAN, type : JavaTypes]
ClassInfos == [name : Seq(STRING), methods : Seq(MethodInfos), fields : Seq(FieldInfos)]

ASSUME JavaTypesAssumption ==
  JavaTypes \subseteq [base : STRING, args : Seq(JavaTypes)]

ASSUME SurfacesAssumption ==
  \A s \in Surfaces :
    s \in Seq(ClassInfos) /\ \A i, j \in DOMAIN s : s[i].name = s[j].name => i = j

SynthesisInit ==
  /\ surface \in Surfaces
  /\ step = (IF surface = <<>> THEN "shim" ELSE "wrap") /\ pos = 1
  /\ files = <<>> /\ report = <<>> /\ shim = <<>>

Type(b) == [base |-> b, args |-> <<>>]
Each(Op(_), s) == [i \in DOMAIN s |-> Op(s[i])]

\* The elements with a property, in order.
AddPicked(picked, kept, i) == IF i \in DOMAIN picked THEN Append(kept, picked[i]) ELSE kept
InOrder(picked, n) ==
  LET kept[i \in 0..n] == IF i = 0 THEN <<>> ELSE AddPicked(picked, kept[i - 1], i) IN kept[n]
Keep(s, P(_)) == InOrder([i \in {k \in DOMAIN s : P(s[k])} |-> s[i]], Len(s))

(***************************************************************************)
(* typemap.Map.  A mapping says of which kind a type is, which decides what   *)
(* stands for it in a wrapper, and what it is for Mochi, in rows of the tables. *)
(***************************************************************************)
Row(names, kind, mochi) == [names |-> names, kind |-> kind, mochi |-> mochi]

Table ==
  {Row({"int", "short", "byte", "char", "java.lang.Integer", "java.lang.Short",
        "java.lang.Byte", "java.lang.Character"}, "int", <<"int">>),
   Row({"long", "java.lang.Long"}, "long", <<"long">>),
   Row({"float", "java.lang.Float"}, "float", <<"float">>),
   Row({"double", "java.lang.Double"}, "double", <<"double">>),
   Row({"boolean", "java.lang.Boolean"}, "bool", <<"bool">>),
   Row({"java.lang.String"}, "string", <<"string">>),
   Row({"void"}, "void", <<"void">>),
   Row({"byte[]"}, "bytes", <<"bytes">>),
   Row({"int[]"}, "list", <<"list", <<"int">>>>), Row({"long[]"}, "list", <<"list", <<"long">>>>),
   Row({"double[]"}, "list", <<"list", <<"double">>>>),
   Row({"float[]"}, "list", <<"list", <<"float">>>>),
   Row({"boolean[]"}, "list", <<"list", <<"bool">>>>)}

\* Generic classes that are understood with their arguments, and how many.
Parametric ==
  {[names |-> {"java.util.List", "java.util.ArrayList", "java.util.Collection"},
    kind |-> "list", arity |-> 1],
   [names |-> {"java.util.Optional"}, kind |-> "optional", arity |-> 1],
   [names |-> {"java.util.concurrent.CompletableFuture"}, kind |-> "future", arity |-> 1],
   [names |-> {"java.util.Map", "java.util.HashMap"}, kind |-> "map", arity |-> 2]}

NamesIn(rows) == UNION {r.names : r \in rows}
RowOf(rows, n) == CHOOSE r \in rows : n \in r.names

Mapped == "SkipUnknown"   \* the zero value: no reason to skip

Mentions[t \in JavaTypes] == {t.base} \cup UNION {Mentions[t.args[i]] : i \in DOMAIN t.args}

CheckRefusal(t) ==
  CASE t.base = "?" -> "SkipWildcard"
    [] Mentions[t] \cap InnerNames # {} -> "SkipInnerClass"
    [] t.base \in Reflective -> "SkipReflective"
    [] OTHER -> Mapped

\* Wrong on purpose: a reason the report's parser does not know.
SkipRawUnchecked(base) == IF base = "java.lang.Object" THEN "SkipRawObject" ELSE "SkipUnchecked"
\* Why a name without its arguments is refused.
SkipRaw(base) == IF base = "java.lang.Object" THEN "SkipRawObject" ELSE "SkipGeneric"

Raw == NamesIn(Parametric) \cup {"java.util.LinkedHashMap", "java.lang.Object"}

IsParametric(maps, t) ==
  /\ t.base \in NamesIn(Parametric)
  /\ Len(t.args) = RowOf(Parametric, t.base).arity
  /\ \A i \in DOMAIN t.args : maps[t.args[i]].skip = Mapped

\* A generic type whose arguments cannot be mapped becomes a handle, as a class
\* nobody knows does.
MapBy(maps, t) ==
  LET is(row, mochi) == [skip |-> Mapped, kind |-> row.kind, java |-> t, mochi |-> mochi]
      found == RowOf(Table, t.base)
      generic == RowOf(Parametric, t.base)
  IN IF CheckRefusal(t) # Mapped THEN [skip |-> CheckRefusal(t)]
     ELSE IF t.args = <<>> /\ t.base \in NamesIn(Table) THEN is(found, found.mochi)
     ELSE IF t.args = <<>> /\ t.base \in Raw THEN [skip |-> SkipRaw(t.base)]
     ELSE IF IsParametric(maps, t)
       THEN is(generic, <<generic.kind, Each(LAMBDA a : maps[a].mochi, t.args)>>)
     ELSE is([kind |-> "handle"], <<"handle", t>>)

Maps[t \in JavaTypes] == MapBy(Maps, t)
MapType(t) == MapBy(Maps, t)

(***************************************************************************)
(* wrapper.Synth.                                                           *)
(***************************************************************************)
ClassNameToIdent(n) == Each(LAMBDA c : IF c \in {".", "$"} THEN "_" ELSE c, n)

WrapClassName(n) == <<"MochiWrap_">> \o ClassNameToIdent(n)
WrapMethodName(n, f, isStatic) ==
  WrapClassName(n) \o <<"_">> \o (IF isStatic THEN <<"static", "_">> ELSE <<>>) \o f

\* The reason of the first type that is refused, the return type before the
\* parameters.
FirstSkip(ts) ==
  LET refused == {i \in DOMAIN ts : MapType(ts[i]).skip # Mapped}
  IN IF refused = {} THEN Mapped ELSE MapType(ts[Min(refused)]).skip

SkipOf(m) ==
  IF m.isVarargs THEN "SkipVarargs" ELSE FirstSkip(<<m.returnType>> \o m.parameterTypes)

SynthMethod(class, m) ==
  [wrapName |-> WrapMethodName(class, m.name, m.isStatic), origName |-> m.name,
   isStatic |-> m.isStatic, returns |-> MapType(m.returnType),
   params |-> Each(LAMBDA p : MapType(p), m.parameterTypes)]

SynthField(class, f) ==
  [wrapName |-> WrapClassName(class) \o <<"_", "get", "_">> \o f.name,
   origName |-> f.name, isStatic |-> f.isStatic, mapping |-> MapType(f.type)]

FieldSkip(f) == FirstSkip(<<f.type>>)
Public(members) == Keep(members, LAMBDA m : m.isPublic)
Skips(Reason(_), members) ==
  Each(LAMBDA m : [name |-> m.name, reason |-> Reason(m)],
       Keep(members, LAMBDA m : Reason(m) # Mapped))

Synth(cls) ==
  [className |-> WrapClassName(cls.name),
   methods |-> Each(LAMBDA m : SynthMethod(cls.name, m),
                    Keep(Public(cls.methods), LAMBDA m : SkipOf(m) = Mapped)),
   fields |-> Each(LAMBDA f : SynthField(cls.name, f),
                   Keep(Public(cls.fields), LAMBDA f : FieldSkip(f) = Mapped)),
   skips |-> Skips(SkipOf, Public(cls.methods)) \o Skips(FieldSkip, Public(cls.fields))]

(***************************************************************************)
(* EmitJavaSource: static methods, those of instances with a handle first.   *)
(***************************************************************************)
JniType(m) ==
  CASE m.kind \in {"int", "long", "float", "double", "void"} -> m.kind
    [] m.kind = "bool" -> "boolean"
    [] m.kind = "bytes" -> "byte[]"
    [] m.kind = "handle" -> "long"
    [] m.kind \in {"string", "list", "map", "optional", "future"} -> "String"

\* The type of the argument that is passed on: only handles are looked up and cast.
CastArg(m) ==
  IF m.kind = "handle" THEN m.java
  ELSE IF JniType(m) = "String" THEN Type("java.lang.String")
  ELSE Type(JniType(m))

WriteWrapMethod(m) ==
  [name |-> m.wrapName, origName |-> m.origName, returns |-> JniType(m.returns),
   params |-> (IF m.isStatic THEN <<>> ELSE <<"long">>) \o Each(JniType, m.params),
   takes |-> Each(LAMBDA p : p.java, m.params), passes |-> Each(CastArg, m.params)]

EmitJavaSource(wc) == Each(WriteWrapMethod, wc.methods)

(***************************************************************************)
(* EmitShimMochi and CollectSkips.                                          *)
(***************************************************************************)
ClassShortName(n) ==
  LET dots == {i \in DOMAIN n : n[i] = "."}
  IN IF dots = {} THEN n ELSE SubSeq(n, 1 + CHOOSE i \in dots : \A j \in dots : j <= i, Len(n))

\* Wrong on purpose: every method takes a handle.
ExternWithHandle(m, typeName) ==
  [name |-> m.wrapName, returns |-> m.returns.mochi,
   params |-> <<<<"type", typeName>>>> \o Each(LAMBDA p : p.mochi, m.params)]
ExternFnLine(m, typeName) ==
  [name |-> m.wrapName, returns |-> m.returns.mochi,
   params |-> (IF m.isStatic THEN <<>> ELSE <<<<"type", typeName>>>>)
              \o Each(LAMBDA p : p.mochi, m.params)]

\* A class of which nothing could be wrapped is not declared.
EmitClass(cls) ==
  LET wc == Synth(cls)
  IN IF wc.methods = <<>> /\ wc.fields = <<>> THEN <<>>
     ELSE <<[type |-> ClassShortName(cls.name), of |-> cls.name,
             fns |-> Each(LAMBDA m : ExternFnLine(m, ClassShortName(cls.name)), wc.methods)]>>

AddExterns(classes, decls, i) == decls \o EmitClass(classes[i])
EmitShimMochi ==
  LET decls[i \in 0..Len(surface)] == IF i = 0 THEN <<>> ELSE AddExterns(surface, decls[i - 1], i)
  IN decls[Len(surface)]

\* The reason is read off the text again.
Reasons ==
  {"SkipVarargs", "SkipNative", "SkipGeneric", "SkipWildcard", "SkipInnerClass", "SkipReflective",
   "SkipRawObject"}
ParseSkipReason(token) == IF token \in Reasons THEN token ELSE "SkipUnknown"

SkipReports == [class : Seq(STRING), name : Seq(STRING), reason : Reasons]
CollectSkips(cls) ==
  Each(LAMBDA s : [class |-> cls.name, name |-> s.name, reason |-> ParseSkipReason(s.reason)],
       Synth(cls).skips)

(***************************************************************************)
(* The loops of Pipeline.Run: a file per class, then a report per class, then *)
(* the shim.  A file of the same name is written over.                       *)
(***************************************************************************)
Past(next) ==
  IF pos < Len(surface) THEN pos' = pos + 1 /\ UNCHANGED step
  ELSE pos' = 1 /\ step' = next

WrapClass ==
  LET wc == Synth(surface[pos]) IN
  /\ step = "wrap"
  /\ files' = [f \in DOMAIN files \cup {wc.className} |->
                IF f = wc.className THEN EmitJavaSource(wc) ELSE files[f]]
  /\ Past("report")
  /\ UNCHANGED <<surface, report, shim>>

ReportSkips ==
  /\ step = "report"
  /\ report' = report \o CollectSkips(surface[pos])
  /\ Past("shim")
  /\ UNCHANGED <<surface, files, shim>>

WriteShim ==
  /\ step = "shim"
  /\ shim' = EmitShimMochi
  /\ step' = "done"
  /\ UNCHANGED <<surface, pos, files, report>>

SynthesisNext == WrapClass \/ ReportSkips \/ WriteShim

SynthesisSpec == SynthesisInit /\ [][SynthesisNext]_synthesisVars

(***************************************************************************)
(* Properties                                                               *)
(***************************************************************************)

\* What is said of a class of a name.
ReportsOf(reports, n) == Keep(reports, LAMBDA r : r.class = n)
DeclsOf(decls, n) == Keep(decls, LAMBDA d : d.of = n)

\* Of classes whose names give one identifier only the last has a file.
HasFile(i) ==
  \A j \in DOMAIN surface :
    WrapClassName(surface[j].name) = WrapClassName(surface[i].name) => j <= i
FileOf(i) == files[WrapClassName(surface[i].name)]

\* What may not cross: a method of variable arity, Object, a generic class without
\* its arguments, a wildcard, an inner class, a reflective API.
Crosses(t) ==
  /\ t.base \notin {"?"} \cup Reflective /\ Mentions[t] \cap InnerNames = {}
  /\ t.args = <<>> => t.base \notin Raw
Bindable(m) ==
  ~m.isVarargs /\ \A t \in {m.returnType} \cup ToSet(m.parameterTypes) : Crosses(t)

\* Synth, EmitJavaSource, CollectSkips: every public method of every class is in
\* the class's wrapper once, in order, or in the skip report once, with a reason:
\* errors.go:13 says of SkipUnknown that it "must never be emitted in practice".
EveryMethodIsAccountedFor ==
  step = "done" =>
    /\ \A i \in DOMAIN report : report[i].reason # "SkipUnknown"
    /\ \A i \in DOMAIN surface :
         LET c == surface[i]
             kept == Keep(Public(c.methods), Bindable)
             lost == Keep(Public(c.methods), LAMBDA m : ~Bindable(m))
             told == ReportsOf(report, c.name)
         IN /\ HasFile(i) => Each(LAMBDA m : m.origName, FileOf(i)) = Each(LAMBDA m : m.name, kept)
            /\ IsPrefix(Each(LAMBDA m : m.name, lost), Each(LAMBDA r : r.name, told))

\* How a value of a Mochi type crosses JNI: numbers and flags as themselves, bytes
\* as they are, an object as its handle, everything else as a text.
Crossing(mochi) ==
  CASE mochi[1] \in {"int", "long", "float", "double", "void"} -> mochi[1]
    [] mochi[1] = "bool" -> "boolean"
    [] mochi[1] = "bytes" -> "byte[]"
    [] mochi[1] \in {"handle", "type"} -> "long"
    [] OTHER -> "String"

\* EmitShimMochi against EmitJavaSource and typemap: a class is declared once at
\* most, and what is declared is what the class's wrapper has, method by method, with
\* the same number of parameters, and every type there is the one its Mochi type
\* crosses as.
ShimIsBacked ==
  step = "done" =>
    \A i \in DOMAIN surface : HasFile(i) =>
      LET decls == DeclsOf(shim, surface[i].name)
          fns == IF decls = <<>> THEN <<>> ELSE decls[1].fns
      IN /\ Len(decls) <= 1
         /\ Each(LAMBDA m : [name |-> m.name, returns |-> m.returns, params |-> m.params], FileOf(i))
              = Each(LAMBDA f : [name |-> f.name, returns |-> Crossing(f.returns),
                                 params |-> Each(Crossing, f.params)], fns)

\* Java's conversions for an argument: widening, boxing, and the type itself.
Widens == <<"byte", "short", "int", "long", "float", "double">>
Boxes == {<<"int", "java.lang.Integer">>, <<"long", "java.lang.Long">>,
          <<"float", "java.lang.Float">>, <<"double", "java.lang.Double">>,
          <<"boolean", "java.lang.Boolean">>}
Accepts(parameter, argument) ==
  \/ parameter = argument
  \/ <<argument.base, parameter.base>> \in Boxes
  \/ \E i, j \in DOMAIN Widens : i <= j /\ Widens[i] = argument.base /\ Widens[j] = parameter.base

\* emit.go:104 says that castArg returns "the argument expression for a parameter,
\* applying any needed cast".
ArgumentsAreCast ==
  \A n \in DOMAIN files : \A i \in DOMAIN files[n] :
    \A k \in DOMAIN files[n][i].takes :
      Accepts(files[n][i].takes[k], files[n][i].passes[k])

(***************************************************************************)
(* How far each pass has come: the inductive invariant of the proofs.        *)
(***************************************************************************)
Wrapped == IF step = "wrap" THEN pos - 1 ELSE Len(surface)
Reported ==
  CASE step = "wrap" -> 0 [] step = "report" -> pos - 1 [] OTHER -> Len(surface)

\* The file of a class is what it makes by itself, until a class of the same
\* identifier comes.
WrappersAreOwn ==
  \A i \in 1..Wrapped :
    (\A j \in (i + 1)..Wrapped : WrapClassName(surface[j].name) # WrapClassName(surface[i].name))
      => /\ WrapClassName(surface[i].name) \in DOMAIN files
         /\ FileOf(i) = EmitJavaSource(Synth(surface[i]))

\* What the report says of a class is what it says by itself, once.
ReportsAreOwn ==
  \A i \in DOMAIN surface :
    ReportsOf(report, surface[i].name)
      = IF i <= Reported THEN CollectSkips(surface[i]) ELSE <<>>

SynthesisInv ==
  /\ surface \in Surfaces
  /\ step \in {"wrap", "report", "shim", "done"}
  /\ step \in {"wrap", "report"} => pos \in 1..Len(surface)
  /\ report \in Seq(SkipReports)
  /\ WrappersAreOwn /\ ReportsAreOwn
  /\ step = "done" => shim = EmitShimMochi
=============================================================================
