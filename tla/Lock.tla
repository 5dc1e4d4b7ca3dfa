-------------------------------- MODULE Lock --------------------------------
(***************************************************************************)
(* The java-package tables of mochi.lock (lock/lock.go): Encode renders the  *)
(* resolved packages, Decode reads the file back line by line, Check compares *)
(* it with freshly resolved packages.  Between Encode and Decode the file may *)
(* be edited by hand.  A package is its group and artifact (one number), its *)
(* version, its source and its fields; a value is a text and how many times  *)
(* its special characters have been escaped.                                *)
(***************************************************************************)
EXTENDS Integers, Sequences, FiniteSets, SequencesExt, TLC

CONSTANTS
  Inputs,     \* the slices of packages that are encoded
  Insertions, \* lines an editor may add, among Blank, UnknownKey, Broken, Table
  Fields,     \* the optional fields, in the order they are written
  Hashes      \* those of them that Check compares

\* Values and lines.
NoText == "nothing"     \* the empty text
Plain(x) == [text |-> x, esc |-> 0]
Empty == Plain(NoText)
Special == "special"    \* a text with a character to escape
Quote(v) == IF v.text = Special THEN [v EXCEPT !.esc = @ + 1] ELSE v

Line(key, val) == [key |-> key, val |-> val]
Header == Line("[[java-package]]", Empty)
Blank == Line("#", Empty)             \* or a comment
UnknownKey == Line("unknown = 1", Empty) \* a key this version does not know
Broken == Line("no equals sign", Empty)
Table == Line("[[other]]", Empty)     \* a table of another tool

Package(id, version, source, field) ==
  [id |-> id, version |-> version, source |-> source, field |-> field]
NoPackage ==
  Package(0, 0, [kind |-> NoText, ref |-> Empty], [f \in ToSet(Fields) |-> Empty])
Added == [NoPackage EXCEPT !.id = 9]  \* a package nobody had locked

(***************************************************************************)
(* What the resolver and the format guarantee: no package is there twice in   *)
(* one version, the keys of the format are different, and a hash, which is in *)
(* hexadecimal, has nothing to escape.                                      *)
(***************************************************************************)
Packages ==
  [id : Nat \ {NoPackage.id, Added.id}, version : Nat,
   source : [kind : STRING, ref : [text : STRING, esc : {0}]],
   field : [ToSet(Fields) -> [text : STRING, esc : {0}]]]

IsResolved(ps) ==
  /\ ps \in Seq(Packages)
  /\ \A i, j \in 1..Len(ps) : ps[i].id = ps[j].id /\ ps[i].version = ps[j].version => i = j
  /\ \A i \in 1..Len(ps) : \A f \in Hashes : ps[i].field[f].text # Special

ASSUME InputsAssumption == \A ps \in Inputs : IsResolved(ps)

ASSUME FieldsAssumption ==
  /\ Fields \in Seq(STRING) /\ IsInjective(Fields) /\ Hashes \subseteq ToSet(Fields)
  /\ ToSet(Fields) \cap {"id", "version", "source", "package"} = {}
  /\ ToSet(Fields) \cap {l.key : l \in {Header, Blank, UnknownKey, Broken, Table}} = {}

VARIABLES
  packages, \* what Encode was given
  file,     \* the lines of the file
  edited,   \* the lines added by hand
  pos,      \* the line Decode reads next, 0 before Decode
  cur,      \* the package being read, NoPackage if none
  out,      \* packages read
  phase,    \* "resolved", "written", "decoding", "failed", "read", "checked"
  fresh,    \* what Check compares with
  drifts    \* what Check returned: package and field

vars == <<packages, file, edited, pos, cur, out, phase, fresh, drifts>>

Init ==
  /\ packages \in Inputs
  /\ file = <<>> /\ edited = <<>>
  /\ pos = 0 /\ cur = NoPackage /\ out = <<>>
  /\ phase = "resolved"
  /\ fresh = <<>> /\ drifts = {}

(***************************************************************************)
(* Encode.                                                                  *)
(***************************************************************************)
Before(p, q) == p.id < q.id \/ (p.id = q.id /\ p.version < q.version)

\* Wrong on purpose: entries in the order they were resolved in.
AsGiven(ps) == ps

Orders(ps) == {[i \in 1..Len(ps) |-> ps[f[i]]] : f \in Bijection(1..Len(ps), 1..Len(ps))}
Sorted(ps) == CHOOSE q \in Orders(ps) : \A i, j \in 1..Len(ps) : i < j => ~Before(q[j], q[i])

\* writeSource: a reference goes with a known kind only.
WriteSource(s) == [kind |-> s.kind, ref |-> IF s.kind = NoText THEN Empty ELSE Quote(s.ref)]

Start(p) ==
  <<Header, Line("id", p.id), Line("version", p.version), Line("source", WriteSource(p.source))>>

\* A field without a value is not written.
AddField(p, lines, i) ==
  LET f == Fields[i] IN
  IF p.field[f] = Empty THEN lines ELSE Append(lines, Line(f, Quote(p.field[f])))

WriteEntry(p) ==
  LET lines[i \in 0..Len(Fields)] == IF i = 0 THEN Start(p) ELSE AddField(p, lines[i - 1], i)
  IN lines[Len(Fields)]

AddPackage(ps, lines, i) == (IF i = 1 THEN lines ELSE Append(lines, Blank)) \o WriteEntry(ps[i])

Render(ps) ==
  LET sorted == Sorted(ps)
      lines[i \in 0..Len(ps)] == IF i = 0 THEN <<>> ELSE AddPackage(sorted, lines[i - 1], i)
  IN lines[Len(ps)]

Encode ==
  /\ phase = "resolved"
  /\ file' = Render(packages)
  /\ phase' = "written"
  /\ UNCHANGED <<packages, edited, pos, cur, out, fresh, drifts>>

\* One line is added by hand, anywhere.
Edit ==
  /\ phase = "written" /\ edited = <<>>
  /\ \E line \in Insertions, at \in 0..Len(file) :
       /\ file' = SubSeq(file, 1, at) \o <<line>> \o SubSeq(file, at + 1, Len(file))
       /\ edited' = <<line>>
  /\ UNCHANGED <<packages, pos, cur, out, phase, fresh, drifts>>

(***************************************************************************)
(* Decode: one step per line.                                               *)
(***************************************************************************)
StartDecode ==
  /\ phase = "written"
  /\ phase' = "decoding" /\ pos' = 1
  /\ UNCHANGED <<packages, file, edited, cur, out, fresh, drifts>>

Reading == phase = "decoding" /\ pos <= Len(file)
NextLine == pos' = pos + 1 /\ UNCHANGED <<packages, file, edited, fresh, drifts>>
Outside == cur = NoPackage
Flushed == IF Outside THEN out ELSE Append(out, cur)

\* Wrong on purpose: a package only leaves cur at the end of the file.
HeaderWithoutFlush ==
  /\ Reading /\ file[pos] = Header
  /\ cur' = [NoPackage EXCEPT !.id = -1]
  /\ NextLine /\ UNCHANGED <<out, phase>>

HeaderLine ==
  /\ Reading /\ file[pos] = Header
  /\ out' = Flushed
  /\ cur' = [NoPackage EXCEPT !.id = -1]
  /\ NextLine /\ UNCHANGED phase

\* Blank lines, comments, and whatever is outside a package.
SkipLine ==
  /\ Reading /\ file[pos] # Header
  /\ file[pos] = Blank \/ Outside
  /\ NextLine /\ UNCHANGED <<cur, out, phase>>

\* setField: the quotes are taken off, what they hold stays as it is.
FieldLine ==
  LET line == file[pos] IN
  /\ Reading /\ ~Outside /\ line \notin {Header, Blank, Broken, Table}
  /\ line.key = "source" => line.val.kind # NoText
  /\ CASE line.key = "id" -> cur' = [cur EXCEPT !.id = line.val]
       [] line.key = "version" -> cur' = [cur EXCEPT !.version = line.val]
       [] line.key = "source" -> cur' = [cur EXCEPT !.source = line.val]
       [] line.key \in ToSet(Fields) -> cur' = [cur EXCEPT !.field[line.key] = line.val]
       [] OTHER -> UNCHANGED cur
  /\ NextLine /\ UNCHANGED <<out, phase>>

\* A line without '=' or a source without a kind, inside a package.
BadLine ==
  /\ Reading /\ ~Outside
  /\ \/ file[pos] \in {Broken, Table}
     \/ file[pos].key = "source" /\ file[pos].val.kind = NoText
  /\ phase' = "failed" /\ out' = <<>>
  /\ UNCHANGED <<packages, file, edited, pos, cur, fresh, drifts>>

EndOfFile ==
  /\ phase = "decoding" /\ pos > Len(file)
  /\ out' = Flushed
  /\ cur' = NoPackage
  /\ phase' = "read"
  /\ UNCHANGED <<packages, file, edited, pos, fresh, drifts>>

(***************************************************************************)
(* Check.                                                                   *)
(***************************************************************************)

\* byKey: the last locked package with that group and artifact.
LockedAs(id) == {i \in 1..Len(out) : out[i].id = id}
ByKey(id) == out[CHOOSE i \in LockedAs(id) : \A j \in LockedAs(id) : j <= i]

\* Wrong on purpose: a hash that one side has not got counts as changed.
ChangedOrMissing(p, q) == {f \in Hashes : p.field[f] # q.field[f]}

Changed(p, q) ==
  {f \in Hashes : p.field[f] # Empty /\ q.field[f] # Empty /\ p.field[f] # q.field[f]}

CheckAgainst(fs) ==
  UNION {IF LockedAs(fs[i].id) = {} THEN {<<fs[i].id, "package">>}
         ELSE {<<fs[i].id, f>> : f \in Changed(ByKey(fs[i].id), fs[i])} : i \in 1..Len(fs)}

\* What may have been resolved meanwhile: the same packages, one fewer, another
\* version of one, one with another hash or with none, a new package.
Resolved ==
  LET n == Len(packages)
      With(i, p) == [packages EXCEPT ![i] = p] IN
  {packages, Append(packages, Added)}
  \cup {RemoveAt(packages, i) : i \in 1..n}
  \cup {With(i, [packages[i] EXCEPT !.version = 9]) : i \in 1..n}
  \cup {With(i, [packages[i] EXCEPT !.field[f] = v]) :
          i \in 1..n, f \in Hashes, v \in {Empty, Plain("new")}}

Check ==
  /\ phase = "read"
  /\ fresh' \in Resolved
  /\ drifts' = CheckAgainst(fresh')
  /\ phase' = "checked"
  /\ UNCHANGED <<packages, file, edited, pos, cur, out>>

Decode == StartDecode \/ HeaderLine \/ SkipLine \/ FieldLine \/ BadLine \/ EndOfFile
Next == Encode \/ Edit \/ Decode \/ Check
Spec == Init /\ [][Next]_vars

(***************************************************************************)
(* Properties                                                               *)
(***************************************************************************)

Harmless == ToSet(edited) \subseteq {Blank, UnknownKey}
IdsOf(ps) == {ps[i].id : i \in 1..Len(ps)}
Once(ps) == Cardinality(IdsOf(ps)) = Len(ps)

\* What a value becomes on the way: Decode leaves the escapes Encode put in.
Quoted(p) == Package(p.id, p.version, WriteSource(p.source),
                     [f \in ToSet(Fields) |-> Quote(p.field[f])])

NothingToEscape(p) ==
  p.source.ref.text # Special /\ \A f \in ToSet(Fields) : p.field[f].text # Special

\* Decode after Encode, on the packages whose sources have a kind and whose values
\* have no character to escape: it gives these packages back, sorted, wherever
\* blank lines, comments and unknown keys were added.  On the others it is not
\* the inverse: one without a kind makes it fail, always, and special characters
\* come back escaped, and nothing else is different.
InverseOnPlainPackages ==
  Harmless =>
    LET mine == ToSet(packages)
        ended == phase \in {"read", "checked"} IN
    /\ phase = "failed" => \E p \in mine : p.source.kind = NoText
    /\ ended => /\ \A p \in mine : p.source.kind # NoText
                /\ out = [i \in 1..Len(packages) |-> Quoted(Sorted(packages)[i])]
    /\ ended /\ (\A p \in mine : NothingToEscape(p)) => out = Sorted(packages)

\* Encode: the same packages in any order give the same file.  (No two of them
\* agree in group, artifact and version: a resolver has one of each.)
EncodeIsCanonical ==
  phase = "written" /\ edited = <<>> =>
    \A q \in SetToSeqs(ToSet(packages)) : Render(q) = file

\* Check after Decode reports exactly what changed: nothing for the packages
\* that were locked, a hash both sides have, a package that is new.
ReportsWhatChanged ==
  phase = "checked" /\ Once(packages) /\ Harmless =>
    /\ fresh = packages => drifts = {}
    /\ \A i \in 1..Len(fresh) :
         /\ fresh[i].id \notin IdsOf(packages) <=> <<fresh[i].id, "package">> \in drifts
         /\ \A f \in Hashes :
              (\E j \in 1..Len(packages) :
                 /\ packages[j].id = fresh[i].id
                 /\ {packages[j].field[f], fresh[i].field[f]} \cap {Empty} = {}
                 /\ packages[j].field[f] # fresh[i].field[f])
              <=> <<fresh[i].id, f>> \in drifts

\* lock.go:88 says of Check: "An empty result means the lock is current".
EmptyMeansCurrent ==
  phase = "checked" /\ drifts = {} =>
    {<<p.id, p.version>> : p \in ToSet(fresh)} = {<<p.id, p.version>> : p \in ToSet(out)}

\* lock.go:7-8 says of Encode: "the inverse Decode reads back the same shape",
\* and lock.go:213: "Decode parses the TOML body produced by Encode".
DecodeInvertsEncode ==
  edited = <<>> => /\ phase # "failed"
                   /\ phase \in {"read", "checked"} => out = Sorted(packages)
=============================================================================
