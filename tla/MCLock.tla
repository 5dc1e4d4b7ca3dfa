------------------------------- MODULE MCLock -------------------------------
(* Small lock files for Lock: up to two packages. *)
EXTENDS Lock

ThreeFields == <<"jar-sha256", "wrapper-sha256", "dependencies">>
TwoHashes == {"jar-sha256", "wrapper-sha256"}
Maven == [kind |-> "maven", ref |-> Empty]
NoKind == [kind |-> NoText, ref |-> Empty]
Local(ref) == [kind |-> "path", ref |-> Plain(ref)]

Values == {Empty, Plain("x"), Plain("y")}
AllPackages(ids, sources, vals) ==
  {[id |-> i, version |-> v, source |-> s, field |-> f] :
     i \in ids, v \in {1, 2}, s \in sources,
     f \in [{"jar-sha256"} -> vals]
            \X [{"wrapper-sha256"} -> vals] \X [{"dependencies"} -> {Empty, Plain("d")}]}
Flat(ps) == {[p EXCEPT !.field = p.field[1] @@ p.field[2] @@ p.field[3]] : p \in ps}

One == Flat(AllPackages({1}, {Maven, NoKind, Local("dir")}, Values))
Few == Flat(AllPackages({1, 2}, {Maven}, {Empty, Plain("x")}))
Distinct(p, q) == p.id # q.id
Slices == {<<>>} \cup {<<p>> : p \in One} \cup {<<p, q>> : p, q \in {r \in Few : r.version = 1}}
TwoVersions == {<<p, q>> : p, q \in Flat(AllPackages({1}, {Maven}, {Plain("x"), Plain("y")}))}
BothVersions == {s \in TwoVersions : s[1].version # s[2].version}
Awkward == {<<p>> : p \in Flat(AllPackages({1}, {Local(Special)}, {Empty}))}
Usual == {s \in Slices : Len(s) = 2 => Distinct(s[1], s[2])} \cup BothVersions \cup Awkward
AllLines == {Blank, UnknownKey, Broken, Table}
=============================================================================
