--------------------------- MODULE ReleaseProofs ---------------------------
(***************************************************************************)
(* What is proved about publishing and locking.  For any kind of bundle, any  *)
(* timeouts and any number of builds, rebuilt artifacts and uploads: a        *)
(* finished bundle carries the sums of its own data, an accepted one is       *)
(* whole, and the poll reports the verdict of its own deployment and reports  *)
(* it when it is in time.  For any packages, fields and edits: what Encode    *)
(* writes does not depend on the order it was given, Decode reads it back,    *)
(* and Check reports what changed.  BundleInv, DeploymentInv and LockInv are  *)
(* the inductive invariants.                                                *)
(***************************************************************************)
EXTENDS Lock, Bundle, Deployment, DataLemmas

-----------------------------------------------------------------------------
(* The Central Portal client.                                               *)

LEMMA InitDeploymentInv == DeploymentInit => DeploymentInv
  BY TimesAssumption
     DEF DeploymentInit, DeploymentInv, DeploymentTyped, StepsInOrder, VerdictsAreDated, InTime,
         MissedIsYoung, VerdictIsTrue, SettledInTimeIsSeen, Ids, States, Verdicts, Unknown, DryRunId

\* Time passes only while somebody waits, and never beyond the wait.
LEMMA TickKeeps == DeploymentInv /\ Tick => DeploymentInv'
  BY TimesAssumption
     DEF Tick, Waiting, DeploymentInv, DeploymentTyped, StepsInOrder, VerdictsAreDated, InTime,
         MissedIsYoung, VerdictIsTrue, SettledInTimeIsSeen, Ids, States, Verdicts, Unknown, DryRunId

\* The portal settles a deployment now, which no poll has read before.
LEMMA PortalKeeps ==
  ASSUME DeploymentInv, NEW i \in Ids, PortalMoves(i) \/ PortalRejects(i)
  PROVE  DeploymentInv'
  <1> USE DEF Ids, States, Verdicts, Unknown, DryRunId
  <1>1. /\ UNCHANGED <<clock, uploads, id, pc, since, deadline, reply, result>>
        /\ portal[i] \in {"PENDING", "VALIDATED"}
        /\ \E s \in States : portal' = [portal EXCEPT ![i] = s]
                        /\ settled' = [settled EXCEPT ![i] = IF s \in Verdicts THEN clock ELSE @]
    <2>1. CASE PortalMoves(i)
      <3>1. CASE portal[i] = "PENDING"
        <4>1. /\ portal' = [portal EXCEPT ![i] = "VALIDATED"]
              /\ settled' = [settled EXCEPT ![i] = IF "VALIDATED" \in Verdicts THEN clock ELSE @]
          BY <2>1, <3>1 DEF PortalMoves
        <4> QED
          BY <2>1, <4>1 DEF PortalMoves
      <3>2. CASE portal[i] = "VALIDATED"
        <4>1. /\ portal' = [portal EXCEPT ![i] = "PUBLISHED"]
              /\ settled' = [settled EXCEPT ![i] = IF "PUBLISHED" \in Verdicts THEN clock ELSE @]
          BY <2>1, <3>2 DEF PortalMoves
        <4> QED
          BY <2>1, <4>1 DEF PortalMoves
      <3> QED
        BY <2>1, <3>1, <3>2 DEF PortalMoves
    <2>2. CASE PortalRejects(i)
      BY <2>2 DEF PortalRejects
    <2> QED
      BY <2>1, <2>2
  <1>2. /\ \A j \in Ids : j # i => portal'[j] = portal[j] /\ settled'[j] = settled[j]
        /\ portal'[i] \in States /\ settled[i] = -1
        /\ settled'[i] = IF portal'[i] \in Verdicts THEN clock ELSE -1
    BY <1>1 DEF DeploymentInv, DeploymentTyped, VerdictsAreDated
  <1>3. DeploymentTyped'
    BY <1>1, <1>2 DEF DeploymentInv, DeploymentTyped
  <1>4. StepsInOrder' /\ InTime'
    BY <1>1, <1>2 DEF DeploymentInv, StepsInOrder, InTime
  <1>5. VerdictsAreDated' /\ VerdictIsTrue'
    BY <1>1, <1>2 DEF DeploymentInv, DeploymentTyped, StepsInOrder, VerdictsAreDated, VerdictIsTrue
  <1>6. MissedIsYoung' /\ SettledInTimeIsSeen'
    BY <1>1, <1>2, TimesAssumption
       DEF DeploymentInv, DeploymentTyped, InTime, MissedIsYoung, SettledInTimeIsSeen
  <1> QED
    BY <1>3, <1>4, <1>5, <1>6 DEF DeploymentInv

LEMMA UploadKeeps ==
  DeploymentInv /\ (UploadDry \/ Upload \/ Accepted \/ UploadFails) => DeploymentInv'
  <1> USE TimesAssumption
      DEF DeploymentInv, DeploymentTyped, StepsInOrder, VerdictsAreDated, InTime,
          MissedIsYoung, VerdictIsTrue, SettledInTimeIsSeen, Ids, States, Verdicts,
          Unknown, DryRunId
  <1>1. ASSUME DeploymentInv, UploadDry PROVE DeploymentInv'
    BY <1>1 DEF UploadDry
  <1>2. ASSUME DeploymentInv, Upload PROVE DeploymentInv'
    BY <1>2 DEF Upload
  <1>3. ASSUME DeploymentInv, Accepted PROVE DeploymentInv'
    BY <1>3 DEF Accepted
  <1>4. ASSUME DeploymentInv, UploadFails PROVE DeploymentInv'
    BY <1>4 DEF UploadFails
  <1> QED
    BY <1>1, <1>2, <1>3, <1>4

LEMMA PollKeeps == DeploymentInv /\ (Poll \/ Client) => DeploymentInv'
  <1> USE TimesAssumption
      DEF DeploymentInv, DeploymentTyped, StepsInOrder, VerdictsAreDated, InTime,
          MissedIsYoung, VerdictIsTrue, SettledInTimeIsSeen, Ids, States, Verdicts,
          Unknown, DryRunId
  <1>1. ASSUME DeploymentInv, Poll PROVE DeploymentInv'
    BY <1>1 DEF Poll
  <1>2. ASSUME DeploymentInv, Ask PROVE DeploymentInv'
    BY <1>2 DEF Ask
  <1>3. ASSUME DeploymentInv, TimesOut PROVE DeploymentInv'
    BY <1>3 DEF TimesOut, Return
  <1>4. ASSUME DeploymentInv, PortalReads PROVE DeploymentInv'
    BY <1>4 DEF PortalReads
  <1>5. ASSUME DeploymentInv, RequestFails PROVE DeploymentInv'
    BY <1>5 DEF RequestFails, Return
  <1>6. ASSUME DeploymentInv, Verdict PROVE DeploymentInv'
    BY <1>6 DEF Verdict, Return
  <1>7. ASSUME DeploymentInv, Sleep PROVE DeploymentInv'
    BY <1>7 DEF Sleep
  <1>8. ASSUME DeploymentInv, Wake PROVE DeploymentInv'
    BY <1>8 DEF Wake
  <1> QED
    BY <1>1, <1>2, <1>3, <1>4, <1>5, <1>6, <1>7, <1>8 DEF Client

LEMMA StepDeploymentInv == DeploymentInv /\ [DeploymentNext]_deploymentVars => DeploymentInv'
  <1>1. ASSUME DeploymentInv, UNCHANGED deploymentVars PROVE DeploymentInv'
    BY <1>1 DEF deploymentVars, DeploymentInv, DeploymentTyped, StepsInOrder, VerdictsAreDated,
                InTime, MissedIsYoung, VerdictIsTrue, SettledInTimeIsSeen
  <1> QED
    BY <1>1, TickKeeps, PortalKeeps, UploadKeeps, PollKeeps DEF DeploymentNext

\* PollUntilPublished reports the portal's verdict on the deployment whose id it
\* was given, whatever other uploads of the bundle arrived.
THEOREM VerdictsAreTrue == DeploymentSpec => []VerdictIsTrue
  <1>1. DeploymentInv => VerdictIsTrue
    BY DEF DeploymentInv
  <1> QED
    BY <1>1, InitDeploymentInv, StepDeploymentInv, PTL DEF DeploymentSpec

\* It times out only on a deployment that was not settled a round of the loop
\* before the deadline.
THEOREM InTimeIsSeen == DeploymentSpec => []SettledInTimeIsSeen
  <1>1. DeploymentInv => SettledInTimeIsSeen
    BY DEF DeploymentInv
  <1> QED
    BY <1>1, InitDeploymentInv, StepDeploymentInv, PTL DEF DeploymentSpec

-----------------------------------------------------------------------------
(* The bundle.                                                              *)

\* JAR and POM come first, an artifact has at most four entries, none twice.
LEMMA Layout ==
  /\ Len(Artifacts) = IF WithSources THEN 3 ELSE 2
  /\ Len(Parts) = IF Signed THEN 4 ELSE 3
  /\ Artifacts[1] = "jar" /\ Artifacts[2] = "pom" /\ (WithSources => Artifacts[3] = "sources")
  /\ Parts[1] = "data" /\ Parts[2] = "sha1" /\ Parts[3] = "md5" /\ (Signed => Parts[4] = "asc")
  <1> DEFINE Words == {"jar", "pom", "sources", "data", "sha1", "md5", "asc"}
             more == IF WithSources THEN <<"sources">> ELSE <<>>
             sig == IF Signed THEN <<"asc">> ELSE <<>>
             both == <<"jar", "pom">>
             sums == <<"data", "sha1", "md5">>
  <1>1. more \in Seq(Words) /\ sig \in Seq(Words) /\ both \in Seq(Words) /\ sums \in Seq(Words)
    <2>2. <<"sources">> \in Seq(Words) /\ <<"asc">> \in Seq(Words) /\ <<>> \in Seq(Words)
      BY EmptySeq
    <2>3. both \in Seq(Words)
      OBVIOUS
    <2>4. sums \in Seq(Words)
      OBVIOUS
    <2> QED
      BY <2>2, <2>3, <2>4
  <1>2. /\ Len(more) = IF WithSources THEN 1 ELSE 0
        /\ Len(sig) = IF Signed THEN 1 ELSE 0
        /\ Len(both) = 2 /\ Len(sums) = 3
        /\ WithSources => more[1] = "sources"
        /\ Signed => sig[1] = "asc"
        /\ both[1] = "jar" /\ both[2] = "pom"
        /\ sums[1] = "data" /\ sums[2] = "sha1" /\ sums[3] = "md5"
    OBVIOUS
  <1> HIDE DEF Words, more, sig, both, sums
  <1>3. /\ Len(both \o more) = 2 + Len(more)
        /\ \A i \in 1..(2 + Len(more)) :
             (both \o more)[i] = IF i <= 2 THEN both[i] ELSE more[i - 2]
    <2>1. /\ Len(both \o more) = Len(both) + Len(more)
          /\ \A i \in 1..(Len(both) + Len(more)) :
               (both \o more)[i] = IF i <= Len(both) THEN both[i] ELSE more[i - Len(both)]
      BY <1>1, ConcatProperties, Zenon
    <2> QED
      BY <1>2, <2>1
  <1>4. /\ Len(sums \o sig) = 3 + Len(sig)
        /\ \A i \in 1..(3 + Len(sig)) :
             (sums \o sig)[i] = IF i <= 3 THEN sums[i] ELSE sig[i - 3]
    <2>1. /\ Len(sums \o sig) = Len(sums) + Len(sig)
          /\ \A i \in 1..(Len(sums) + Len(sig)) :
               (sums \o sig)[i] = IF i <= Len(sums) THEN sums[i] ELSE sig[i - Len(sums)]
      BY <1>1, ConcatProperties, Zenon
    <2> QED
      BY <1>2, <2>1
  <1>5. Artifacts = both \o more /\ Parts = sums \o sig
    BY DEF Artifacts, Parts, both, more, sums, sig
  <1>6. /\ Len(Artifacts) = IF WithSources THEN 3 ELSE 2
        /\ Artifacts[1] = "jar" /\ Artifacts[2] = "pom" /\ (WithSources => Artifacts[3] = "sources")
    BY <1>2, <1>3, <1>5
  <1>7. /\ Len(Parts) = IF Signed THEN 4 ELSE 3
        /\ Parts[1] = "data" /\ Parts[2] = "sha1" /\ Parts[3] = "md5"
        /\ (Signed => Parts[4] = "asc")
    BY <1>2, <1>4, <1>5
  <1> QED
    BY <1>6, <1>7

LEMMA EntriesDiffer ==
  ASSUME NEW p \in Places, NEW q \in Places, Entry(p[1], p[2]) = Entry(q[1], q[2])
  PROVE  p = q
  BY Layout DEF Entry, Places

LEMMA RequiredEntries ==
  /\ Required = {Entry(1, 1), Entry(2, 1), Entry(1, 2), Entry(2, 2)}
  /\ {<<1, 1>>, <<2, 1>>, <<1, 2>>, <<2, 2>>} \subseteq Places
  BY Layout DEF Required, Entry, Places

LEMMA InitBundleInv == BundleInit => BundleInv
  <1> SUFFICES ASSUME BundleInit PROVE BundleInv
    OBVIOUS
  <1>1. disk \in [{"jar", "pom", "sources"} -> Versions]
    BY BundleAssumption DEF BundleInit, Versions
  <1>2. Len(Artifacts) \in 2..3 /\ Len(Parts) \in 3..4
    BY Layout
  <1>3. BundleTyped
    <2>1. at = 0 /\ part = 0 /\ built = "none"
      BY DEF BundleInit
    <2> QED
      <3>1. at \in 0..Len(Artifacts) + 1 /\ (at = Len(Artifacts) + 1 => part = 0)
        BY <1>2, <2>1
      <3>2. part \in 0..Len(Parts) - 1
        BY <1>2, <2>1
      <3>3. built \in {"none", "ok", "error"}
        BY <2>1
      <3> QED
        BY <1>1, <3>1, <3>2, <3>3 DEF BundleTyped
  <1> QED
    BY <1>2, <1>3 DEF BundleInit, BundleInv, WrittenMatch, DataIsRead, OpensWhenBuilt

\* Rebuilding, damage and DryRun leave the entries of the ZIP as they are.
LEMMA OutsideKeeps ==
  ASSUME BundleInv,
         \/ \E a \in {"jar", "pom", "sources"} : Rebuild(a)
         \/ \E n \in Names : Damage(n)
         \/ DryRun
         \/ UNCHANGED bundleVars
  PROVE  BundleInv'
  <1>1. UNCHANGED <<at, read, part, zip, closed, built>>
    BY DEF Rebuild, Damage, DryRun, bundleVars
  <1>2. disk' \in [{"jar", "pom", "sources"} -> Versions]
    BY BundleAssumption
       DEF BundleInv, BundleTyped, Rebuild, Damage, DryRun, bundleVars, Versions
  <1>3. accepted' => closed /\ HasRequired /\ Required \cap damaged' = {}
    BY DEF BundleInv, OpensWhenBuilt, Rebuild, Damage, DryRun, bundleVars, Opens, Required,
           SHA1Matches, Readable
  <1> QED
    BY <1>1, <1>2, <1>3
       DEF BundleInv, BundleTyped, WrittenMatch, Written, DataIsRead, OpensWhenBuilt, HasRequired

\* The next entry joins those written, with the version they have.
LEMMA AddEntryKeeps ==
  ASSUME BundleInv, AddEntry
  PROVE  BundleInv'
  <1> DEFINE name == Entry(at, part + 1)
             place == <<at, part + 1>>
             last == part + 1 = Len(Parts)
  <1>1. /\ at \in 1..Len(Artifacts) /\ read # 0 /\ part \in 0..Len(Parts) - 1
        /\ zip' = [n \in DOMAIN zip \cup {name} |-> IF n = name THEN read ELSE zip[n]]
        /\ part' = IF last THEN 0 ELSE part + 1
        /\ read' = IF last THEN 0 ELSE read
        /\ at' = IF last THEN at + 1 ELSE at
        /\ UNCHANGED <<disk, closed, damaged, built, accepted>>
    BY DEF AddEntry, AddEntryOf, Entry, BundleInv, BundleTyped
  <1>2. built = "none" /\ ~closed /\ ~accepted
    BY <1>1 DEF BundleInv, OpensWhenBuilt, BundleTyped
  <1>3. place \in Places /\ Len(Parts) \in 3..4 /\ Len(Artifacts) \in 2..3
    BY <1>1, Layout DEF Places
  <1>4. Written' \subseteq Written \cup {place}
    BY <1>1, <1>2, <1>3 DEF Written, Places
  <1>5. ASSUME NEW q \in Written
        PROVE  /\ Entry(q[1], q[2]) \in DOMAIN zip /\ Entry(q[1], q[2]) # name
               /\ zip[Entry(q[1], q[2])] = zip[Entry(q[1], 1)]
    <2>1. q \in Places /\ q # place
      BY <1>1, <1>2 DEF Written, Places
    <2>2. Entry(q[1], q[2]) # name
      BY <1>3, <2>1, EntriesDiffer
    <2> QED
      BY <1>1, <2>2 DEF BundleInv, WrittenMatch
  <1>6. \A n \in DOMAIN zip : n # name => zip'[n] = zip[n]
    BY <1>1
  <1>7. ASSUME NEW q \in Written
        PROVE  /\ Entry(q[1], q[2]) \in DOMAIN zip'
               /\ zip'[Entry(q[1], q[2])] = zip'[Entry(q[1], 1)]
    <2>1. <<q[1], 1>> \in Written
      <3>1. q[1] \in 1..Len(Artifacts) /\ q[2] \in 1..Len(Parts)
        BY DEF Written, Places
      <3>2. q[1] < at \/ (q[1] = at /\ q[2] <= part)
        BY <1>2 DEF Written
      <3>3. <<q[1], 1>> \in Places
        BY <1>3, <3>1 DEF Places
      <3> QED
        BY <1>1, <1>3, <3>1, <3>2, <3>3 DEF Written
    <2>2. /\ zip'[Entry(q[1], q[2])] = zip[Entry(q[1], q[2])]
          /\ zip'[Entry(q[1], 1)] = zip[Entry(q[1], 1)]
      BY <1>5, <1>6, <2>1
    <2> QED
      BY <1>1, <1>5, <2>2
  <1>8. name \in DOMAIN zip' /\ zip'[name] = read /\ zip'[Entry(at, 1)] = read
    <2>1. CASE part = 0
      BY <1>1, <2>1
    <2>2. CASE part # 0
      <3>1. <<at, 1>> \in Written /\ zip[Entry(at, 1)] = read
        BY <1>1, <1>3, <2>2 DEF Written, Places, BundleInv, DataIsRead
      <3> QED
        BY <1>1, <1>5, <1>6, <3>1
    <2> QED
      BY <2>1, <2>2
  <1>9. WrittenMatch'
    BY <1>4, <1>7, <1>8 DEF WrittenMatch
  <1>10. DataIsRead'
    BY <1>1, <1>8 DEF DataIsRead
  <1>11. BundleTyped'
    BY <1>1, <1>3 DEF BundleInv, BundleTyped
  <1> QED
    BY <1>1, <1>2, <1>9, <1>10, <1>11 DEF BundleInv, OpensWhenBuilt

\* The other steps of a build: it starts with nothing, and ends for good or ill.
LEMMA BuildKeeps ==
  ASSUME BundleInv, Create \/ Read \/ Finish \/ Fail
  PROVE  BundleInv'
  <1>0. Len(Artifacts) \in 2..3 /\ Len(Parts) \in 3..4
    BY Layout
  <1>1. CASE Create
    <2>1. Written' = {}
      BY <1>0, <1>1 DEF Create, Written, Places
    <2>2. BundleTyped'
      BY <1>0, <1>1 DEF Create, BundleInv, BundleTyped
    <2>3. WrittenMatch' /\ DataIsRead'
      BY <1>1, <2>1 DEF Create, WrittenMatch, DataIsRead
    <2>4. OpensWhenBuilt'
      BY <1>1 DEF Create, OpensWhenBuilt
    <2> QED
      BY <2>2, <2>3, <2>4 DEF BundleInv
  <1>2. CASE Read
    <2>1. Written' = Written /\ part = 0
      BY <1>2 DEF Read, Written, BundleInv, BundleTyped, DataIsRead
    <2> QED
      BY <1>2, <2>1
         DEF Read, BundleInv, BundleTyped, WrittenMatch, DataIsRead, OpensWhenBuilt, HasRequired
  <1>3. CASE Finish
    <2>1. Written = Places /\ Written' = Places
      BY <1>0, <1>3 DEF Finish, Written, Places
    <2> QED
      BY <1>0, <1>3, <2>1
         DEF Finish, BundleInv, BundleTyped, WrittenMatch, DataIsRead, OpensWhenBuilt, HasRequired
  <1>4. CASE Fail
    BY <1>0, <1>4
       DEF Fail, BundleInv, BundleTyped, WrittenMatch, DataIsRead, OpensWhenBuilt, HasRequired
  <1> QED
    BY <1>1, <1>2, <1>3, <1>4

LEMMA StepBundleInv == BundleInv /\ [BundleNext]_bundleVars => BundleInv'
  BY OutsideKeeps, AddEntryKeeps, BuildKeeps DEF BundleNext

\* In a finished bundle every checksum and signature is of the data beside it,
\* however often artifacts are rebuilt and builds fail.
THEOREM FinishedSumsMatch == BundleSpec => []SumsAreOfTheData
  <1>1. ASSUME BundleInv PROVE SumsAreOfTheData
    <2> SUFFICES ASSUME built = "ok", NEW i \in 1..Len(Artifacts), NEW j \in 1..Len(Parts)
                 PROVE  /\ Entry(i, j) \in DOMAIN zip
                        /\ zip[Entry(i, j)] = zip[<<Artifacts[i], "data">>]
      BY DEF SumsAreOfTheData, Entry
    <2>1. <<i, j>> \in Written
      BY DEF Written, Places
    <2> QED
      BY <1>1, <2>1, Layout DEF BundleInv, WrittenMatch, Entry
  <1> QED
    BY <1>1, InitBundleInv, StepBundleInv, PTL DEF BundleSpec

\* DryRun accepts a finished bundle with an intact JAR and POM or none.
THEOREM AcceptedAreWhole == BundleSpec => []AcceptedIsWhole
  <1>1. ASSUME BundleInv PROVE AcceptedIsWhole
    BY <1>1 DEF BundleInv, OpensWhenBuilt, HasRequired, AcceptedIsWhole
  <1> QED
    BY <1>1, InitBundleInv, StepBundleInv, PTL DEF BundleSpec

-----------------------------------------------------------------------------
(* The lock file.                                                           *)

(***************************************************************************)
(* Encode sorts.                                                            *)
(***************************************************************************)
Elements(s) == {s[i] : i \in 1..Len(s)}

LEMMA BeforeOrders ==
  ASSUME NEW p \in Packages, NEW q \in Packages
  PROVE  /\ ~Before(p, p)
         /\ Before(p, q) => ~Before(q, p)
         /\ \A r \in Packages : Before(p, q) /\ Before(q, r) => Before(p, r)
         /\ ~Before(p, q) /\ ~Before(q, p) => p.id = q.id /\ p.version = q.version
  <1>1. \A r \in Packages : r.id \in Nat /\ r.version \in Nat
    BY DEF Packages
  <1>2. \A x, y, u, v, w, z \in Nat :
          /\ ~(x < x \/ (x = x /\ y < y))
          /\ (x < u \/ (x = u /\ y < v)) => ~(u < x \/ (u = x /\ v < y))
          /\ (x < u \/ (x = u /\ y < v)) /\ (u < w \/ (u = w /\ v < z)) => x < w \/ (x = w /\ y < z)
          /\ x < u \/ (x = u /\ y < v) \/ u < x \/ (u = x /\ v < y) \/ (x = u /\ y = v)
    OBVIOUS
  <1> QED
    BY <1>1, <1>2 DEF Before

\* Sorting gives the packages themselves, strictly in the order of their keys.
LEMMA SortedIsInOrder ==
  ASSUME NEW ps, IsResolved(ps)
  PROVE  /\ Sorted(ps) \in Seq(Packages) /\ Len(Sorted(ps)) = Len(ps)
         /\ Elements(Sorted(ps)) = Elements(ps)
         /\ \A i, j \in 1..Len(ps) : i < j => Before(Sorted(ps)[i], Sorted(ps)[j])
  <1> DEFINE n == Len(ps)
             D == 1..n
             Behind(i) == {j \in D : Before(ps[j], ps[i])}
             r == [i \in D |-> Cardinality(Behind(i)) + 1]
  <1>1. /\ n \in Nat /\ \A i \in D : ps[i] \in Packages
        /\ \A i, j \in D : ps[i].id = ps[j].id /\ ps[i].version = ps[j].version => i = j
    BY DEF IsResolved
  <1>2. IsFiniteSet(D) /\ Cardinality(D) = n
    BY <1>1, CountTo
  <1>3. \A i \in D : Behind(i) \in SUBSET D /\ i \notin Behind(i)
    BY <1>1, BeforeOrders
  <1>4. \A i, j \in D : Before(ps[i], ps[j]) => Behind(i) \subseteq Behind(j) /\ i \in Behind(j)
    BY <1>1, BeforeOrders
  <1> HIDE DEF D, Behind
  <1>5. \A i \in D : IsFiniteSet(Behind(i)) /\ Cardinality(Behind(i)) \in Nat
    BY <1>2, <1>3, FS_Subset, FS_CardinalityType
  <1>6. \A i \in D : Cardinality(Behind(i)) < n
    <2> SUFFICES ASSUME NEW i \in D PROVE Cardinality(Behind(i)) < n
      OBVIOUS
    <2>1. Cardinality(Behind(i)) <= n /\ (n = Cardinality(Behind(i)) => D = Behind(i))
      BY <1>2, <1>3, FS_Subset
    <2> QED
      BY <1>1, <1>3, <1>5, <2>1
  <1>7. r \in [D -> D]
    BY <1>1, <1>5, <1>6 DEF D
  <1>8. \A i, j \in D : Before(ps[i], ps[j]) => r[i] < r[j]
    <2> SUFFICES ASSUME NEW i \in D, NEW j \in D, Before(ps[i], ps[j])
                 PROVE  r[i] < r[j]
      OBVIOUS
    <2>1. Behind(i) \in SUBSET Behind(j) /\ Behind(i) # Behind(j)
      BY <1>3, <1>4
    <2>2. Cardinality(Behind(i)) <= Cardinality(Behind(j))
          /\ (Cardinality(Behind(j)) = Cardinality(Behind(i)) => Behind(j) = Behind(i))
      BY <1>5, <2>1, FS_Subset
    <2> QED
      BY <1>5, <2>1, <2>2
  <1> HIDE DEF r
  <1>9. \A i, j \in D : r[i] = r[j] => i = j
    BY <1>1, <1>7, <1>8, BeforeOrders DEF D
  <1>10. \A k \in D : \E i \in D : r[i] = k
    <2>1. r \in Injection(D, D)
      BY <1>7, <1>9 DEF Injection, IsInjective
    <2>2. r \in Surjection(D, D)
      BY <1>2, <2>1, FS_Injection
    <2> QED
      BY <2>2 DEF Surjection
  <1> DEFINE f == [k \in D |-> CHOOSE i \in D : r[i] = k]
             q == [k \in D |-> ps[f[k]]]
  <1>11. f \in [D -> D] /\ \A k \in D : r[f[k]] = k
    BY <1>10
  <1> HIDE DEF f
  <1>12. f \in Bijection(D, D)
    <2>1. \A i, j \in D : f[i] = f[j] => i = j
      BY <1>11
    <2>2. \A i \in D : f[r[i]] = i
      BY <1>7, <1>9, <1>11
    <2> QED
      BY <1>7, <1>11, <2>1, <2>2 DEF Bijection, Injection, Surjection, IsInjective
  <1>13. q \in Orders(ps)
    BY <1>12 DEF Orders, D
  <1>14. \A i, j \in D : i < j => ~Before(q[j], q[i])
    <2> SUFFICES ASSUME NEW i \in D, NEW j \in D, i < j, Before(ps[f[j]], ps[f[i]])
                 PROVE  FALSE
      OBVIOUS
    <2>1. r[f[j]] < r[f[i]]
      BY <1>8, <1>11
    <2> QED
      BY <1>1, <1>11, <2>1 DEF D
  <1> DEFINE s == Sorted(ps)
  <1>15. s \in Orders(ps) /\ \A i, j \in D : i < j => ~Before(s[j], s[i])
    <2> HIDE DEF q
    <2> QED
      BY <1>13, <1>14 DEF Sorted, D
  <1>16. PICK g \in Bijection(D, D) : s = [i \in D |-> ps[g[i]]]
    BY <1>15 DEF Orders, D
  <1> HIDE DEF s
  <1>17. /\ g \in [D -> D] /\ (\A i, j \in D : g[i] = g[j] => i = j)
         /\ \A i \in D : \E k \in D : g[k] = i
    BY <1>16 DEF Bijection, Injection, Surjection, IsInjective
  <1>18. s \in [D -> Packages]
    BY <1>1, <1>16, <1>17
  <1>19. s \in Seq(Packages) /\ Len(s) = n
    BY <1>1, <1>18 DEF D
  <1>20. Elements(s) = Elements(ps)
    <2>1. \A i \in D : s[i] = ps[g[i]] /\ g[i] \in D
      BY <1>16, <1>17
    <2>2. Elements(s) = {s[i] : i \in D} /\ Elements(ps) = {ps[i] : i \in D}
      BY <1>19 DEF Elements, D
    <2> QED
      BY <1>17, <2>1, <2>2
  <1>21. \A i, j \in D : i < j => Before(s[i], s[j])
    <2> SUFFICES ASSUME NEW i \in D, NEW j \in D, i < j
                 PROVE  Before(s[i], s[j])
      OBVIOUS
    <2>1. i # j
      BY <1>1 DEF D
    <2>2. g[i] # g[j] /\ g[i] \in D /\ g[j] \in D /\ s[i] = ps[g[i]] /\ s[j] = ps[g[j]]
      BY <1>16, <1>17, <2>1
    <2> QED
      BY <1>1, <1>15, <2>2, BeforeOrders
  <1> QED
    BY <1>19, <1>20, <1>21 DEF s, D

\* Two sequences in that order with the same elements are the same.
LEMMA OrderIsUnique ==
  ASSUME NEW s \in Seq(Packages), NEW t \in Seq(Packages), Len(s) = Len(t),
         Elements(s) = Elements(t),
         \A i, j \in 1..Len(s) : i < j => Before(s[i], s[j]) /\ Before(t[i], t[j])
  PROVE  s = t
  <1> DEFINE n == Len(s)
             T == {m \in 0..n : \A i \in 1..m : s[i] = t[i]}
  <1>1. /\ n \in Nat /\ \A i \in 1..n : s[i] \in Packages /\ t[i] \in Packages
        /\ s = [i \in 1..n |-> s[i]] /\ t = [i \in 1..n |-> t[i]]
        /\ \A i, j \in 1..n : i < j => Before(s[i], s[j]) /\ Before(t[i], t[j])
    OBVIOUS
  <1>2. \A i, j \in 1..n : Before(s[i], s[j]) => i < j
    <2> SUFFICES ASSUME NEW i \in 1..n, NEW j \in 1..n, Before(s[i], s[j]) PROVE i < j
      OBVIOUS
    <2>1. CASE i = j
      BY <1>1, <2>1, BeforeOrders
    <2>2. CASE j < i
      BY <1>1, <2>2, BeforeOrders
    <2> QED
      BY <1>1, <2>1, <2>2
  <1>3. \A i, j \in 1..n : Before(t[i], t[j]) => i < j
    <2> SUFFICES ASSUME NEW i \in 1..n, NEW j \in 1..n, Before(t[i], t[j]) PROVE i < j
      OBVIOUS
    <2>1. CASE i = j
      BY <1>1, <2>1, BeforeOrders
    <2>2. CASE j < i
      BY <1>1, <2>2, BeforeOrders
    <2> QED
      BY <1>1, <2>1, <2>2
  <1>4. /\ \A i \in 1..n : \E j \in 1..n : s[i] = t[j]
        /\ \A i \in 1..n : \E j \in 1..n : t[i] = s[j]
    BY DEF Elements
  <1> HIDE DEF n
  <1>5. 0 \in T
    BY <1>1
  <1>6. ASSUME NEW m \in 0..(n - 1), m \in T
        PROVE  m + 1 \in T
    <2>1. m + 1 \in 1..n /\ \A i \in 1..m : i \in 1..n /\ i < m + 1
      BY <1>1
    <2>2. PICK k \in 1..n : s[m + 1] = t[k]
      BY <1>4, <2>1
    <2>3. PICK l \in 1..n : t[m + 1] = s[l]
      BY <1>4, <2>1
    <2>4. ~(k < m + 1)
      <3> SUFFICES ASSUME k < m + 1 PROVE FALSE
        OBVIOUS
      <3>1. k \in 1..m /\ s[k] = t[k]
        <4>1. k \in 1..m
          BY <1>1, <2>2
        <4> QED
          BY <1>6, <4>1
      <3>2. Before(s[k], s[m + 1])
        BY <1>1, <2>1, <3>1
      <3> QED
        BY <1>1, <2>1, <2>2, <3>1, <3>2, BeforeOrders
    <2>5. ~(l < m + 1)
      <3> SUFFICES ASSUME l < m + 1 PROVE FALSE
        OBVIOUS
      <3>1. l \in 1..m /\ s[l] = t[l]
        <4>1. l \in 1..m
          BY <1>1, <2>3
        <4> QED
          BY <1>6, <4>1
      <3>2. Before(t[l], t[m + 1])
        BY <1>1, <2>1, <3>1
      <3> QED
        BY <1>1, <2>1, <2>3, <3>1, <3>2, BeforeOrders
    <2>6. ~(m + 1 < k)
      <3> SUFFICES ASSUME m + 1 < k PROVE FALSE
        OBVIOUS
      <3>1. Before(t[m + 1], t[k])
        BY <1>1, <2>1, <2>2
      <3>2. Before(s[l], s[m + 1])
        BY <2>2, <2>3, <3>1
      <3>3. l < m + 1
        BY <1>2, <2>1, <3>2
      <3> QED
        BY <2>5, <3>3
    <2>7. k = m + 1
      BY <1>1, <2>4, <2>6
    <2>8. \A i \in 1..(m + 1) : i \in 1..m \/ i = m + 1
      BY <1>1
    <2> QED
      <3>1. s[m + 1] = t[m + 1] /\ m + 1 \in 0..n
        BY <1>1, <2>1, <2>2, <2>7
      <3>2. \A i \in 1..m : s[i] = t[i]
        BY <1>6
      <3> QED
        BY <2>8, <3>1, <3>2
  <1>7. n \in T
    <2> HIDE DEF T
    <2>1. 0..n \subseteq T
      BY <1>1, <1>5, <1>6, ClimbTo
    <2> QED
      BY <1>1, <2>1
  <1> QED
    BY <1>1, <1>7 DEF n

(***************************************************************************)
(* Decode as a loop over lines, from a reading: the package at hand, those    *)
(* read, and whether a line has failed.                                     *)
(***************************************************************************)
Reading3(c, o, k) == [cur |-> c, out |-> o, ok |-> k]
IsReading(r) == r = Reading3(r.cur, r.out, r.ok)
Begin == Reading3(NoPackage, <<>>, TRUE)
Opened == [NoPackage EXCEPT !.id = -1]
FlushedBy(r) == IF r.cur = NoPackage THEN r.out ELSE Append(r.out, r.cur)

SetField(c, line) ==
  CASE line.key = "id" -> [c EXCEPT !.id = line.val]
    [] line.key = "version" -> [c EXCEPT !.version = line.val]
    [] line.key = "source" -> [c EXCEPT !.source = line.val]
    [] line.key \in ToSet(Fields) -> [c EXCEPT !.field[line.key] = line.val]
    [] OTHER -> c

ReadLine(r, line) ==
  IF ~r.ok THEN r
  ELSE IF line = Header THEN Reading3(Opened, FlushedBy(r), TRUE)
  ELSE IF line = Blank \/ r.cur = NoPackage THEN r
  ELSE IF line \in {Broken, Table} \/ (line.key = "source" /\ line.val.kind = NoText)
    THEN Reading3(r.cur, r.out, FALSE)
  ELSE Reading3(SetField(r.cur, line), r.out, TRUE)

ReadNext(lines, r, i) == ReadLine(r, lines[i])
Decoding == INSTANCE Loops WITH Step <- ReadNext
Writing == INSTANCE Loops WITH Step <- AddField
Rendering == INSTANCE Loops WITH Step <- AddPackage
After(lines, r, n) == (CHOOSE v : Decoding!IsLoop(v, lines, r, Len(lines)))[n]
AfterAll(lines, r) == After(lines, r, Len(lines))

LEMMA AfterUnfolds ==
  ASSUME NEW lines, Len(lines) \in Nat, NEW r
  PROVE  /\ After(lines, r, 0) = r
         /\ \A n \in 0..(Len(lines) - 1) :
              After(lines, r, n + 1) = ReadLine(After(lines, r, n), lines[n + 1])
  <1> DEFINE v == CHOOSE w : Decoding!IsLoop(w, lines, r, Len(lines))
             m == Len(lines)
  <1>1. \E w : Decoding!IsLoop(w, lines, r, m)
    BY Decoding!LoopExists
  <1>2. Decoding!IsLoop(v, lines, r, m)
    BY <1>1
  <1> HIDE DEF v
  <1>3. v = [i \in 0..m |-> IF i = 0 THEN r ELSE ReadLine(v[i - 1], lines[i])]
    BY <1>2 DEF Decoding!IsLoop, ReadNext
  <1> HIDE DEF m
  <1>4. m \in Nat
    BY DEF m
  <1>5. v[0] = r
    BY <1>3, <1>4
  <1>6. ASSUME NEW n \in 0..(m - 1)
        PROVE  v[n + 1] = ReadLine(v[n], lines[n + 1])
    <2>1. n + 1 \in 0..m /\ n + 1 # 0 /\ (n + 1) - 1 = n
      BY <1>4
    <2>2. v[n + 1] = IF n + 1 = 0 THEN r ELSE ReadLine(v[(n + 1) - 1], lines[n + 1])
      BY <1>3, <2>1, Zenon
    <2> QED
      BY <2>1, <2>2
  <1> QED
    BY <1>5, <1>6 DEF After, v, m

\* Reading one text after another.
LEMMA AfterConcat ==
  ASSUME NEW S, NEW s \in Seq(S), NEW t \in Seq(S), NEW r
  PROVE  AfterAll(s \o t, r) = AfterAll(t, AfterAll(s, r))
  <1> DEFINE m == Len(s)
             n == Len(t)
             u == s \o t
             x == AfterAll(s, r)
  <1>1. /\ m \in Nat /\ n \in Nat /\ Len(u) = m + n
        /\ \A i \in 1..(m + n) : u[i] = IF i <= m THEN s[i] ELSE t[i - m]
    BY LenProperties, ConcatProperties
  <1>2. /\ After(s, r, 0) = r
        /\ \A i \in 0..(m - 1) : After(s, r, i + 1) = ReadLine(After(s, r, i), s[i + 1])
    BY <1>1, AfterUnfolds
  <1>3. /\ After(t, x, 0) = x
        /\ \A i \in 0..(n - 1) : After(t, x, i + 1) = ReadLine(After(t, x, i), t[i + 1])
    BY <1>1, AfterUnfolds
  <1>4. /\ After(u, r, 0) = r
        /\ \A i \in 0..(m + n - 1) : After(u, r, i + 1) = ReadLine(After(u, r, i), u[i + 1])
    <2>1. Len(u) \in Nat
      BY <1>1
    <2>2. /\ After(u, r, 0) = r
          /\ \A i \in 0..(Len(u) - 1) : After(u, r, i + 1) = ReadLine(After(u, r, i), u[i + 1])
      <3> HIDE DEF u
      <3> QED
        BY <2>1, AfterUnfolds
    <2> QED
      BY <1>1, <2>2
  <1>5. x = After(s, r, m)
    BY DEF AfterAll
  <1> DEFINE T == {i \in 0..m : After(u, r, i) = After(s, r, i)}
             U == {i \in 0..n : After(u, r, m + i) = After(t, x, i)}
  <1> HIDE DEF m, n, u, x
  <1>6. m \in T
    <2>1. 0 \in T
      BY <1>1, <1>2, <1>4
    <2>2. ASSUME NEW i \in 0..(m - 1), i \in T
          PROVE  i + 1 \in T
      <3>1. i + 1 \in 0..m /\ i \in 0..(m + n - 1) /\ u[i + 1] = s[i + 1]
        BY <1>1
      <3> QED
        BY <1>2, <1>4, <2>2, <3>1
    <2> HIDE DEF T
    <2>3. 0..m \subseteq T
      BY <1>1, <2>1, <2>2, ClimbTo
    <2> QED
      BY <1>1, <2>3
  <1>7. n \in U
    <2>1. 0 \in U
      BY <1>1, <1>3, <1>5, <1>6
    <2>2. ASSUME NEW i \in 0..(n - 1), i \in U
          PROVE  i + 1 \in U
      <3>1. /\ i + 1 \in 0..n /\ m + i \in 0..(m + n - 1) /\ (m + i) + 1 = m + (i + 1)
            /\ (m + i) + 1 \in 1..(m + n) /\ ~((m + i) + 1 <= m) /\ ((m + i) + 1) - m = i + 1
        BY <1>1
      <3>2. u[(m + i) + 1] = t[i + 1]
        <4> DEFINE k == (m + i) + 1
        <4>1. k \in 1..(m + n) /\ ~(k <= m) /\ k - m = i + 1
          BY <3>1
        <4> HIDE DEF k
        <4>2. u[k] = t[i + 1]
          BY <1>1, <4>1
        <4> QED
          BY <4>2 DEF k
      <3>3. After(u, r, (m + i) + 1) = ReadLine(After(u, r, m + i), u[(m + i) + 1])
        BY <1>4, <3>1
      <3>4. After(t, x, i + 1) = ReadLine(After(t, x, i), t[i + 1])
        BY <1>3
      <3> QED
        BY <2>2, <3>1, <3>2, <3>3, <3>4
    <2> HIDE DEF U
    <2>3. 0..n \subseteq U
      BY <1>1, <2>1, <2>2, ClimbTo
    <2> QED
      BY <1>1, <2>3
  <1> QED
    BY <1>1, <1>7 DEF AfterAll, m, n, u, x

LEMMA AfterAppend ==
  ASSUME NEW S, NEW s \in Seq(S), NEW l \in S, NEW r
  PROVE  AfterAll(Append(s, l), r) = ReadLine(AfterAll(s, r), l)
  <1>1. <<l>> \in Seq(S) /\ Append(s, l) = s \o <<l>> /\ Len(<<l>>) = 1 /\ <<l>>[1] = l
    OBVIOUS
  <1> DEFINE x == AfterAll(s, r)
             o == <<l>>
  <1>3. Len(o) = 1 /\ Len(o) \in Nat /\ o[1] = l /\ o \in Seq(S) /\ Append(s, l) = s \o o
    BY <1>1
  <1> HIDE DEF x, o
  <1>2. AfterAll(Append(s, l), r) = AfterAll(o, x)
    BY <1>3, AfterConcat DEF x
  <1>4. /\ After(o, x, 0) = x
        /\ \A n \in 0..(Len(o) - 1) : After(o, x, n + 1) = ReadLine(After(o, x, n), o[n + 1])
    BY <1>3, AfterUnfolds
  <1>5. After(o, x, 1) = ReadLine(x, l)
    <2>1. 0 \in 0..(Len(o) - 1) /\ 0 + 1 = 1
      BY <1>3
    <2>2. After(o, x, 0 + 1) = ReadLine(After(o, x, 0), o[0 + 1])
      BY <1>4, <2>1
    <2> QED
      BY <1>3, <1>4, <2>1, <2>2
  <1>6. AfterAll(o, x) = ReadLine(x, l)
    BY <1>3, <1>5 DEF AfterAll
  <1> QED
    BY <1>2, <1>6 DEF x

\* A reading stays one, and stays failed.
LEMMA ReadingStays ==
  ASSUME NEW lines, Len(lines) \in Nat, NEW r, IsReading(r), r.ok \in BOOLEAN
  PROVE  \A n \in 0..Len(lines) :
           /\ IsReading(After(lines, r, n)) /\ After(lines, r, n).ok \in BOOLEAN
           /\ ~After(lines, r, n).ok => ~AfterAll(lines, r).ok
  <1> DEFINE m == Len(lines)
             A(n) == After(lines, r, n)
             T == {n \in 0..m : IsReading(A(n)) /\ A(n).ok \in BOOLEAN}
             U == {n \in 0..m : \A k \in 0..n : ~A(k).ok => ~A(n).ok}
  <1>1. m \in Nat
    OBVIOUS
  <1>2. A(0) = r /\ \A n \in 0..(m - 1) : A(n + 1) = ReadLine(A(n), lines[n + 1])
    BY AfterUnfolds
  <1>3. AfterAll(lines, r) = A(m)
    BY DEF AfterAll
  <1> HIDE DEF m, A
  <1>4. \A x, l : IsReading(x) /\ x.ok \in BOOLEAN =>
          IsReading(ReadLine(x, l)) /\ ReadLine(x, l).ok \in BOOLEAN /\ (~x.ok => ReadLine(x, l) = x)
    <2> SUFFICES ASSUME NEW x, NEW l, IsReading(x), x.ok \in BOOLEAN
                 PROVE  /\ IsReading(ReadLine(x, l)) /\ ReadLine(x, l).ok \in BOOLEAN
                        /\ ~x.ok => ReadLine(x, l) = x
      OBVIOUS
    <2>1. \/ ReadLine(x, l) = x
          \/ x.ok /\ \E c, o : \E k \in {TRUE, FALSE} : ReadLine(x, l) = Reading3(c, o, k)
      BY DEF ReadLine
    <2>2. \A c, o, k : IsReading(Reading3(c, o, k)) /\ Reading3(c, o, k).ok = k
      BY DEF IsReading, Reading3
    <2>3. ASSUME NEW c, NEW o, NEW k \in {TRUE, FALSE}, x.ok, ReadLine(x, l) = Reading3(c, o, k)
          PROVE  /\ IsReading(ReadLine(x, l)) /\ ReadLine(x, l).ok \in BOOLEAN
                 /\ ~x.ok => ReadLine(x, l) = x
      <3>1. ReadLine(x, l).ok = k /\ IsReading(ReadLine(x, l))
        BY <2>2, <2>3
      <3>2. k \in BOOLEAN
        OBVIOUS
      <3> QED
        BY <2>3, <3>1, <3>2
    <2>4. CASE ReadLine(x, l) = x
      BY <2>4
    <2> QED
      BY <2>1, <2>3, <2>4
  <1>5. 0..m \subseteq T
    <2>1. 0 \in T
      BY <1>1, <1>2
    <2>2. \A n \in 0..(m - 1) : n \in T => n + 1 \in T
      BY <1>1, <1>2, <1>4
    <2> HIDE DEF T
    <2> QED
      BY <1>1, <2>1, <2>2, ClimbTo
  <1>6. 0..m \subseteq U
    <2>1. 0 \in U
      BY <1>1
    <2>2. ASSUME NEW n \in 0..(m - 1), n \in U
          PROVE  n + 1 \in U
      <3>1. n \in T /\ n + 1 \in 0..m /\ \A k \in 0..(n + 1) : k \in 0..n \/ k = n + 1
        BY <1>1, <1>5
      <3>2. A(n + 1) = ReadLine(A(n), lines[n + 1])
        BY <1>2
      <3>3. ~A(n).ok => ~A(n + 1).ok
        BY <1>4, <3>1, <3>2
      <3> QED
        BY <2>2, <3>1, <3>3
    <2> HIDE DEF U
    <2> QED
      BY <1>1, <2>1, <2>2, ClimbTo
  <1>7. ASSUME NEW n \in 0..m
        PROVE  IsReading(A(n)) /\ A(n).ok \in BOOLEAN /\ (~A(n).ok => ~A(m).ok)
    <2>1. n \in T /\ m \in U
      BY <1>1, <1>5, <1>6
    <2> QED
      BY <2>1
  <1> QED
    BY <1>3, <1>7 DEF m, A

(***************************************************************************)
(* One entry, written and read.                                             *)
(***************************************************************************)
Refs == [text : STRING \cup {NoText}, esc : Nat]
Keys == {"id", "version", "source", Header.key, Blank.key, UnknownKey.key} \cup ToSet(Fields)
Lines == [key : Keys, val : Nat \cup Refs \cup [kind : STRING, ref : Refs]]
NoFields == [f \in ToSet(Fields) |-> Empty]

LEMMA QuoteEmpty == Quote(Empty) = Empty /\ Empty \in Refs
  <1>1. NoText # Special
    BY DEF NoText, Special
  <1> QED
    BY <1>1 DEF Quote, Empty, Plain, Refs

LEMMA LineTyped ==
  ASSUME NEW k \in Keys, NEW v \in Nat \cup Refs \cup [kind : STRING, ref : Refs]
  PROVE  Line(k, v) \in Lines
  BY DEF Line, Lines

LEMMA FieldKeys ==
  /\ Len(Fields) \in Nat /\ \A i \in 1..Len(Fields) : Fields[i] \in STRING
  /\ ToSet(Fields) = {Fields[i] : i \in 1..Len(Fields)}
  /\ \A i, j \in 1..Len(Fields) : Fields[i] = Fields[j] => i = j
  /\ \A f \in ToSet(Fields) : f \notin {"id", "version", "source", "package"}
  <1> DEFINE n == Len(Fields)
  <1>1. n \in Nat /\ DOMAIN Fields = 1..n /\ \A i \in 1..n : Fields[i] \in STRING
    BY FieldsAssumption
  <1>2. \A f \in ToSet(Fields) : f \notin {"id", "version", "source", "package"}
    BY FieldsAssumption
  <1>3. \A i, j \in 1..n : Fields[i] = Fields[j] => i = j
    BY <1>1, FieldsAssumption DEF IsInjective
  <1>4. ToSet(Fields) = {Fields[i] : i \in 1..n}
    BY <1>1 DEF ToSet
  <1> QED
    BY <1>1, <1>2, <1>3, <1>4

\* The lines of an entry open, skip and break nothing.
LEMMA EntryLines ==
  ASSUME NEW v
  PROVE  /\ \A k \in {"id", "version", "source"} \cup ToSet(Fields) :
              Line(k, v) \notin {Header, Blank, Broken, Table} /\ Line(k, v).key = k /\ Line(k, v).val = v
  <1>1. Header.key = "[[java-package]]" /\ Blank.key = "#" /\ Broken.key = "no equals sign"
        /\ Table.key = "[[other]]"
    BY DEF Header, Blank, Broken, Table, Line
  <1>2. \A k : Line(k, v).key = k /\ Line(k, v).val = v
    BY DEF Line
  <1>3. \A k \in ToSet(Fields) : k \notin {Header.key, Blank.key, Broken.key, Table.key}
    BY FieldsAssumption
  <1>4. \A k \in {"id", "version", "source"} : k \notin {Header.key, Blank.key, Broken.key, Table.key}
    BY <1>1
  <1> QED
    BY <1>2, <1>3, <1>4

LEMMA PackageParts ==
  \A i, v, s, f :
    LET p == Package(i, v, s, f) IN
    /\ p.id = i /\ p.version = v /\ p.source = s /\ p.field = f
    /\ \A x : /\ [p EXCEPT !.id = x] = Package(x, v, s, f)
              /\ [p EXCEPT !.version = x] = Package(i, x, s, f)
              /\ [p EXCEPT !.source = x] = Package(i, v, x, f)
              /\ \A k : [p EXCEPT !.field[k] = x] = Package(i, v, s, [f EXCEPT ![k] = x])
    /\ i # 0 => p # NoPackage
  <1>1. NoPackage.id = 0
    BY DEF NoPackage, Package
  <1> QED
    BY <1>1 DEF Package

\* A line of an open package sets its field.
LEMMA SetsField ==
  \A c, o, v : \A k \in {"id", "version"} \cup ToSet(Fields) :
    c # NoPackage =>
      ReadLine(Reading3(c, o, TRUE), Line(k, v)) = Reading3(SetField(c, Line(k, v)), o, TRUE)
  <1> SUFFICES ASSUME NEW c, NEW o, NEW v, NEW k \in {"id", "version"} \cup ToSet(Fields),
                      c # NoPackage
               PROVE  ReadLine(Reading3(c, o, TRUE), Line(k, v)) =
                        Reading3(SetField(c, Line(k, v)), o, TRUE)
    OBVIOUS
  <1>1. k # "source"
    BY FieldKeys
  <1>2. /\ Line(k, v) \notin {Header, Blank, Broken, Table} /\ Line(k, v).key # "source"
    BY <1>1, EntryLines
  <1>3. LET r == Reading3(c, o, TRUE) IN r.ok = TRUE /\ r.cur = c /\ r.out = o
    BY DEF Reading3
  <1> QED
    BY <1>2, <1>3 DEF ReadLine

LEMMA StartReads ==
  ASSUME NEW p \in Packages, NEW r, IsReading(r), r.ok = TRUE
  PROVE  /\ Start(p) \in Seq(Lines)
         /\ IF p.source.kind = NoText THEN AfterAll(Start(p), r).ok = FALSE
            ELSE AfterAll(Start(p), r) =
                   Reading3(Package(p.id, p.version, WriteSource(p.source), NoFields), FlushedBy(r), TRUE)
  <1> DEFINE s == Start(p)
             A(n) == After(s, r, n)
             o == FlushedBy(r)
             none == [kind |-> NoText, ref |-> Empty]
             src == WriteSource(p.source)
  <1>1. /\ p.id \in Nat /\ p.id # 0 /\ p.version \in Nat
        /\ p.source \in [kind : STRING, ref : [text : STRING, esc : {0}]]
    <2>1. NoPackage.id = 0
      BY DEF NoPackage, Package
    <2> QED
      BY <2>1 DEF Packages
  <1>2. /\ s[1] = Header /\ s[2] = Line("id", p.id) /\ s[3] = Line("version", p.version)
        /\ s[4] = Line("source", src) /\ Len(s) = 4
    BY DEF Start
  <1>3. src \in [kind : STRING, ref : Refs] /\ src.kind = p.source.kind
    <2>1. Empty \in Refs
      BY QuoteEmpty
    <2>2. p.source.ref \in [text : STRING, esc : {0}]
      BY <1>1
    <2>3. Quote(p.source.ref) \in Refs
      BY <2>2 DEF Quote, Refs
    <2> QED
      BY <1>1, <2>1, <2>3 DEF WriteSource
  <1>4. s \in Seq(Lines)
    <2>1. Header \in Lines
      <3>1. Header.key \in Keys /\ Header = Line(Header.key, Empty)
        BY DEF Keys, Header, Line
      <3> QED
        BY <3>1, QuoteEmpty, LineTyped
    <2> HIDE DEF src
    <2>2. Line("id", p.id) \in Lines /\ Line("version", p.version) \in Lines
      <3>1. "id" \in Keys /\ "version" \in Keys
        BY DEF Keys
      <3> QED
        BY <1>1, <3>1, LineTyped
    <2>3. Line("source", src) \in Lines
      <3>1. "source" \in Keys
        BY DEF Keys
      <3> QED
        BY <1>3, <3>1, LineTyped
    <2> QED
      BY <2>1, <2>2, <2>3 DEF Start, src
  <1>5. /\ A(0) = r /\ \A n \in 0..(Len(s) - 1) : A(n + 1) = ReadLine(A(n), s[n + 1])
    <2>1. Len(s) \in Nat
      BY <1>2
    <2> HIDE DEF s
    <2> QED
      BY <2>1, AfterUnfolds
  <1> HIDE DEF s, src, A, o
  <1>6. A(1) = ReadLine(r, Header) /\ A(2) = ReadLine(A(1), s[2]) /\ A(3) = ReadLine(A(2), s[3])
        /\ A(4) = ReadLine(A(3), s[4])
    <2>1. 0 \in 0..(Len(s) - 1) /\ 1 \in 0..(Len(s) - 1) /\ 2 \in 0..(Len(s) - 1) /\ 3 \in 0..(Len(s) - 1)
      BY <1>2
    <2>2. A(0 + 1) = ReadLine(A(0), s[0 + 1]) /\ A(1 + 1) = ReadLine(A(1), s[1 + 1])
          /\ A(2 + 1) = ReadLine(A(2), s[2 + 1]) /\ A(3 + 1) = ReadLine(A(3), s[3 + 1])
      BY <1>5, <2>1
    <2> QED
      BY <1>2, <1>5, <2>2
  <1>7. A(1) = Reading3(Package(-1, 0, none, NoFields), o, TRUE)
    <2>1. NoPackage = Package(0, 0, none, NoFields)
      BY DEF NoPackage, NoFields
    <2>2. Opened = Package(-1, 0, none, NoFields)
      BY <2>1, PackageParts DEF Opened
    <2> QED
      BY <1>6, <2>2 DEF ReadLine, o
  <1>8. A(2) = Reading3(Package(p.id, 0, none, NoFields), o, TRUE)
    <2> DEFINE c == Package(-1, 0, none, NoFields)
               l == Line("id", p.id)
    <2>1. c # NoPackage /\ [c EXCEPT !.id = p.id] = Package(p.id, 0, none, NoFields)
      BY <1>1 DEF Package, NoPackage
    <2>2. l.key = "id" /\ l.val = p.id
      BY DEF Line
    <2> HIDE DEF c
    <2>3. SetField(c, l) = [c EXCEPT !.id = p.id]
      <3> HIDE DEF l
      <3> QED
        BY <2>2, FieldKeys DEF SetField
    <2>4. ReadLine(Reading3(c, o, TRUE), l) = Reading3(SetField(c, l), o, TRUE)
      <3> DEFINE k == "id"
      <3>1. k \in {"id", "version"} \cup ToSet(Fields)
        OBVIOUS
      <3> HIDE DEF k
      <3>2. c # NoPackage
        BY <2>1
      <3>3. ReadLine(Reading3(c, o, TRUE), Line(k, p.id)) = Reading3(SetField(c, Line(k, p.id)), o, TRUE)
        BY <3>1, <3>2, SetsField
      <3> QED
        BY <3>3 DEF k
    <2>5. A(2) = ReadLine(Reading3(c, o, TRUE), l)
      BY <1>2, <1>6, <1>7 DEF c
    <2> HIDE DEF l
    <2> QED
      BY <2>1, <2>3, <2>4, <2>5
  <1>9. A(3) = Reading3(Package(p.id, p.version, none, NoFields), o, TRUE)
    <2> DEFINE c == Package(p.id, 0, none, NoFields)
               l == Line("version", p.version)
    <2>1. c # NoPackage /\ [c EXCEPT !.version = p.version] = Package(p.id, p.version, none, NoFields)
      BY <1>1 DEF Package, NoPackage
    <2>2. l.key = "version" /\ l.val = p.version
      BY DEF Line
    <2> HIDE DEF c
    <2>3. SetField(c, l) = [c EXCEPT !.version = p.version]
      <3> HIDE DEF l
      <3> QED
        BY <2>2, FieldKeys DEF SetField
    <2>4. ReadLine(Reading3(c, o, TRUE), l) = Reading3(SetField(c, l), o, TRUE)
      <3> DEFINE k == "version"
      <3>1. k \in {"id", "version"} \cup ToSet(Fields)
        OBVIOUS
      <3> HIDE DEF k
      <3>2. c # NoPackage
        BY <2>1
      <3>3. ReadLine(Reading3(c, o, TRUE), Line(k, p.version)) = Reading3(SetField(c, Line(k, p.version)), o, TRUE)
        BY <3>1, <3>2, SetsField
      <3> QED
        BY <3>3 DEF k
    <2>5. A(3) = ReadLine(Reading3(c, o, TRUE), l)
      BY <1>2, <1>6, <1>8 DEF c
    <2> HIDE DEF l
    <2> QED
      BY <2>1, <2>3, <2>4, <2>5
  <1>10. IF p.source.kind = NoText THEN A(4).ok = FALSE
         ELSE A(4) = Reading3(Package(p.id, p.version, src, NoFields), o, TRUE)
    <2> DEFINE c == Package(p.id, p.version, none, NoFields)
               x == Reading3(c, o, TRUE)
    <2>1. c # NoPackage /\ [c EXCEPT !.source = src] = Package(p.id, p.version, src, NoFields)
      BY <1>1, PackageParts
    <2>2. s[4] \notin {Header, Blank, Broken, Table} /\ s[4].key = "source" /\ s[4].val = src
      BY <1>2, EntryLines
    <2> HIDE DEF c
    <2>3. x.ok = TRUE /\ x.cur = c /\ x.out = o /\ Reading3(c, o, FALSE).ok = FALSE
      BY DEF Reading3
    <2>4. A(4) = ReadLine(x, s[4])
      BY <1>6, <1>9 DEF c
    <2> HIDE DEF x
    <2>5. SetField(c, s[4]) = [c EXCEPT !.source = src]
      BY <2>2, FieldKeys DEF SetField
    <2> QED
      BY <1>3, <2>1, <2>2, <2>3, <2>4, <2>5 DEF ReadLine
  <1> QED
    BY <1>2, <1>4, <1>10 DEF AfterAll, s, A, o, src

\* The package comes back as it was written, its special characters escaped.
LEMMA EntryReads ==
  ASSUME NEW p \in Packages, NEW r, IsReading(r), r.ok = TRUE
  PROVE  /\ WriteEntry(p) \in Seq(Lines)
         /\ IF p.source.kind = NoText THEN AfterAll(WriteEntry(p), r).ok = FALSE
            ELSE AfterAll(WriteEntry(p), r) = Reading3(Quoted(p), FlushedBy(r), TRUE)
  <1> DEFINE n == Len(Fields)
             o == FlushedBy(r)
             src == WriteSource(p.source)
             G(i) == [f \in ToSet(Fields) |-> IF f \in {Fields[k] : k \in 1..i} THEN Quote(p.field[f])
                                              ELSE Empty]
             C(i) == Package(p.id, p.version, src, G(i))
  <1>1. p.id # 0 /\ p.field \in [ToSet(Fields) -> [text : STRING, esc : {0}]]
    <2>1. NoPackage.id = 0
      BY DEF NoPackage, Package
    <2> QED
      BY <2>1 DEF Packages, Package
  <1>2. PICK lines : /\ lines = [i \in 0..n |-> IF i = 0 THEN Start(p) ELSE AddField(p, lines[i - 1], i)]
                     /\ WriteEntry(p) = lines[n]
    <2>1. \E v : Writing!IsLoop(v, p, Start(p), n)
      BY FieldKeys, Writing!LoopExists
    <2> QED
      BY <2>1 DEF Writing!IsLoop, WriteEntry
  <1>3. n \in Nat /\ \A i \in 1..n : Fields[i] \in ToSet(Fields) /\ Fields[i] \in Keys
    BY FieldKeys DEF Keys
  <1> DEFINE Good(i) == /\ lines[i] \in Seq(Lines)
                        /\ IF p.source.kind = NoText THEN AfterAll(lines[i], r).ok = FALSE
                           ELSE AfterAll(lines[i], r) = Reading3(C(i), o, TRUE)
             T == {i \in 0..n : Good(i)}
  <1> HIDE DEF n, o, src, C
  <1>4. 0 \in T
    <2>1. lines[0] = Start(p)
      BY <1>2, <1>3
    <2>2. G(0) = NoFields
      BY DEF NoFields
    <2>3. C(0) = Package(p.id, p.version, src, NoFields)
      BY <2>2 DEF C
    <2>4. Good(0)
      BY <2>1, <2>3, StartReads DEF src, o
    <2> HIDE DEF Good
    <2> QED
      BY <1>3, <2>4
  <1>5. ASSUME NEW i \in 0..(n - 1), i \in T
        PROVE  i + 1 \in T
    <2> DEFINE f == Fields[i + 1]
               v == p.field[f]
               l == Line(f, Quote(v))
               x == AfterAll(lines[i], r)
    <2>1. i + 1 \in 0..n /\ i + 1 \in 1..n /\ i + 1 # 0 /\ (i + 1) - 1 = i
      BY <1>3
    <2>2. lines[i + 1] = AddField(p, lines[i], i + 1)
      <3>1. lines[i + 1] = IF i + 1 = 0 THEN Start(p) ELSE AddField(p, lines[(i + 1) - 1], i + 1)
        BY <1>2, <2>1, Zenon
      <3> QED
        BY <2>1, <3>1
    <2>3. f \in ToSet(Fields) /\ f \in Keys
      BY <1>3, <2>1
    <2>4. {Fields[k] : k \in 1..(i + 1)} = {Fields[k] : k \in 1..i} \cup {f}
      <3>1. \A k \in 1..(i + 1) : k \in 1..i \/ k = i + 1
        BY <2>1
      <3>2. \A k \in 1..i : k \in 1..(i + 1)
        BY <2>1
      <3>3. i + 1 \in 1..(i + 1)
        BY <2>1
      <3> QED
        BY <3>1, <3>2, <3>3
    <2>5. f \notin {Fields[k] : k \in 1..i}
      <3>1. \A k \in 1..i : k \in 1..Len(Fields) /\ k # i + 1
        BY <2>1 DEF n
      <3> QED
        BY <2>1, <3>1, FieldKeys DEF n
    <2>6. Good(i)
      BY <1>5
    <2>7. G(i + 1) = [G(i) EXCEPT ![f] = Quote(v)]
      BY <2>3, <2>4
    <2>8. CASE v = Empty
      <3>1. lines[i + 1] = lines[i]
        BY <2>2, <2>8 DEF AddField
      <3>2. G(i)[f] = Quote(v)
        BY <2>3, <2>5, <2>8, QuoteEmpty
      <3>3. G(i + 1) = G(i)
        BY <2>3, <2>7, <3>2
      <3>4. C(i + 1) = C(i)
        BY <3>3 DEF C
      <3>5. Good(i + 1)
        BY <2>6, <3>1, <3>4
      <3> QED
        BY <2>1, <3>5
    <2>9. CASE v # Empty
      <3>1. lines[i + 1] = Append(lines[i], l)
        BY <2>2, <2>9 DEF AddField
      <3>2. l \in Lines
        <4>1. v \in [text : STRING, esc : {0}]
          BY <1>1, <2>3
        <4>2. Quote(v) \in Refs
          BY <4>1 DEF Quote, Refs
        <4> QED
          BY <2>3, <4>2, LineTyped
      <3>3. lines[i] \in Seq(Lines)
        BY <2>6
      <3>4. l.key = f /\ l.val = Quote(v)
        BY DEF Line
      <3> HIDE DEF x
      <3>5. AfterAll(lines[i + 1], r) = ReadLine(x, l)
        BY <3>1, <3>2, <3>3, AfterAppend DEF x
      <3>6. lines[i + 1] \in Seq(Lines)
        <4> HIDE DEF l
        <4> QED
          BY <3>1, <3>2, <3>3
      <3>7. CASE p.source.kind = NoText
        <4>1. x.ok = FALSE
          BY <2>6, <3>7 DEF x
        <4>2. ReadLine(x, l) = x
          BY <4>1 DEF ReadLine
        <4> QED
          BY <2>1, <3>5, <3>6, <3>7, <4>1, <4>2
      <3>8. CASE p.source.kind # NoText
        <4>1. x = Reading3(C(i), o, TRUE)
          BY <2>6, <3>8 DEF x
        <4>2. C(i) # NoPackage /\ [C(i) EXCEPT !.field[f] = Quote(v)] = C(i + 1)
          <5>1. C(i) = Package(p.id, p.version, src, G(i)) /\ C(i + 1) = Package(p.id, p.version, src, G(i + 1))
            BY DEF C
          <5> HIDE DEF G
          <5>2. C(i) # NoPackage
            BY <1>1, <5>1 DEF Package, NoPackage
          <5>3. [C(i) EXCEPT !.field[f] = Quote(v)] = Package(p.id, p.version, src, [G(i) EXCEPT ![f] = Quote(v)])
            BY <5>1 DEF Package
          <5> QED
            BY <2>7, <5>1, <5>2, <5>3
        <4>3. SetField(C(i), l) = [C(i) EXCEPT !.field[f] = Quote(v)]
          <5>1. f \notin {"id", "version", "source"}
            BY <2>3, FieldKeys
          <5> HIDE DEF l, f, G
          <5> QED
            BY <2>3, <3>4, <5>1 DEF SetField
        <4>4. ReadLine(x, l) = Reading3(C(i + 1), o, TRUE)
          <5>1. f \in {"id", "version"} \cup ToSet(Fields)
            BY <2>3
          <5>2. C(i) # NoPackage
            BY <4>2
          <5>3. ReadLine(Reading3(C(i), o, TRUE), l) = Reading3(SetField(C(i), l), o, TRUE)
            <6> HIDE DEF f, G
            <6> QED
              BY <5>1, <5>2, SetsField
          <5> HIDE DEF l, f, G
          <5> QED
            BY <4>1, <4>2, <4>3, <5>3
        <4> QED
          BY <2>1, <3>5, <3>6, <3>8, <4>4
      <3> QED
        BY <3>7, <3>8
    <2> QED
      BY <2>8, <2>9
  <1>6. Good(n)
    <2> HIDE DEF T
    <2>1. 0..n \subseteq T
      BY <1>3, <1>4, <1>5, ClimbTo
    <2> USE DEF T
    <2> HIDE DEF Good
    <2> QED
      BY <1>3, <2>1
  <1>7. C(n) = Quoted(p)
    <2>1. \A f \in ToSet(Fields) : f \in {Fields[k] : k \in 1..n}
      BY FieldKeys DEF n
    <2>2. G(n) = [f \in ToSet(Fields) |-> Quote(p.field[f])]
      BY <2>1
    <2>3. Quoted(p) = Package(p.id, p.version, src, [f \in ToSet(Fields) |-> Quote(p.field[f])])
      BY DEF Quoted, src
    <2> QED
      BY <2>2, <2>3 DEF C
  <1> QED
    BY <1>2, <1>6, <1>7 DEF o

(***************************************************************************)
(* The whole file, written and read.                                        *)
(***************************************************************************)
LEMMA AppendNext ==
  ASSUME NEW n \in Nat, NEW S, NEW g \in [1..n -> S], NEW i \in 0..(n - 1)
  PROVE  Append([k \in 1..i |-> g[k]], g[i + 1]) = [k \in 1..(i + 1) |-> g[k]]
  <1> DEFINE s == [k \in 1..i |-> g[k]]
             t == [k \in 1..(i + 1) |-> g[k]]
  <1>1. i \in Nat /\ i + 1 \in 1..n /\ \A k \in 1..(i + 1) : k \in 1..n
    OBVIOUS
  <1>2. s \in Seq(S) /\ Len(s) = i /\ t \in Seq(S) /\ Len(t) = i + 1
    BY <1>1
  <1>3. /\ Append(s, g[i + 1]) \in Seq(S) /\ Len(Append(s, g[i + 1])) = i + 1
        /\ \A k \in 1..(i + 1) : Append(s, g[i + 1])[k] = t[k]
    BY <1>1, <1>2
  <1> HIDE DEF s, t
  <1> QED
    BY <1>2, <1>3, SeqEqual DEF s, t

\* A line that is blank or unknown changes nothing.
LEMMA HarmlessReads ==
  ASSUME NEW l \in {Blank, UnknownKey}, NEW r, IsReading(r), r.ok \in BOOLEAN
  PROVE  ReadLine(r, l) = r /\ l \in Lines
  <1>1. Header.key = "[[java-package]]" /\ Blank.key = "#" /\ Broken.key = "no equals sign"
        /\ Table.key = "[[other]]" /\ UnknownKey.key = "unknown = 1"
    BY DEF Header, Blank, Broken, Table, UnknownKey, Line
  <1>2. l # Header
    BY <1>1
  <1>3. l = UnknownKey => l \notin {Broken, Table} /\ l.key # "source" /\ SetField(r.cur, l) = r.cur
    <2>1. UnknownKey.key \notin ToSet(Fields)
      BY FieldsAssumption
    <2> QED
      BY <1>1, <2>1 DEF SetField
  <1>4. CASE l = UnknownKey
    <2>1. ~r.ok \/ r.ok = TRUE
      OBVIOUS
    <2>2. r.ok = TRUE => r = Reading3(r.cur, r.out, TRUE)
      BY DEF IsReading
    <2>3. ReadLine(r, l) = r
      BY <1>2, <1>3, <1>4, <2>1, <2>2 DEF ReadLine
    <2>4. l = Line(UnknownKey.key, Empty) /\ UnknownKey.key \in Keys
      BY <1>4 DEF UnknownKey, Line, Keys
    <2> QED
      BY <2>3, <2>4, QuoteEmpty, LineTyped
  <1>5. CASE l = Blank
    <2>1. ReadLine(r, l) = r
      BY <1>2, <1>5 DEF ReadLine
    <2>2. l = Line(Blank.key, Empty) /\ Blank.key \in Keys
      BY <1>5 DEF Blank, Line, Keys
    <2> QED
      BY <2>1, <2>2, QuoteEmpty, LineTyped
  <1> QED
    BY <1>4, <1>5

\* One such line anywhere in a text changes nothing.
LEMMA InsertionReads ==
  ASSUME NEW s \in Seq(Lines), NEW place \in 0..Len(s), NEW l \in {Blank, UnknownKey}
  PROVE  LET t == SubSeq(s, 1, place) \o <<l>> \o SubSeq(s, place + 1, Len(s))
         IN t \in Seq(Lines) /\ AfterAll(t, Begin) = AfterAll(s, Begin)
  <1> DEFINE a == SubSeq(s, 1, place)
             b == SubSeq(s, place + 1, Len(s))
             x == AfterAll(a, Begin)
  <1>1. a \in Seq(Lines) /\ b \in Seq(Lines) /\ s = a \o b
    <2>1. /\ Len(s) \in Nat /\ place \in Nat /\ place <= Len(s)
          /\ \A i \in 1..Len(s) : s[i] \in Lines
      OBVIOUS
    <2>2. a = [i \in 1..place |-> s[i]] /\ a \in Seq(Lines) /\ Len(a) = place
      BY <2>1
    <2>3. /\ b = [i \in 1..(Len(s) - place) |-> s[place + i]] /\ b \in Seq(Lines)
          /\ Len(b) = Len(s) - place
      BY <2>1
    <2> HIDE DEF a, b
    <2>4. a \o b \in Seq(Lines) /\ Len(a \o b) = Len(s)
      BY <2>1, <2>2, <2>3
    <2>5. \A i \in 1..Len(s) : (a \o b)[i] = s[i]
      BY <2>1, <2>2, <2>3
    <2> QED
      BY <2>2, <2>3, <2>4, <2>5, SeqEqual
  <1> HIDE DEF a, b
  <1>2. IsReading(x) /\ x.ok \in BOOLEAN
    <2>1. Len(a) \in Nat /\ Len(a) \in 0..Len(a)
      BY <1>1
    <2>2. IsReading(Begin) /\ Begin.ok \in BOOLEAN
      BY DEF Begin, IsReading, Reading3
    <2> QED
      BY <2>1, <2>2, ReadingStays DEF AfterAll
  <1>3. ReadLine(x, l) = x /\ l \in Lines
    BY <1>2, HarmlessReads
  <1>4. /\ Append(a, l) = a \o <<l>> /\ Append(a, l) \in Seq(Lines)
        /\ Append(a, l) \o b \in Seq(Lines)
    BY <1>1, <1>3
  <1> HIDE DEF x
  <1>5. AfterAll(Append(a, l), Begin) = x
    BY <1>1, <1>3, AfterAppend DEF x
  <1>6. AfterAll(Append(a, l) \o b, Begin) = AfterAll(b, x)
    <2> DEFINE c == Append(a, l)
    <2>1. c \in Seq(Lines) /\ AfterAll(c, Begin) = x
      BY <1>4, <1>5
    <2> HIDE DEF c
    <2>2. AfterAll(c \o b, Begin) = AfterAll(b, x)
      BY <1>1, <2>1, AfterConcat
    <2> QED
      BY <2>2 DEF c
  <1>7. AfterAll(a \o b, Begin) = AfterAll(b, x)
    BY <1>1, AfterConcat DEF x
  <1> QED
    BY <1>1, <1>4, <1>6, <1>7 DEF a, b

Expected(ps) == [i \in 1..Len(ps) |-> Quoted(Sorted(ps)[i])]

\* What Encode wrote reads as the packages, sorted, unless one has no kind.
LEMMA RenderReads ==
  ASSUME NEW ps, IsResolved(ps)
  PROVE  /\ Render(ps) \in Seq(Lines)
         /\ LET r == AfterAll(Render(ps), Begin) IN
            IF \E p \in ToSet(ps) : p.source.kind = NoText THEN r.ok = FALSE
            ELSE r.ok = TRUE /\ FlushedBy(r) = Expected(ps)
  <1> DEFINE q == Sorted(ps)
             n == Len(ps)
             Q == {Quoted(q[i]) : i \in 1..n}
             g == Expected(ps)
             Kinds(i) == \A k \in 1..i : q[k].source.kind # NoText
  <1>1. n \in Nat /\ Len(q) = n /\ \A i \in 1..n : q[i] \in Packages
    <2>1. q \in Seq(Packages) /\ Len(q) = n
      BY SortedIsInOrder
    <2> HIDE DEF q
    <2> QED
      BY <2>1 DEF IsResolved
  <1>2. PICK text : /\ text = [i \in 0..n |-> IF i = 0 THEN <<>> ELSE AddPackage(q, text[i - 1], i)]
                    /\ Render(ps) = text[n]
    <2>1. \E v : Rendering!IsLoop(v, q, <<>>, n)
      BY <1>1, Rendering!LoopExists
    <2> QED
      BY <2>1 DEF Rendering!IsLoop, Render
  <1>3. Kinds(n) <=> ~\E p \in ToSet(ps) : p.source.kind = NoText
    <2>1. DOMAIN ps = 1..n
      BY DEF IsResolved
    <2>2. Elements(q) = ToSet(ps)
      BY <2>1, SortedIsInOrder DEF Elements, ToSet
    <2> HIDE DEF q
    <2>3. Elements(q) = {q[i] : i \in 1..n}
      BY <1>1 DEF Elements
    <2> QED
      BY <2>2, <2>3
  <1>4. g \in [1..n -> Q] /\ \A i \in 1..n : g[i] = Quoted(q[i])
    BY DEF Expected
  <1> DEFINE L(i) == [k \in 1..i |-> g[k]]
             X(i) == AfterAll(text[i], Begin)
             Good(i) == /\ text[i] \in Seq(Lines) /\ IsReading(X(i)) /\ X(i).ok \in BOOLEAN
                        /\ IF Kinds(i) THEN X(i).ok = TRUE /\ FlushedBy(X(i)) = L(i)
                           ELSE X(i).ok = FALSE
             T == {i \in 0..n : Good(i)}
  <1> HIDE DEF q, n, Q, g, Kinds
  <1>5. 0 \in T
    <2>1. text[0] = <<>>
      BY <1>1, <1>2
    <2>2. X(0) = Begin
      <3>1. Len(<<>>) \in Nat /\ Len(<<>>) = 0
        OBVIOUS
      <3>2. AfterAll(<<>>, Begin) = Begin
        BY <3>1, AfterUnfolds DEF AfterAll
      <3> QED
        BY <2>1, <3>2
    <2>3. /\ IsReading(Begin) /\ Begin.ok = TRUE /\ Begin.cur = NoPackage /\ Begin.out = <<>>
      BY DEF Begin, IsReading, Reading3
    <2>4. FlushedBy(Begin) = L(0)
      BY <2>3 DEF FlushedBy
    <2>5. Kinds(0)
      BY DEF Kinds
    <2> HIDE DEF L, X
    <2>6. text[0] \in Seq(Lines) /\ IsReading(X(0))
      BY <2>1, <2>2, <2>3
    <2>7. X(0).ok = TRUE /\ FlushedBy(X(0)) = L(0)
      BY <2>2, <2>3, <2>4
    <2>8. X(0).ok \in BOOLEAN
      BY <2>7
    <2>9. Good(0)
      BY <2>5, <2>6, <2>7, <2>8
    <2> HIDE DEF Good
    <2> QED
      BY <1>1, <2>9
  <1>6. ASSUME NEW i \in 0..(n - 1), i \in T
        PROVE  i + 1 \in T
    <2> DEFINE p == q[i + 1]
               x == X(i)
               w == IF i + 1 = 1 THEN text[i] ELSE Append(text[i], Blank)
               e == WriteEntry(p)
    <2>1. i + 1 \in 0..n /\ i + 1 \in 1..n /\ i + 1 # 0 /\ (i + 1) - 1 = i
      BY <1>1
    <2>2. text[i + 1] = w \o e
      <3>1. text[i + 1] = IF i + 1 = 0 THEN <<>> ELSE AddPackage(q, text[(i + 1) - 1], i + 1)
        BY <1>2, <2>1, Zenon
      <3>2. text[i + 1] = AddPackage(q, text[i], i + 1)
        BY <2>1, <3>1
      <3> QED
        BY <3>2 DEF AddPackage
    <2>3. Good(i)
      BY <1>6
    <2>4. /\ text[i] \in Seq(Lines) /\ IsReading(x) /\ x.ok \in BOOLEAN
          /\ IF Kinds(i) THEN x.ok = TRUE /\ FlushedBy(x) = L(i) ELSE x.ok = FALSE
      BY <2>3
    <2>5. w \in Seq(Lines) /\ AfterAll(w, Begin) = x
      <3>1. ReadLine(x, Blank) = x /\ Blank \in Lines
        <4> HIDE DEF x
        <4> QED
          BY <2>4, HarmlessReads
      <3>2. AfterAll(Append(text[i], Blank), Begin) = ReadLine(x, Blank)
        BY <2>4, <3>1, AfterAppend
      <3>3. Append(text[i], Blank) \in Seq(Lines)
        BY <2>4, <3>1
      <3> QED
        BY <2>4, <3>1, <3>2, <3>3
    <2>6. p \in Packages
      BY <1>1, <2>1
    <2>7. e \in Seq(Lines) /\ (x.ok = TRUE =>
            IF p.source.kind = NoText THEN AfterAll(e, x).ok = FALSE
            ELSE AfterAll(e, x) = Reading3(Quoted(p), FlushedBy(x), TRUE))
      <3>1. e \in Seq(Lines)
        <4>1. IsReading(Begin) /\ Begin.ok = TRUE
          BY DEF Begin, IsReading, Reading3
        <4> QED
          BY <2>6, <4>1, EntryReads
      <3>2. ASSUME x.ok = TRUE
            PROVE  IF p.source.kind = NoText THEN AfterAll(e, x).ok = FALSE
                   ELSE AfterAll(e, x) = Reading3(Quoted(p), FlushedBy(x), TRUE)
        <4> HIDE DEF x, p
        <4> QED
          BY <2>4, <2>6, <3>2, EntryReads
      <3> QED
        BY <3>1, <3>2
    <2> HIDE DEF w, e, x, p
    <2>8. text[i + 1] \in Seq(Lines) /\ X(i + 1) = AfterAll(e, x)
      <3>1. AfterAll(w \o e, Begin) = AfterAll(e, x)
        BY <2>5, <2>7, AfterConcat
      <3>2. w \o e \in Seq(Lines)
        BY <2>5, <2>7
      <3> QED
        BY <2>2, <3>1, <3>2
    <2>9. /\ IsReading(AfterAll(e, x)) /\ AfterAll(e, x).ok \in BOOLEAN
          /\ ~x.ok => ~AfterAll(e, x).ok
      <3>1. Len(e) \in Nat /\ Len(e) \in 0..Len(e) /\ 0 \in 0..Len(e) /\ After(e, x, 0) = x
        BY <2>7, AfterUnfolds
      <3> QED
        BY <2>4, <3>1, ReadingStays DEF AfterAll
    <2>10. Kinds(i + 1) <=> Kinds(i) /\ p.source.kind # NoText
      <3>1. \A k \in 1..(i + 1) : k \in 1..i \/ k = i + 1
        BY <2>1
      <3>2. (\A k \in 1..i : k \in 1..(i + 1)) /\ i + 1 \in 1..(i + 1)
        BY <2>1
      <3> QED
        BY <3>1, <3>2 DEF Kinds, p
    <2>11. ASSUME Kinds(i + 1)
           PROVE  X(i + 1).ok = TRUE /\ FlushedBy(X(i + 1)) = L(i + 1)
      <3>1. AfterAll(e, x) = Reading3(Quoted(p), L(i), TRUE)
        BY <2>4, <2>7, <2>10, <2>11
      <3>2. Quoted(p) # NoPackage
        <4>1. p.id # 0
          <5>1. NoPackage.id = 0
            BY DEF NoPackage, Package
          <5> QED
            BY <2>6, <5>1 DEF Packages
        <4> QED
          BY <4>1 DEF Quoted, Package, NoPackage
      <3>3. FlushedBy(AfterAll(e, x)) = Append(L(i), Quoted(p))
        <4> HIDE DEF L
        <4>1. LET y == Reading3(Quoted(p), L(i), TRUE)
              IN y.cur = Quoted(p) /\ y.out = L(i) /\ y.ok = TRUE
          BY DEF Reading3
        <4> QED
          BY <3>1, <3>2, <4>1 DEF FlushedBy
      <3>4. Append(L(i), g[i + 1]) = L(i + 1)
        BY <1>1, <1>4, AppendNext
      <3>5. g[i + 1] = Quoted(p)
        BY <1>4, <2>1 DEF p
      <3>6. AfterAll(e, x).ok = TRUE
        BY <3>1 DEF Reading3
      <3> HIDE DEF L, X
      <3> QED
        BY <2>8, <3>3, <3>4, <3>5, <3>6
    <2>12. ASSUME ~Kinds(i + 1)
           PROVE  X(i + 1).ok = FALSE
      BY <2>4, <2>7, <2>8, <2>9, <2>10, <2>12
    <2> HIDE DEF X, L
    <2>13. Good(i + 1)
      BY <2>8, <2>9, <2>11, <2>12
    <2> HIDE DEF Good
    <2> QED
      BY <2>1, <2>13
  <1>7. Good(n)
    <2> HIDE DEF T
    <2>1. 0..n \subseteq T
      BY <1>1, <1>5, <1>6, ClimbTo
    <2> USE DEF T
    <2> HIDE DEF Good
    <2> QED
      BY <1>1, <2>1
  <1>8. L(n) = Expected(ps)
    BY <1>4 DEF g, Expected, n
  <1> QED
    BY <1>2, <1>3, <1>7, <1>8

(***************************************************************************)
(* The same packages in another order give the same file.                   *)
(***************************************************************************)
RenderSorted(sorted, n) ==
  LET lines[i \in 0..n] == IF i = 0 THEN <<>> ELSE AddPackage(sorted, lines[i - 1], i)
  IN lines[n]

LEMMA SameElementsSameFile ==
  ASSUME NEW ps, IsResolved(ps), NEW q \in SetToSeqs(ToSet(ps))
  PROVE  Render(q) = Render(ps)
  <1> DEFINE n == Len(ps)
             D == 1..n
             S == ToSet(ps)
  <1>1. /\ n \in Nat /\ DOMAIN ps = D /\ ps \in [D -> Packages]
        /\ \A i, j \in D : ps[i].id = ps[j].id /\ ps[i].version = ps[j].version => i = j
        /\ \A i \in D : \A f \in Hashes : ps[i].field[f].text # Special
    BY DEF IsResolved
  <1>2. S = {ps[i] : i \in D} /\ S \subseteq Packages
    BY <1>1 DEF ToSet
  <1>3. IsFiniteSet(D) /\ Cardinality(D) = n
    BY <1>1, CountTo
  <1> HIDE DEF n, D, S
  <1>4. IsFiniteSet(S) /\ Cardinality(S) = n
    <2>1. ps \in Bijection(D, S)
      BY <1>1, <1>2 DEF Bijection, Injection, Surjection, IsInjective
    <2>2. ExistsBijection(D, S)
      BY <2>1 DEF ExistsBijection
    <2> QED
      BY <1>3, <2>2, FS_Bijection
  <1>5. q \in [D -> S] /\ \A i, j \in D : i # j => q[i] # q[j]
    BY <1>4 DEF SetToSeqs, D, S
  <1>6. \A x \in S : \E i \in D : q[i] = x
    <2>1. q \in Injection(D, S)
      BY <1>5 DEF Injection, IsInjective
    <2>2. q \in Surjection(D, S)
      BY <1>3, <1>4, <2>1, FS_Injection
    <2> QED
      BY <2>2 DEF Surjection
  <1>7. q \in Seq(Packages) /\ Len(q) = n
    <2>1. q \in [D -> Packages]
      BY <1>2, <1>5
    <2> QED
      BY <1>1, <2>1 DEF D
  <1>8. Elements(q) = Elements(ps)
    <2>1. Elements(q) = {q[i] : i \in D} /\ Elements(ps) = S
      BY <1>2, <1>7 DEF Elements, D, n
    <2>2. \A i \in D : q[i] \in S
      BY <1>5
    <2> QED
      BY <1>6, <2>1, <2>2
  <1>9. IsResolved(q)
    <2>1. ASSUME NEW i \in D, NEW j \in D, q[i].id = q[j].id, q[i].version = q[j].version
          PROVE  i = j
      <3>1. PICK k \in D : q[i] = ps[k]
        BY <1>2, <1>5
      <3>2. PICK l \in D : q[j] = ps[l]
        BY <1>2, <1>5
      <3> QED
        BY <1>1, <1>5, <2>1, <3>1, <3>2
    <2>2. \A i \in D : \A f \in Hashes : q[i].field[f].text # Special
      BY <1>1, <1>2, <1>5
    <2> QED
      BY <1>7, <2>1, <2>2 DEF IsResolved, D
  <1>10. Sorted(q) = Sorted(ps)
    <2>1. /\ Sorted(q) \in Seq(Packages) /\ Len(Sorted(q)) = n
          /\ Elements(Sorted(q)) = Elements(ps)
          /\ \A i, j \in 1..n : i < j => Before(Sorted(q)[i], Sorted(q)[j])
      BY <1>7, <1>8, <1>9, SortedIsInOrder
    <2>2. /\ Sorted(ps) \in Seq(Packages) /\ Len(Sorted(ps)) = n
          /\ Elements(Sorted(ps)) = Elements(ps)
          /\ \A i, j \in 1..n : i < j => Before(Sorted(ps)[i], Sorted(ps)[j])
      BY SortedIsInOrder DEF n
    <2> QED
      BY <2>1, <2>2, OrderIsUnique
  <1>11. Render(q) = RenderSorted(Sorted(q), Len(q)) /\ Render(ps) = RenderSorted(Sorted(ps), Len(ps))
    BY Zenon DEF Render, RenderSorted
  <1> QED
    BY <1>7, <1>10, <1>11 DEF n

(***************************************************************************)
(* What holds in every state: the file is what Encode wrote, give or take an *)
(* edit, and Decode has read the lines before pos.                          *)
(***************************************************************************)
FileKept ==
  /\ phase = "resolved" => edited = <<>>
  /\ phase # "resolved" /\ edited = <<>> => file = Render(packages)
  /\ phase # "resolved" /\ Harmless =>
       file \in Seq(Lines) /\ AfterAll(file, Begin) = AfterAll(Render(packages), Begin)

LinesRead ==
  /\ phase \in {"resolved", "written"} => cur = NoPackage /\ out = <<>>
  /\ Harmless /\ phase = "decoding" =>
       pos \in 1..(Len(file) + 1) /\ After(file, Begin, pos - 1) = Reading3(cur, out, TRUE)
  /\ Harmless /\ phase = "failed" => AfterAll(file, Begin).ok = FALSE
  /\ Harmless /\ phase \in {"read", "checked"} =>
       AfterAll(file, Begin).ok = TRUE /\ out = FlushedBy(AfterAll(file, Begin))

Compared == phase = "checked" => fresh \in Resolved /\ drifts = CheckAgainst(fresh)

LockInv == packages \in Inputs /\ FileKept /\ LinesRead /\ Compared

LEMMA InitLock == Init => LockInv
  BY DEF Init, LockInv, FileKept, LinesRead, Compared

LEMMA NothingAddedIsHarmless == edited = <<>> => Harmless
  <1>1. ToSet(<<>>) = {}
    BY DEF ToSet
  <1> QED
    BY <1>1 DEF Harmless

LEMMA EncodeKeeps == LockInv /\ Encode => LockInv'
  <1> SUFFICES ASSUME LockInv, Encode PROVE LockInv'
    OBVIOUS
  <1>1. /\ phase = "resolved" /\ phase' = "written" /\ file' = Render(packages)
        /\ edited = <<>> /\ UNCHANGED <<packages, edited, pos, cur, out, fresh, drifts>>
    BY DEF Encode, LockInv, FileKept
  <1>2. Render(packages) \in Seq(Lines)
    BY InputsAssumption, RenderReads DEF LockInv
  <1>3. FileKept'
    BY <1>1, <1>2 DEF FileKept
  <1>4. LinesRead'
    BY <1>1 DEF LockInv, LinesRead
  <1> QED
    BY <1>1, <1>3, <1>4 DEF LockInv, Compared

LEMMA EditKeeps == LockInv /\ Edit => LockInv'
  <1> SUFFICES ASSUME LockInv, Edit PROVE LockInv'
    OBVIOUS
  <1>1. PICK line \in Insertions, place \in 0..Len(file) :
          /\ file' = SubSeq(file, 1, place) \o <<line>> \o SubSeq(file, place + 1, Len(file))
          /\ edited' = <<line>>
    BY DEF Edit
  <1>2. /\ phase = "written" /\ edited = <<>> /\ file = Render(packages)
        /\ UNCHANGED <<packages, pos, cur, out, phase, fresh, drifts>>
    BY DEF Edit, LockInv, FileKept
  <1>3. Render(packages) \in Seq(Lines)
    BY InputsAssumption, RenderReads DEF LockInv
  <1>4. edited' # <<>>
    <2>1. edited' = <<line>>
      BY <1>1
    <2> QED
      BY <2>1
  <1>5. ASSUME Harmless'
        PROVE  file' \in Seq(Lines) /\ AfterAll(file', Begin) = AfterAll(Render(packages), Begin)
    <2>1. line \in {Blank, UnknownKey}
      <3>1. ToSet(<<line>>) = {line}
        BY DEF ToSet
      <3> QED
        BY <1>1, <1>5, <3>1 DEF Harmless
    <2> QED
      BY <1>1, <1>2, <1>3, <2>1, InsertionReads
  <1>6. FileKept'
    BY <1>2, <1>4, <1>5 DEF FileKept
  <1>7. LinesRead'
    BY <1>2 DEF LockInv, LinesRead
  <1> QED
    BY <1>2, <1>6, <1>7 DEF LockInv, Compared

\* A line that Decode reads without failing.
LEMMA LineKeeps ==
  ASSUME LockInv, Reading, NextLine, phase' = phase,
         Harmless => Reading3(cur, out, TRUE)' = ReadLine(Reading3(cur, out, TRUE), file[pos])
  PROVE  LockInv'
  <1>1. phase = "decoding" /\ pos <= Len(file) /\ pos' = pos + 1
        /\ UNCHANGED <<packages, file, edited, fresh, drifts>>
    BY DEF Reading, NextLine
  <1>2. Harmless' <=> Harmless
    BY <1>1 DEF Harmless
  <1>3. FileKept'
    BY <1>1, <1>2 DEF LockInv, FileKept
  <1>4. ASSUME Harmless
        PROVE  pos' \in 1..(Len(file) + 1) /\ After(file, Begin, pos' - 1) = Reading3(cur, out, TRUE)'
    <2>1. Len(file) \in Nat
      <3>1. file \in Seq(Lines)
        BY <1>1, <1>4 DEF LockInv, FileKept
      <3> QED
        BY <3>1
    <2>2. pos \in 1..(Len(file) + 1) /\ After(file, Begin, pos - 1) = Reading3(cur, out, TRUE)
      BY <1>1, <1>4 DEF LockInv, LinesRead
    <2> DEFINE n == pos - 1
    <2>3. n \in 0..(Len(file) - 1) /\ n + 1 = pos /\ pos' - 1 = pos /\ pos' \in 1..(Len(file) + 1)
      BY <1>1, <2>1, <2>2
    <2> HIDE DEF n
    <2>4. After(file, Begin, n + 1) = ReadLine(After(file, Begin, n), file[n + 1])
      BY <2>1, <2>3, AfterUnfolds
    <2>5. After(file, Begin, pos) = ReadLine(Reading3(cur, out, TRUE), file[pos])
      BY <2>2, <2>3, <2>4 DEF n
    <2> QED
      BY <1>4, <2>3, <2>5
  <1>5. LinesRead'
    <2>1. file' = file /\ phase' = "decoding"
      BY <1>1
    <2> QED
      BY <1>2, <1>4, <2>1 DEF LinesRead, Reading3
  <1> QED
    BY <1>1, <1>3, <1>5 DEF LockInv, Compared

LEMMA HeaderKeeps == LockInv /\ HeaderLine => LockInv'
  <1> SUFFICES ASSUME LockInv, HeaderLine PROVE LockInv'
    OBVIOUS
  <1> DEFINE r == Reading3(cur, out, TRUE)
  <1>1. r.ok = TRUE /\ r.cur = cur /\ r.out = out
    BY DEF Reading3
  <1>2. file[pos] = Header /\ out' = Flushed /\ cur' = Opened
    BY DEF HeaderLine, Opened
  <1>3. FlushedBy(r) = Flushed
    BY <1>1 DEF FlushedBy, Flushed, Outside
  <1> HIDE DEF r
  <1>4. Reading3(cur, out, TRUE)' = ReadLine(r, file[pos])
    BY <1>1, <1>2, <1>3 DEF ReadLine, Reading3
  <1> QED
    BY <1>4, LineKeeps DEF HeaderLine, r

LEMMA SkipKeeps == LockInv /\ SkipLine => LockInv'
  <1> SUFFICES ASSUME LockInv, SkipLine PROVE LockInv'
    OBVIOUS
  <1> DEFINE r == Reading3(cur, out, TRUE)
  <1>1. r.ok = TRUE /\ r.cur = cur
    BY DEF Reading3
  <1>2. file[pos] # Header /\ (file[pos] = Blank \/ cur = NoPackage) /\ UNCHANGED <<cur, out>>
    BY DEF SkipLine, Outside
  <1>3. r' = r
    BY <1>2 DEF Reading3
  <1> HIDE DEF r
  <1>4. r' = ReadLine(r, file[pos])
    BY <1>1, <1>2, <1>3 DEF ReadLine
  <1> QED
    BY <1>4, LineKeeps DEF SkipLine, r

LEMMA FieldKeeps == LockInv /\ FieldLine => LockInv'
  <1> SUFFICES ASSUME LockInv, FieldLine PROVE LockInv'
    OBVIOUS
  <1> DEFINE r == Reading3(cur, out, TRUE)
             line == file[pos]
  <1>1. r.ok = TRUE /\ r.cur = cur /\ r.out = out
    BY DEF Reading3
  <1>2. /\ cur # NoPackage /\ line \notin {Header, Blank, Broken, Table} /\ out' = out
        /\ ~(line.key = "source" /\ line.val.kind = NoText)
    BY DEF FieldLine, Outside
  <1>3. cur' = SetField(cur, line)
    <2>1. \A f \in ToSet(Fields) : f \notin {"id", "version", "source"}
      BY FieldKeys
    <2>2. CASE line.key = "id"
      BY <2>1, <2>2 DEF FieldLine, SetField
    <2>3. CASE line.key = "version"
      BY <2>1, <2>3 DEF FieldLine, SetField
    <2>4. CASE line.key = "source"
      BY <2>1, <2>4 DEF FieldLine, SetField
    <2>5. CASE line.key \in ToSet(Fields)
      BY <2>1, <2>5 DEF FieldLine, SetField
    <2>6. CASE line.key \notin {"id", "version", "source"} \cup ToSet(Fields)
      BY <2>6 DEF FieldLine, SetField
    <2> QED
      BY <2>2, <2>3, <2>4, <2>5, <2>6
  <1>4. r' = Reading3(SetField(cur, line), out, TRUE)
    BY <1>2, <1>3 DEF Reading3
  <1> HIDE DEF r, line
  <1>5. r' = ReadLine(r, line)
    BY <1>1, <1>2, <1>4 DEF ReadLine
  <1> QED
    BY <1>5, LineKeeps DEF FieldLine, r, line

LEMMA BadLineKeeps == LockInv /\ BadLine => LockInv'
  <1> SUFFICES ASSUME LockInv, BadLine PROVE LockInv'
    OBVIOUS
  <1>1. /\ phase = "decoding" /\ pos <= Len(file) /\ phase' = "failed"
        /\ UNCHANGED <<packages, file, edited>>
    BY DEF BadLine, Reading
  <1>2. Harmless' <=> Harmless
    BY <1>1 DEF Harmless
  <1>3. FileKept'
    BY <1>1, <1>2 DEF LockInv, FileKept
  <1>4. ASSUME Harmless
        PROVE  AfterAll(file, Begin).ok = FALSE
    <2> DEFINE n == pos - 1
               r == Reading3(cur, out, TRUE)
               line == file[pos]
    <2>1. Len(file) \in Nat
      <3>1. file \in Seq(Lines)
        BY <1>1, <1>4 DEF LockInv, FileKept
      <3> QED
        BY <3>1
    <2>2. pos \in 1..(Len(file) + 1) /\ After(file, Begin, pos - 1) = r
      BY <1>1, <1>4 DEF LockInv, LinesRead
    <2>3. n \in 0..(Len(file) - 1) /\ n + 1 = pos /\ pos \in 0..Len(file)
      BY <1>1, <2>1, <2>2
    <2>4. r.ok = TRUE /\ r.cur = cur
      BY DEF Reading3
    <2>5. cur # NoPackage /\ (line \in {Broken, Table} \/ (line.key = "source" /\ line.val.kind = NoText))
      BY DEF BadLine, Outside
    <2>6. line \notin {Header, Blank}
      <3>1. Header.key = "[[java-package]]" /\ Blank.key = "#" /\ Broken.key = "no equals sign"
            /\ Table.key = "[[other]]"
        BY DEF Header, Blank, Broken, Table, Line
      <3> HIDE DEF line
      <3> QED
        BY <2>5, <3>1
    <2> HIDE DEF n, line, r
    <2>7. ReadLine(r, line).ok = FALSE
      BY <2>4, <2>5, <2>6 DEF ReadLine, Reading3
    <2>8. After(file, Begin, n + 1) = ReadLine(After(file, Begin, n), file[n + 1])
      BY <2>1, <2>3, AfterUnfolds
    <2>9. After(file, Begin, pos).ok = FALSE
      BY <2>2, <2>3, <2>7, <2>8 DEF n, line
    <2>10. IsReading(Begin) /\ Begin.ok \in BOOLEAN
      BY DEF Begin, IsReading, Reading3
    <2>11. Len(file) \in 0..Len(file)
      BY <2>1
    <2>12. ~AfterAll(file, Begin).ok /\ AfterAll(file, Begin).ok \in BOOLEAN
      BY <2>1, <2>3, <2>9, <2>10, <2>11, ReadingStays DEF AfterAll
    <2> QED
      BY <2>12
  <1>5. LinesRead'
    BY <1>1, <1>2, <1>4 DEF LinesRead
  <1> QED
    BY <1>1, <1>3, <1>5 DEF LockInv, Compared

LEMMA EndOfFileKeeps == LockInv /\ EndOfFile => LockInv'
  <1> SUFFICES ASSUME LockInv, EndOfFile PROVE LockInv'
    OBVIOUS
  <1>1. /\ phase = "decoding" /\ pos > Len(file) /\ phase' = "read" /\ out' = Flushed
        /\ UNCHANGED <<packages, file, edited>>
    BY DEF EndOfFile
  <1>2. Harmless' <=> Harmless
    BY <1>1 DEF Harmless
  <1>3. FileKept'
    BY <1>1, <1>2 DEF LockInv, FileKept
  <1>4. ASSUME Harmless
        PROVE  AfterAll(file, Begin).ok = TRUE /\ Flushed = FlushedBy(AfterAll(file, Begin))
    <2>1. Len(file) \in Nat
      <3>1. file \in Seq(Lines)
        BY <1>1, <1>4 DEF LockInv, FileKept
      <3> QED
        BY <3>1
    <2>2. pos \in 1..(Len(file) + 1) /\ After(file, Begin, pos - 1) = Reading3(cur, out, TRUE)
      BY <1>1, <1>4 DEF LockInv, LinesRead
    <2>3. pos - 1 = Len(file)
      BY <1>1, <2>1, <2>2
    <2>4. AfterAll(file, Begin) = Reading3(cur, out, TRUE)
      BY <2>2, <2>3 DEF AfterAll
    <2> QED
      BY <2>4 DEF FlushedBy, Reading3, Flushed, Outside
  <1>5. LinesRead'
    BY <1>1, <1>2, <1>4 DEF LinesRead
  <1> QED
    BY <1>1, <1>3, <1>5 DEF LockInv, Compared

LEMMA LockInvHolds == Spec => []LockInv
  <1>1. LockInv /\ StartDecode => LockInv'
    <2> SUFFICES ASSUME LockInv, StartDecode PROVE LockInv'
      OBVIOUS
    <2>1. /\ phase = "written" /\ phase' = "decoding" /\ pos' = 1
          /\ UNCHANGED <<packages, file, edited, cur, out, fresh, drifts>>
      BY DEF StartDecode
    <2>2. Harmless' <=> Harmless
      BY <2>1 DEF Harmless
    <2>3. FileKept'
      BY <2>1, <2>2 DEF LockInv, FileKept
    <2>4. ASSUME Harmless
          PROVE  1 \in 1..(Len(file) + 1) /\ After(file, Begin, 0) = Reading3(cur, out, TRUE)
      <3>1. file \in Seq(Lines)
        BY <2>1, <2>4 DEF LockInv, FileKept
      <3>2. Len(file) \in Nat /\ cur = NoPackage /\ out = <<>>
        BY <2>1, <3>1 DEF LockInv, LinesRead
      <3>3. After(file, Begin, 0) = Begin
        BY <3>2, AfterUnfolds
      <3>4. 1 \in 1..(Len(file) + 1)
        <4> DEFINE n == Len(file)
        <4> HIDE DEF n
        <4>1. n \in Nat
          BY <3>2 DEF n
        <4>2. 1 \in 1..(n + 1)
          BY <4>1
        <4> QED
          BY <4>2 DEF n
      <3> QED
        BY <3>2, <3>3, <3>4 DEF Begin
    <2>5. LinesRead'
      <3>1. pos' - 1 = 0
        BY <2>1
      <3> QED
        BY <2>1, <2>2, <2>4, <3>1 DEF LinesRead
    <2> QED
      BY <2>1, <2>3, <2>5 DEF LockInv, Compared
  <1>2. LockInv /\ Check => LockInv'
    <2> SUFFICES ASSUME LockInv, Check PROVE LockInv'
      OBVIOUS
    <2>1. /\ phase = "read" /\ phase' = "checked" /\ fresh' \in Resolved
          /\ drifts' = CheckAgainst(fresh')
          /\ UNCHANGED <<packages, file, edited, pos, cur, out>>
      BY DEF Check
    <2>2. Harmless' <=> Harmless
      BY <2>1 DEF Harmless
    <2>3. FileKept' /\ LinesRead'
      BY <2>1, <2>2 DEF LockInv, FileKept, LinesRead
    <2>4. Resolved' = Resolved /\ CheckAgainst(fresh)' = CheckAgainst(fresh')
      BY <2>1 DEF Resolved, CheckAgainst, LockedAs, ByKey
    <2> QED
      BY <2>1, <2>3, <2>4 DEF LockInv, Compared
  <1>3. LockInv /\ UNCHANGED vars => LockInv'
    <2> SUFFICES ASSUME LockInv, UNCHANGED vars PROVE LockInv'
      OBVIOUS
    <2>1. Harmless' <=> Harmless
      BY DEF vars, Harmless
    <2>2. FileKept' /\ LinesRead'
      BY <2>1 DEF vars, LockInv, FileKept, LinesRead
    <2>3. Resolved' = Resolved /\ CheckAgainst(fresh)' = CheckAgainst(fresh)
      BY DEF vars, Resolved, CheckAgainst, LockedAs, ByKey
    <2> QED
      BY <2>2, <2>3 DEF vars, LockInv, Compared
  <1>4. LockInv /\ [Next]_vars => LockInv'
    BY <1>1, <1>2, <1>3, EncodeKeeps, EditKeeps, HeaderKeeps, SkipKeeps, FieldKeeps, BadLineKeeps,
       EndOfFileKeeps DEF Next, Decode
  <1> QED
    BY <1>4, InitLock, PTL DEF Spec

\* Decode changes nothing in a package with a kind and nothing to escape.
LEMMA QuotedPlain ==
  ASSUME NEW p \in Packages, p.source.kind # NoText, NothingToEscape(p)
  PROVE  Quoted(p) = p
  <1>1. WriteSource(p.source) = p.source
    BY DEF Packages, NothingToEscape, WriteSource, Quote
  <1>2. [f \in ToSet(Fields) |-> Quote(p.field[f])] = p.field
    BY DEF Packages, NothingToEscape, Quote
  <1> QED
    BY <1>1, <1>2 DEF Packages, Quoted, Package

(* Decode is the inverse of Encode on packages with a kind and nothing to     *)
(* escape, whatever harmless line was added and wherever; of the others it    *)
(* refuses those without a kind and leaves escapes in the rest (lock.go).     *)
THEOREM DecodeInvertsOnPlain == Spec => []InverseOnPlainPackages
  <1>1. LockInv => InverseOnPlainPackages
    <2> SUFFICES ASSUME LockInv, Harmless PROVE InverseOnPlainPackages
      BY DEF InverseOnPlainPackages
    <2> DEFINE r == AfterAll(Render(packages), Begin)
               q == Sorted(packages)
    <2>1. IF \E p \in ToSet(packages) : p.source.kind = NoText THEN r.ok = FALSE
          ELSE r.ok = TRUE /\ FlushedBy(r) = Expected(packages)
      BY InputsAssumption, RenderReads DEF LockInv
    <2>2. phase # "resolved" => AfterAll(file, Begin) = r
      BY DEF LockInv, FileKept
    <2> HIDE DEF r
    <2>3. phase = "failed" => r.ok = FALSE
      BY <2>2 DEF LockInv, LinesRead
    <2>4. phase \in {"read", "checked"} => r.ok = TRUE /\ out = FlushedBy(r)
      BY <2>2 DEF LockInv, LinesRead
    <2>5. ASSUME phase \in {"read", "checked"}, \A p \in ToSet(packages) : NothingToEscape(p)
          PROVE  out = q
      <3>1. IsResolved(packages)
        BY InputsAssumption DEF LockInv
      <3>2. q \in Seq(Packages) /\ Len(q) = Len(packages) /\ Elements(q) = Elements(packages)
        BY <3>1, SortedIsInOrder
      <3>3. ToSet(packages) = Elements(packages)
        BY <3>1 DEF ToSet, Elements, IsResolved
      <3> HIDE DEF q
      <3>4. \A i \in 1..Len(q) : q[i] \in Packages /\ q[i] \in ToSet(packages)
        <4> DEFINE m == Len(q)
        <4> HIDE DEF m
        <4>1. m \in Nat /\ q \in [1..m -> Packages]
          BY <3>2 DEF m
        <4>2. \A i \in 1..m : q[i] \in Packages
          BY <4>1
        <4>3. \A i \in 1..m : q[i] \in ToSet(packages)
          BY <3>2, <3>3 DEF Elements, m
        <4> QED
          BY <4>2, <4>3 DEF m
      <3>5. \A i \in 1..Len(q) : Quoted(q[i]) = q[i]
        BY <2>1, <2>4, <2>5, <3>4, QuotedPlain
      <3>6. out = [i \in 1..Len(q) |-> Quoted(q[i])]
        BY <2>1, <2>4, <2>5, <3>2 DEF Expected, q
      <3> QED
        BY <3>2, <3>5, <3>6
    <2> QED
      BY <2>1, <2>3, <2>4, <2>5 DEF InverseOnPlainPackages, Expected
  <1> QED
    BY <1>1, LockInvHolds, PTL

(* What Encode writes does not depend on the order the packages were resolved *)
(* in (lock.go, Encode).                                                     *)
THEOREM EncodesCanonically == Spec => []EncodeIsCanonical
  <1>1. LockInv => EncodeIsCanonical
    <2> SUFFICES ASSUME LockInv, phase = "written", edited = <<>>,
                        NEW q \in SetToSeqs(ToSet(packages))
                 PROVE  Render(q) = file
      BY DEF EncodeIsCanonical
    <2>1. file = Render(packages)
      BY DEF LockInv, FileKept
    <2>2. IsResolved(packages)
      BY InputsAssumption DEF LockInv
    <2> QED
      BY <2>1, <2>2, SameElementsSameFile
  <1> QED
    BY <1>1, LockInvHolds, PTL

(***************************************************************************)
(* Check.                                                                   *)
(***************************************************************************)

\* Packages that are there once each have different ids.
LEMMA IdsDiffer ==
  ASSUME NEW ps, IsResolved(ps), Once(ps)
  PROVE  \A i, j \in 1..Len(ps) : ps[i].id = ps[j].id => i = j
  <1> DEFINE n == Len(ps)
             D == 1..n
             I == IdsOf(ps)
             f == [i \in D |-> ps[i].id]
  <1>1. n \in Nat
    <2>1. ps \in Seq(Packages)
      BY DEF IsResolved
    <2> QED
      BY <2>1
  <1>2. I = {f[i] : i \in D} /\ Cardinality(I) = n
    <2>1. Cardinality(I) = n
      BY DEF Once
    <2>2. I = {ps[i].id : i \in D}
      BY DEF IdsOf
    <2>3. \A i \in D : f[i] = ps[i].id
      OBVIOUS
    <2> HIDE DEF D, f, I, n
    <2>4. I = {f[i] : i \in D}
      BY <2>2, <2>3
    <2> QED
      BY <2>1, <2>4
  <1>3. IsFiniteSet(D) /\ Cardinality(D) = n
    BY <1>1, CountTo
  <1>4. f \in Surjection(D, I)
    <2>1. DOMAIN f = D /\ f = [i \in D |-> f[i]]
      OBVIOUS
    <2> HIDE DEF D, I, f
    <2> QED
      BY <1>2, <2>1 DEF Surjection
  <1>5. f \in Injection(D, I)
    <2> HIDE DEF D, I, f, n
    <2> QED
      BY <1>2, <1>3, <1>4, FS_Surjection
  <1>6. \A i, j \in D : f[i] = f[j] => i = j
    <2> HIDE DEF D, I, f
    <2> QED
      BY <1>5 DEF Injection, IsInjective
  <1> QED
    BY <1>6

\* So have those Check compares with.
LEMMA FreshIdsDiffer ==
  ASSUME IsResolved(packages), Once(packages), NEW fs \in Resolved
  PROVE  /\ Len(fs) \in Nat
         /\ \A i, j \in 1..Len(fs) : fs[i].id = fs[j].id => i = j
  <1> DEFINE n == Len(packages)
             With(i, p) == [packages EXCEPT ![i] = p]
  <1>1. /\ n \in Nat /\ packages \in Seq(Packages)
        /\ \A i \in 1..n : packages[i] \in Packages
    BY DEF IsResolved
  <1>2. \A i, j \in 1..n : packages[i].id = packages[j].id => i = j
    BY IdsDiffer
  <1>3. \A i \in 1..n : packages[i].id # Added.id
    BY <1>1 DEF Packages
  <1>4. CASE fs = packages
    BY <1>1, <1>2, <1>4
  <1>5. CASE fs = Append(packages, Added)
    <2>1. /\ Len(fs) = n + 1 /\ fs[n + 1] = Added
          /\ \A i \in 1..n : fs[i] = packages[i]
      BY <1>1, <1>5
    <2>2. \A i \in 1..(n + 1) : i \in 1..n \/ i = n + 1
      BY <1>1
    <2> HIDE DEF n
    <2> QED
      BY <1>1, <1>2, <1>3, <2>1, <2>2
  <1>6. ASSUME NEW k \in 1..n, fs = RemoveAt(packages, k)
        PROVE  /\ Len(fs) \in Nat
               /\ \A i, j \in 1..Len(fs) : fs[i].id = fs[j].id => i = j
    <2> DEFINE a == SubSeq(packages, 1, k - 1)
               b == SubSeq(packages, k + 1, n)
    <2>1. /\ a \in Seq(Packages) /\ Len(a) = k - 1
          /\ \A i \in 1..(k - 1) : a[i] = packages[i]
      BY <1>1
    <2>2. /\ b \in Seq(Packages) /\ Len(b) = n - k
          /\ \A i \in 1..(n - k) : b[i] = packages[k + i]
      BY <1>1
    <2>3. fs = a \o b
      BY <1>6 DEF RemoveAt
    <2> HIDE DEF a, b
    <2>4. /\ Len(fs) = n - 1
          /\ \A i \in 1..(n - 1) : fs[i] = IF i < k THEN packages[i] ELSE packages[i + 1]
      <3> DEFINE la == Len(a)
                 lb == Len(b)
      <3>1. /\ Len(fs) = la + lb
            /\ \A i \in 1..(la + lb) : fs[i] = IF i <= la THEN a[i] ELSE b[i - la]
        <4>1. a \in Seq(Packages) /\ b \in Seq(Packages)
          BY <2>1, <2>2
        <4> QED
          BY <2>3, <4>1, ConcatProperties
      <3>2. la = k - 1 /\ lb = n - k /\ n \in Nat /\ k \in 1..n
        BY <1>1, <2>1, <2>2
      <3> HIDE DEF n, la, lb
      <3>3. la + lb = n - 1
        BY <3>2
      <3>4. ASSUME NEW i \in 1..(n - 1)
            PROVE  fs[i] = IF i < k THEN packages[i] ELSE packages[i + 1]
        <4>1. CASE i < k
          <5>1. i <= la /\ i \in 1..(k - 1)
            BY <3>2, <4>1
          <5> QED
            BY <2>1, <3>1, <3>3, <4>1, <5>1
        <4>2. CASE ~(i < k)
          <5>1. ~(i <= la) /\ i - la \in 1..(n - k) /\ k + (i - la) = i + 1
            BY <3>2, <4>2
          <5> QED
            BY <2>2, <3>1, <3>3, <4>2, <5>1
        <4> QED
          BY <4>1, <4>2
      <3> QED
        BY <3>1, <3>3, <3>4
    <2> DEFINE h(i) == IF i < k THEN i ELSE i + 1
    <2>5. \A i \in 1..(n - 1) : h(i) \in 1..n /\ fs[i] = packages[h(i)]
      BY <1>1, <2>4
    <2>6. \A i, j \in 1..(n - 1) : h(i) = h(j) => i = j
      BY <1>1
    <2>7. n - 1 \in Nat
      BY <1>1
    <2> HIDE DEF n, h
    <2> QED
      BY <1>2, <2>4, <2>5, <2>6, <2>7
  <1>7. ASSUME NEW k \in 1..n, NEW p, p.id = packages[k].id, fs = With(k, p)
        PROVE  /\ Len(fs) \in Nat
               /\ \A i, j \in 1..Len(fs) : fs[i].id = fs[j].id => i = j
    <2>1. Len(fs) = n /\ \A i \in 1..n : fs[i].id = packages[i].id
      BY <1>1, <1>7
    <2> QED
      BY <1>1, <1>2, <2>1
  <1>8. CASE \E k \in 1..n : fs = RemoveAt(packages, k)
    BY <1>6, <1>8
  <1>9. CASE \E k \in 1..n : fs = With(k, [packages[k] EXCEPT !.version = 9])
    <2>1. PICK k \in 1..n : fs = With(k, [packages[k] EXCEPT !.version = 9])
      BY <1>9
    <2>2. [packages[k] EXCEPT !.version = 9].id = packages[k].id
      BY <1>1 DEF Packages
    <2> HIDE DEF With
    <2> QED
      BY <1>7, <2>1, <2>2
  <1>10. CASE \E k \in 1..n, f \in Hashes, v \in {Empty, Plain("new")} :
                fs = With(k, [packages[k] EXCEPT !.field[f] = v])
    <2>1. PICK k \in 1..n, f \in Hashes, v \in {Empty, Plain("new")} :
                fs = With(k, [packages[k] EXCEPT !.field[f] = v])
      BY <1>10
    <2>2. [packages[k] EXCEPT !.field[f] = v].id = packages[k].id
      BY <1>1 DEF Packages
    <2> HIDE DEF With
    <2> QED
      BY <1>7, <2>1, <2>2
  <1> QED
    BY <1>4, <1>5, <1>8, <1>9, <1>10 DEF Resolved

\* What Decode left and Check compares, when every package is there once.
LEMMA LockedOnce ==
  ASSUME LockInv, phase = "checked", Once(packages), Harmless, NEW g
  PROVE  /\ LockedAs(g) = {} <=> g \notin IdsOf(packages)
         /\ \A j \in 1..Len(packages) : packages[j].id = g =>
              \A f \in Hashes : ByKey(g).field[f] = packages[j].field[f]
  <1> DEFINE n == Len(packages)
             q == Sorted(packages)
  <1>1. IsResolved(packages)
    BY InputsAssumption DEF LockInv
  <1>2. n \in Nat /\ packages \in Seq(Packages) /\ \A i \in 1..n : packages[i] \in Packages
    BY <1>1 DEF IsResolved
  <1>3. /\ q \in Seq(Packages) /\ Len(q) = n /\ Elements(q) = Elements(packages)
        /\ \A i, j \in 1..n : i < j => Before(q[i], q[j])
    BY <1>1, SortedIsInOrder
  <1>4. out = Expected(packages)
    <2> DEFINE r == AfterAll(Render(packages), Begin)
    <2>1. IF \E p \in ToSet(packages) : p.source.kind = NoText THEN r.ok = FALSE
          ELSE r.ok = TRUE /\ FlushedBy(r) = Expected(packages)
      BY <1>1, RenderReads
    <2>2. AfterAll(file, Begin) = r
      BY DEF LockInv, FileKept
    <2> HIDE DEF r
    <2>3. r.ok = TRUE /\ out = FlushedBy(r)
      BY <2>2 DEF LockInv, LinesRead
    <2> QED
      BY <2>1, <2>3
  <1> HIDE DEF q
  <1>5. Len(out) = n /\ \A i \in 1..n : out[i] = Quoted(q[i])
    <2>1. out = [i \in 1..n |-> Quoted(q[i])]
      BY <1>4 DEF Expected, q
    <2> HIDE DEF n
    <2> QED
      BY <1>2, <2>1
  <1>6. LockedAs(g) = {i \in 1..n : q[i].id = g}
    <2>0. \A p : Quoted(p).id = p.id
      BY DEF Quoted, Package
    <2> HIDE DEF n
    <2>1. \A i \in 1..n : out[i].id = q[i].id
      BY <1>5, <2>0
    <2> QED
      BY <1>5, <2>1 DEF LockedAs
  <1>7. /\ \A i \in 1..n : \E j \in 1..n : q[i] = packages[j]
        /\ \A i \in 1..n : \E j \in 1..n : packages[i] = q[j]
    <2> HIDE DEF n
    <2>1. {q[i] : i \in 1..n} = {packages[i] : i \in 1..n}
      BY <1>3 DEF Elements, n
    <2> QED
      BY <2>1
  <1>8. LockedAs(g) = {} <=> g \notin IdsOf(packages)
    <2>1. IdsOf(packages) = {packages[i].id : i \in 1..n}
      BY DEF IdsOf
    <2> HIDE DEF n
    <2>2. LockedAs(g) = {} <=> \A i \in 1..n : q[i].id # g
      BY <1>6
    <2>3. g \notin IdsOf(packages) <=> \A i \in 1..n : packages[i].id # g
      BY <2>1
    <2> QED
      BY <1>7, <2>2, <2>3
  <1>9. ASSUME NEW j \in 1..n, packages[j].id = g, NEW f \in Hashes
        PROVE  ByKey(g).field[f] = packages[j].field[f]
    <2>1. PICK k \in 1..n : packages[j] = q[k]
      BY <1>7
    <2>2. ASSUME NEW i \in 1..n, q[i].id = g
          PROVE  i = k
      <3>1. PICK m \in 1..n : q[i] = packages[m]
        BY <1>7
      <3>2. m = j
        BY <1>1, <1>9, <2>2, <3>1, IdsDiffer
      <3>3. q[i] = q[k] /\ q[i] \in Packages
        BY <1>2, <2>1, <3>1, <3>2
      <3>4. ~Before(q[i], q[k]) /\ ~Before(q[k], q[i])
        BY <3>3, BeforeOrders
      <3> HIDE DEF n
      <3> QED
        BY <1>2, <1>3, <3>4
    <2>3. LockedAs(g) = {k}
      <3> HIDE DEF n
      <3> QED
        BY <1>6, <1>9, <2>1, <2>2
    <2>4. ByKey(g) = out[k]
      <3>1. \E i \in LockedAs(g) : \A m \in LockedAs(g) : m <= i
        BY <2>3
      <3>2. (CHOOSE i \in LockedAs(g) : \A m \in LockedAs(g) : m <= i) \in LockedAs(g)
        BY <3>1
      <3>3. (CHOOSE i \in LockedAs(g) : \A m \in LockedAs(g) : m <= i) = k
        BY <2>3, <3>2
      <3> QED
        BY <3>3, Zenon DEF ByKey
    <2>5. ByKey(g) = Quoted(packages[j])
      BY <1>5, <2>1, <2>4
    <2>6. f \in ToSet(Fields)
      BY FieldsAssumption
    <2>7. Quoted(packages[j]).field[f] = Quote(packages[j].field[f])
      <3>1. Quoted(packages[j]).field = [h \in ToSet(Fields) |-> Quote(packages[j].field[h])]
        BY PackageParts DEF Quoted
      <3> QED
        BY <2>6, <3>1
    <2>8. packages[j].field[f].text # Special
      BY <1>1 DEF IsResolved
    <2> QED
      BY <2>5, <2>7, <2>8 DEF Quote
  <1> QED
    BY <1>8, <1>9

(* Check reports exactly what changed since the packages were locked          *)
(* (lock.go, Check).                                                         *)
THEOREM ChecksWhatChanged == Spec => []ReportsWhatChanged
  <1> DEFINE n == Len(packages)
             ChangedSince(i, f) ==
               \E j \in 1..n :
                 /\ packages[j].id = fresh[i].id
                 /\ {packages[j].field[f], fresh[i].field[f]} \cap {Empty} = {}
                 /\ packages[j].field[f] # fresh[i].field[f]
  <1>1. ASSUME LockInv, phase = "checked", Once(packages), Harmless
        PROVE  /\ fresh = packages => drifts = {}
               /\ \A i \in 1..Len(fresh) :
                    /\ fresh[i].id \notin IdsOf(packages) <=> <<fresh[i].id, "package">> \in drifts
                    /\ \A f \in Hashes : ChangedSince(i, f) <=> <<fresh[i].id, f>> \in drifts
    <2> DEFINE m == Len(fresh)
               Of(i) == IF LockedAs(fresh[i].id) = {} THEN {<<fresh[i].id, "package">>}
                        ELSE {<<fresh[i].id, f>> : f \in Changed(ByKey(fresh[i].id), fresh[i])}
    <2>1. IsResolved(packages) /\ fresh \in Resolved
      BY <1>1, InputsAssumption DEF LockInv, Compared
    <2>2. \A i, j \in 1..m : fresh[i].id = fresh[j].id => i = j
      BY <1>1, <2>1, FreshIdsDiffer
    <2>3. \A x : x \in drifts <=> \E i \in 1..m : x \in Of(i)
      <3>1. drifts = UNION {Of(i) : i \in 1..m}
        BY <1>1 DEF LockInv, Compared, CheckAgainst
      <3> HIDE DEF Of, m
      <3> QED
        BY <3>1
    <2>4. /\ \A g : LockedAs(g) = {} <=> g \notin IdsOf(packages)
          /\ \A g : \A j \in 1..n : packages[j].id = g =>
               \A f \in Hashes : ByKey(g).field[f] = packages[j].field[f]
      BY <1>1, LockedOnce
    <2>5. "package" \notin Hashes
      BY FieldsAssumption
    <2>6. \A i : fresh[i].id \in IdsOf(packages) =>
            \E j \in 1..n : packages[j].id = fresh[i].id
      BY DEF IdsOf
    <2>7. \A i : \A f : f \in Changed(ByKey(fresh[i].id), fresh[i]) <=>
            /\ f \in Hashes
            /\ ByKey(fresh[i].id).field[f] # Empty /\ fresh[i].field[f] # Empty
            /\ ByKey(fresh[i].id).field[f] # fresh[i].field[f]
      BY DEF Changed
    <2> HIDE DEF n, m
    <2>8. ASSUME NEW i \in 1..m
          PROVE  fresh[i].id \notin IdsOf(packages) <=> <<fresh[i].id, "package">> \in drifts
      <3>1. fresh[i].id \notin IdsOf(packages) => <<fresh[i].id, "package">> \in Of(i)
        BY <2>4
      <3>2. ASSUME NEW k \in 1..m, <<fresh[i].id, "package">> \in Of(k)
            PROVE  fresh[i].id \notin IdsOf(packages)
        <4>1. CASE LockedAs(fresh[k].id) = {}
          BY <2>4, <3>2, <4>1
        <4>2. CASE LockedAs(fresh[k].id) # {}
          BY <2>5, <2>7, <3>2, <4>2
        <4> QED
          BY <4>1, <4>2
      <3> HIDE DEF Of
      <3> QED
        BY <2>3, <3>1, <3>2
    <2>9. ASSUME NEW i \in 1..m, NEW f \in Hashes
          PROVE  ChangedSince(i, f) <=> <<fresh[i].id, f>> \in drifts
      <3>1. <<fresh[i].id, f>> \in drifts <=> <<fresh[i].id, f>> \in Of(i)
        <4>1. ASSUME NEW k \in 1..m, <<fresh[i].id, f>> \in Of(k)
              PROVE  k = i
          BY <2>2, <4>1
        <4> HIDE DEF Of
        <4> QED
          BY <2>3, <4>1
      <3>2. <<fresh[i].id, f>> \in Of(i) <=>
              /\ fresh[i].id \in IdsOf(packages)
              /\ f \in Changed(ByKey(fresh[i].id), fresh[i])
        BY <2>4, <2>5
      <3> HIDE DEF Of
      <3>3. ASSUME ChangedSince(i, f)
            PROVE  /\ fresh[i].id \in IdsOf(packages)
                   /\ f \in Changed(ByKey(fresh[i].id), fresh[i])
        <4>1. PICK j \in 1..n :
                /\ packages[j].id = fresh[i].id
                /\ {packages[j].field[f], fresh[i].field[f]} \cap {Empty} = {}
                /\ packages[j].field[f] # fresh[i].field[f]
          BY <3>3
        <4>2. ByKey(fresh[i].id).field[f] = packages[j].field[f]
          BY <2>4, <4>1
        <4>3. fresh[i].id \in IdsOf(packages)
          BY <4>1 DEF IdsOf, n
        <4> QED
          BY <2>7, <4>1, <4>2, <4>3
      <3>4. ASSUME fresh[i].id \in IdsOf(packages), f \in Changed(ByKey(fresh[i].id), fresh[i])
            PROVE  ChangedSince(i, f)
        <4>1. PICK j \in 1..n : packages[j].id = fresh[i].id
          BY <2>6, <3>4
        <4>2. ByKey(fresh[i].id).field[f] = packages[j].field[f]
          BY <2>4, <4>1
        <4> QED
          BY <2>7, <3>4, <4>1, <4>2
      <3> QED
        BY <3>1, <3>2, <3>3, <3>4
    <2>10. ASSUME fresh = packages
           PROVE  drifts = {}
      <3>1. ASSUME NEW i \in 1..m
            PROVE  Of(i) = {}
        <4>1. i \in 1..n /\ packages[i].id = fresh[i].id
          BY <2>10 DEF m, n
        <4>2. fresh[i].id \in IdsOf(packages)
          BY <4>1 DEF IdsOf, n
        <4>3. \A f \in Hashes : ByKey(fresh[i].id).field[f] = fresh[i].field[f]
          BY <2>4, <2>10, <4>1
        <4>4. Changed(ByKey(fresh[i].id), fresh[i]) = {}
          BY <2>7, <4>3
        <4> QED
          BY <2>4, <4>2, <4>4
      <3> HIDE DEF Of
      <3> QED
        BY <2>3, <3>1
    <2> HIDE DEF ChangedSince
    <2> QED
      BY <2>8, <2>9, <2>10 DEF m
  <1>2. LockInv => ReportsWhatChanged
    BY <1>1 DEF ReportsWhatChanged
  <1> QED
    BY <1>2, LockInvHolds, PTL
=============================================================================
