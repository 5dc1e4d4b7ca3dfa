------------------------------- MODULE Bundle -------------------------------
(***************************************************************************)
(* The upload bundle (publish/bundle.go).  BuildBundle writes the ZIP at its *)
(* final path, artifact by artifact: the data, its SHA-1, its MD5 and, when  *)
(* a key is given, its signature.  It may fail anywhere or be killed, and     *)
(* may be called again.  DryRun checks a bundle.  Meanwhile the artifacts    *)
(* may be rebuilt, and entries of the ZIP on disk may be damaged.            *)
(* Contents are versions: a checksum is the version it is the checksum of.   *)
(***************************************************************************)
EXTENDS Integers, Sequences

CONSTANTS
  WithSources,  \* SourcesJARPath is given and the file exists
  Signed,       \* GPGKeyID is given
  MaxVersions,  \* bound: versions of an artifact
  MaxBuilds     \* bound: calls of BuildBundle

ASSUME BundleAssumption ==
  WithSources \in BOOLEAN /\ Signed \in BOOLEAN /\ MaxVersions \in Nat \ {0}

Artifacts == <<"jar", "pom">> \o IF WithSources THEN <<"sources">> ELSE <<>>
Parts == <<"data", "sha1", "md5">> \o IF Signed THEN <<"asc">> ELSE <<>>
Required == {<<"jar", "data">>, <<"pom", "data">>, <<"jar", "sha1">>, <<"pom", "sha1">>}
Versions == 1..MaxVersions
Names == {"jar", "pom", "sources"} \X {"data", "sha1", "md5", "asc"}

VARIABLES
  disk,     \* the version of each artifact on disk
  builds,   \* calls of BuildBundle so far
  at,       \* the artifact being added, 0 when no BuildBundle runs
  read,     \* the version of it that was read, 0 before the read
  part,     \* how many of its entries are in the ZIP
  zip,      \* the ZIP's entries: name -> version
  closed,   \* its central directory is written
  damaged,  \* names of entries whose bytes are damaged
  built,    \* what the BuildBundle that made the file returned: "none", "ok" or "error"
  accepted  \* DryRun accepts the bundle as it is now

bundleVars == <<disk, builds, at, read, part, zip, closed, damaged, built, accepted>>

BundleInit ==
  /\ disk = [a \in {"jar", "pom", "sources"} |-> 1]
  /\ builds = 0 /\ at = 0 /\ read = 0 /\ part = 0
  /\ zip = [n \in {} |-> 0]
  /\ closed = FALSE
  /\ damaged = {}
  /\ built = "none"
  /\ accepted = FALSE

\* The artifact is rebuilt while nobody, or BuildBundle, looks.
Rebuild(a) ==
  /\ disk[a] < MaxVersions
  /\ disk' = [disk EXCEPT ![a] = @ + 1]
  /\ UNCHANGED <<builds, at, read, part, zip, closed, damaged, built, accepted>>

\* Bytes of an entry are damaged: reading it fails its CRC.
Damage(n) ==
  /\ closed /\ n \in DOMAIN zip \ damaged
  /\ damaged' = damaged \cup {n}
  /\ accepted' = FALSE
  /\ UNCHANGED <<disk, builds, at, read, part, zip, closed, built>>

(***************************************************************************)
(* BuildBundle.                                                             *)
(***************************************************************************)

\* os.Create truncates whatever bundle was there.
Create ==
  /\ at = 0 /\ builds < MaxBuilds
  /\ builds' = builds + 1
  /\ at' = 1 /\ read' = 0 /\ part' = 0
  /\ zip' = [n \in {} |-> 0]
  /\ closed' = FALSE
  /\ damaged' = {}
  /\ built' = "none"
  /\ accepted' = FALSE
  /\ UNCHANGED disk

Read ==
  /\ at \in 1..Len(Artifacts) /\ read = 0
  /\ read' = disk[Artifacts[at]]
  /\ UNCHANGED <<disk, builds, at, part, zip, closed, damaged, built, accepted>>

\* The next entry, of version v of the artifact; after the last, the next
\* artifact.
AddEntryOf(v) ==
  LET name == <<Artifacts[at], Parts[part + 1]>>
      last == part + 1 = Len(Parts)
  IN
  /\ at \in 1..Len(Artifacts) /\ read # 0
  /\ zip' = [n \in DOMAIN zip \cup {name} |-> IF n = name THEN v ELSE zip[n]]
  /\ part' = IF last THEN 0 ELSE part + 1
  /\ read' = IF last THEN 0 ELSE read
  /\ at' = IF last THEN at + 1 ELSE at
  /\ UNCHANGED <<disk, builds, closed, damaged, built, accepted>>

\* Wrong on purpose: the checksums are taken of the file, read again.
AddFromDisk == AddEntryOf(disk[Artifacts[at]])

AddEntry == AddEntryOf(read)

Finish ==
  /\ at = Len(Artifacts) + 1
  /\ closed' = TRUE
  /\ built' = "ok"
  /\ at' = 0
  /\ UNCHANGED <<disk, builds, read, part, zip, damaged, accepted>>

\* Wrong on purpose: the ZIP is closed on the error path too.
FailClosing ==
  /\ at # 0
  /\ built' = "error"
  /\ at' = 0
  /\ closed' = TRUE
  /\ UNCHANGED <<disk, builds, read, part, zip, damaged, accepted>>

\* A read, a write or the signing fails, or the process is killed: the file is
\* left as it is, without its central directory.
Fail ==
  /\ at # 0
  /\ built' = "error"
  /\ at' = 0
  /\ UNCHANGED <<disk, builds, read, part, zip, closed, damaged, accepted>>

(***************************************************************************)
(* DryRun.                                                                  *)
(***************************************************************************)
Opens == closed
HasRequired == Required \subseteq DOMAIN zip
Readable(n) == n \notin damaged

SHA1Matches(a) ==
  /\ Readable(<<a, "data">>) /\ Readable(<<a, "sha1">>)
  /\ zip[<<a, "data">>] = zip[<<a, "sha1">>]

DryRun ==
  /\ accepted' = (Opens /\ HasRequired /\ \A a \in {"jar", "pom"} : SHA1Matches(a))
  /\ UNCHANGED <<disk, builds, at, read, part, zip, closed, damaged, built>>

BundleNext ==
  \/ \E a \in {"jar", "pom", "sources"} : Rebuild(a)
  \/ \E n \in Names : Damage(n)
  \/ Create \/ Read \/ AddEntry \/ Finish \/ Fail
  \/ DryRun

BundleSpec == BundleInit /\ [][BundleNext]_bundleVars

(***************************************************************************)
(* Properties                                                               *)
(***************************************************************************)

\* BuildBundle: in a finished bundle every artifact has every checksum and the
\* signature of the data that is there, even when artifacts are rebuilt during
\* the build.
SumsAreOfTheData ==
  built = "ok" =>
    \A i \in 1..Len(Artifacts), j \in 1..Len(Parts) :
      /\ <<Artifacts[i], Parts[j]>> \in DOMAIN zip
      /\ zip[<<Artifacts[i], Parts[j]>>] = zip[<<Artifacts[i], "data">>]

\* DryRun after BuildBundle: what a failed or unfinished build left at the path
\* is never accepted, and an accepted bundle has an intact JAR and POM.
AcceptedIsWhole ==
  accepted => built = "ok" /\ \A n \in Required : n \in DOMAIN zip \ damaged

(* What the two rest on, inductively.                                       *)

Entry(i, j) == <<Artifacts[i], Parts[j]>>
Places == (1..Len(Artifacts)) \X (1..Len(Parts))

\* The entries the running build has written, or the finished one wrote.
Written == {q \in Places : built = "ok" \/ q[1] < at \/ (q[1] = at /\ q[2] <= part)}

\* Every entry written has the version of the data of its artifact ...
WrittenMatch ==
  at # 0 \/ built = "ok" =>
    \A q \in Written : /\ Entry(q[1], q[2]) \in DOMAIN zip
                       /\ zip[Entry(q[1], q[2])] = zip[Entry(q[1], 1)]

\* ... which, for the artifact being added, is the one that was read.
DataIsRead == at \in 1..Len(Artifacts) /\ part > 0 => read # 0 /\ zip[Entry(at, 1)] = read

\* A ZIP opens once its build has finished, and only then can it be accepted.
OpensWhenBuilt ==
  /\ at # 0 => built = "none"
  /\ closed => built = "ok"
  /\ accepted => closed /\ HasRequired /\ Required \cap damaged = {}

BundleTyped ==
  /\ disk \in [{"jar", "pom", "sources"} -> Versions]
  /\ at \in 0..Len(Artifacts) + 1
  /\ part \in 0..Len(Parts) - 1
  /\ at = Len(Artifacts) + 1 => part = 0
  /\ built \in {"none", "ok", "error"}

BundleInv == BundleTyped /\ WrittenMatch /\ DataIsRead /\ OpensWhenBuilt
=============================================================================
