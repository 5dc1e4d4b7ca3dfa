------------------------------ MODULE Pipeline ------------------------------
(***************************************************************************)
(* The build of a Java import (build/pipeline.go) in the workspace of one    *)
(* Driver (build/driver.go): fetch and verify the JAR (maven/client.go), put *)
(* it in the cache or in the work directory, reflect it, write a wrapper     *)
(* source per class, compile what the wrapper directory holds.  Runs of      *)
(* different artifacts overlap; the cache is the store of CacheStore.        *)
(* External: the Maven server, the reflect tool and javac.  A JAR is the     *)
(* coordinate it was published as, or Damaged; its digests tell them apart.  *)
(***************************************************************************)
EXTENDS FiniteSets

CONSTANTS
  Runs,       \* calls of Pipeline.Run on this driver
  Coords,     \* the coordinates imported: records with ga and av
  ClassesOf,  \* the wrapped classes of each coordinate's JAR
  Options,    \* the Options a Driver is made with: NoCache and WorkDir, which
              \* is "none", "plain" or "prefixed" with mochi-java-
  Damaged, Nothing

ASSUME OptionsAssumption ==
  Options \subseteq [NoCache : BOOLEAN, WorkDir : {"none", "plain", "prefixed"}]
ASSUME ContentsAssumption == Damaged # Nothing /\ {Damaged, Nothing} \cap Coords = {}

VARIABLES
  opts,      \* Driver.opts; WorkDir is "own" once the driver allocated one
  cache,     \* the JARs in the content-addressed cache
  jars,      \* <work-dir>/<artifact>-<version>.jar, per name
  sources,   \* <work-dir>/wrapper-src/<group>/<artifact>/*.java, per directory
  run        \* the state of each Run

pipelineVars == <<opts, cache, jars, sources, run>>

\* The coordinate's parts that name files: ga is group and artifact, av is
\* artifact and version.
JARFilename(c) == c.av
WrapperDir(c) == c.ga

Wrappers(c) == {[class |-> k, of |-> c] : k \in ClassesOf[c]}
FileNames == {JARFilename(c) : c \in Coords}
Dirs == {WrapperDir(c) : c \in Coords}

Unstarted ==
  [at |-> "idle", coord |-> Nothing, sum |-> Nothing, data |-> Nothing,
   seen |-> Nothing, todo |-> {}, compiled |-> {}, unread |-> FALSE]

PipelineInit ==
  /\ opts \in Options
  /\ cache = {}
  /\ jars = [n \in FileNames |-> Nothing]
  /\ sources = [d \in Dirs |-> {}]
  /\ run = [r \in Runs |-> Unstarted]

Active(r) == run[r].at \notin {"idle", "done", "failed"}
MovesTo(r, step) == run' = [run EXCEPT ![r].at = step]

(***************************************************************************)
(* Driver.                                                                  *)
(***************************************************************************)
PrepareWorkspace ==
  /\ opts' = IF opts.WorkDir = "none" THEN [opts EXCEPT !.WorkDir = "own"] ELSE opts
  /\ UNCHANGED <<cache, jars, sources, run>>

\* Cleanup: only the name tells a directory the driver allocated, so a prefixed
\* directory of the caller goes too.  It is not called while a Run of the same
\* driver is under way.
Cleanup ==
  /\ \A r \in Runs : ~Active(r)
  /\ opts.WorkDir \in {"own", "prefixed"}
  /\ opts' = [opts EXCEPT !.WorkDir = "none"]
  /\ jars' = [n \in FileNames |-> Nothing]
  /\ sources' = [d \in Dirs |-> {}]
  /\ UNCHANGED <<cache, run>>

(***************************************************************************)
(* Run.                                                                     *)
(***************************************************************************)

\* Runs that share a wrapper directory do not overlap.
Begin(r, c) ==
  /\ run[r].at = "idle"
  /\ \A q \in Runs : Active(q) => WrapperDir(run[q].coord) # WrapperDir(c)
  /\ IF opts.WorkDir = "none"
       THEN MovesTo(r, "failed")
       ELSE run' = [run EXCEPT ![r] = [Unstarted EXCEPT !.at = "sum", !.coord = c]]
  /\ UNCHANGED <<opts, cache, jars, sources>>

\* A request of either file may fail, one of a cached JAR too.
Unanswered(r) ==
  /\ run[r].at \in {"sum", "jar"}
  /\ MovesTo(r, "failed")
  /\ UNCHANGED <<opts, cache, jars, sources>>

\* FetchChecksum: the digest of the published JAR, or of something else.
FetchChecksum(r) ==
  /\ run[r].at = "sum"
  /\ \E sum \in {run[r].coord, Nothing} :
       run' = [run EXCEPT ![r].sum = sum, ![r].at = "jar"]
  /\ UNCHANGED <<opts, cache, jars, sources>>

\* Wrong on purpose: the body is taken as it comes.
FetchUnverified(r) ==
  /\ run[r].at = "jar"
  /\ \E body \in {run[r].coord, Damaged} :
       run' = [run EXCEPT ![r].data = body, ![r].at = "resolve"]
  /\ UNCHANGED <<opts, cache, jars, sources>>

\* FetchJAR: the body may be cut short; its digest must be the one fetched.
FetchJAR(r) ==
  /\ run[r].at = "jar"
  /\ \E body \in {run[r].coord, Damaged} :
       IF body = run[r].sum
         THEN run' = [run EXCEPT ![r].data = body, ![r].at = "resolve"]
         ELSE MovesTo(r, "failed")
  /\ UNCHANGED <<opts, cache, jars, sources>>

\* resolveJAR: into the cache, or over the file of that name.
CachePut(r) ==
  /\ run[r].at = "resolve" /\ ~opts.NoCache
  /\ cache' = cache \cup {run[r].data}
  /\ MovesTo(r, "reflect")
  /\ UNCHANGED <<opts, jars, sources>>

TruncateJar(r) ==
  /\ run[r].at = "resolve" /\ opts.NoCache
  /\ jars' = [jars EXCEPT ![JARFilename(run[r].coord)] = Damaged]
  /\ MovesTo(r, "store")
  /\ UNCHANGED <<opts, cache, sources>>

StoreJar(r) ==
  /\ run[r].at = "store"
  /\ jars' = [jars EXCEPT ![JARFilename(run[r].coord)] = run[r].data]
  /\ MovesTo(r, "reflect")
  /\ UNCHANGED <<opts, cache, sources>>

\* Put or WriteFile returns an error; the latter leaves the file truncated.
ResolveFails(r) ==
  /\ run[r].at \in {"resolve", "store"}
  /\ MovesTo(r, "failed")
  /\ UNCHANGED <<opts, cache, jars, sources>>

\* Wrong on purpose: the cache is searched by file name.
AtFilename(r) ==
  LET same == {c \in cache : JARFilename(c) = JARFilename(run[r].coord)} IN
  IF opts.NoCache THEN jars[JARFilename(run[r].coord)]
  ELSE IF same # {} THEN CHOOSE c \in same : TRUE ELSE Nothing

\* What PipelineResult.JARPath names.
AtJARPath(r) ==
  IF opts.NoCache THEN jars[JARFilename(run[r].coord)]
  ELSE IF run[r].data \in cache THEN run[r].data ELSE Nothing

\* Tool.Invoke reads the file at the path; it fails on one it cannot read.
Reflect(r) ==
  /\ run[r].at = "reflect"
  /\ \/ /\ AtJARPath(r) \in Coords
        /\ run' = [run EXCEPT ![r].at = "write", ![r].seen = AtJARPath(r),
                              ![r].todo = Wrappers(AtJARPath(r))]
     \/ MovesTo(r, "failed")
  /\ UNCHANGED <<opts, cache, jars, sources>>

Overwritten(files, w) == {s \in files : s.class # w.class} \cup {w}

\* synthesiseWrappers: one file per class, over a file of the same name.
WriteWrapper(r) ==
  /\ run[r].at = "write"
  /\ \E w \in run[r].todo :
       /\ sources' = [sources EXCEPT ![WrapperDir(run[r].coord)] = Overwritten(@, w)]
       /\ run' = [run EXCEPT ![r].todo = @ \ {w}]
  /\ UNCHANGED <<opts, cache, jars>>

\* MkdirAll returns an error, or WriteFile does: before it opened the file, or
\* after it truncated it.
WriteFails(r) ==
  /\ run[r].at = "write"
  /\ \/ /\ run[r].todo # {} \/ Wrappers(run[r].seen) = {}
        /\ UNCHANGED sources
     \/ \E w \in run[r].todo :
          sources' = [sources EXCEPT ![WrapperDir(run[r].coord)] =
                        Overwritten(@, [w EXCEPT !.of = Damaged])]
  /\ MovesTo(r, "failed")
  /\ UNCHANGED <<opts, cache, jars>>

\* Wrong on purpose: compile whatever is there before the last file is written.
ListEarly(r) ==
  /\ run[r].at = "write"
  /\ \/ /\ sources[WrapperDir(run[r].coord)] # {}
        /\ run' = [run EXCEPT ![r].at = "javac",
                              ![r].compiled = sources[WrapperDir(run[r].coord)]]
     \/ run' = [run EXCEPT ![r].at = "done", ![r].unread = TRUE]
  /\ UNCHANGED <<opts, cache, jars, sources>>

\* javaFilesInDir, then RunJavac on all of it.  A directory that ReadDir cannot
\* read counts as an empty one, and with nothing to compile Run succeeds.
ListSources(r) ==
  /\ run[r].at = "write" /\ run[r].todo = {}
  /\ \/ /\ sources[WrapperDir(run[r].coord)] # {}
        /\ run' = [run EXCEPT ![r].at = "javac",
                              ![r].compiled = sources[WrapperDir(run[r].coord)]]
     \/ sources[WrapperDir(run[r].coord)] = {} /\ MovesTo(r, "done")
     \/ run' = [run EXCEPT ![r].at = "done", ![r].unread = TRUE]
  /\ UNCHANGED <<opts, cache, jars, sources>>

\* A wrapper of a class that the JAR at the path has not got does not compile.
Javac(r) ==
  /\ run[r].at = "javac"
  /\ \/ /\ AtJARPath(r) \in Coords
        /\ \A w \in run[r].compiled : w.class \in ClassesOf[AtJARPath(r)]
        /\ MovesTo(r, "done")
     \/ MovesTo(r, "failed")
  /\ UNCHANGED <<opts, cache, jars, sources>>

Step(r) ==
  \/ \E c \in Coords : Begin(r, c)
  \/ Unanswered(r) \/ FetchChecksum(r) \/ FetchJAR(r)
  \/ CachePut(r) \/ TruncateJar(r) \/ StoreJar(r) \/ ResolveFails(r)
  \/ Reflect(r) \/ WriteWrapper(r) \/ WriteFails(r)
  \/ ListSources(r) \/ Javac(r)

PipelineNext == PrepareWorkspace \/ Cleanup \/ \E r \in Runs : Step(r)

PipelineSpec == PipelineInit /\ [][PipelineNext]_pipelineVars

(***************************************************************************)
(* Properties                                                               *)
(***************************************************************************)

\* FetchJAR before Put: a body that does not match its checksum reaches
\* neither the cache nor the work directory.
OnlyVerifiedIsKept ==
  /\ Damaged \notin cache
  /\ \A r \in Runs : run[r].at \in {"reflect", "write", "javac", "done"} =>
                       run[r].data = run[r].coord

\* Reflect after resolveJAR: however runs of artifacts with equal file names
\* overlap, a run that goes through the cache reflects the JAR it fetched.
\* (Without it, two groups' artifacts of one name share a file.)
ReflectsItsOwnJar ==
  ~opts.NoCache => \A r \in Runs : run[r].seen \in {Nothing, run[r].coord}

\* Steps 3 and 5: although files of earlier versions lie in the directory, javac
\* gets a wrapper of the very version this run reflected for every class of it,
\* and a run that succeeds has compiled them all, or has skipped javac because
\* the directory could not be read; then it has compiled none.
CompilesAllOrNothing ==
  \A r \in Runs : LET x == run[r] IN
    x.at \in {"javac", "done"} =>
      IF x.unread THEN x.at = "done" /\ x.compiled = {}
                  ELSE Wrappers(x.seen) \subseteq x.compiled

(* What the three rest on, inductively.  x is the state of a Run.           *)

WrapperFiles == [class : UNION {ClassesOf[c] : c \in Coords}, of : Coords \cup {Damaged}]
Bodies == Coords \cup {Damaged, Nothing}
RunStates ==
  [at : {"idle", "sum", "jar", "resolve", "store", "reflect", "write", "javac", "done", "failed"},
   coord : Coords \cup {Nothing}, sum : Bodies, data : Bodies, seen : Bodies,
   todo : SUBSET WrapperFiles, compiled : SUBSET WrapperFiles, unread : BOOLEAN]

PipelineTyped ==
  /\ opts \in [NoCache : BOOLEAN, WorkDir : {"none", "plain", "prefixed", "own"}]
  /\ run \in [Runs -> RunStates]
  /\ sources \in [Dirs -> SUBSET WrapperFiles]

Working(x) == x.at \notin {"idle", "done", "failed"}

\* What a run holds is what it asked for, once the checksum has been compared.
Honest(x) ==
  /\ Working(x) \/ x.at = "done" => x.coord \in Coords
  /\ x.at = "jar" => x.sum \in {x.coord, Nothing}
  /\ x.at \in {"resolve", "store", "reflect", "write", "javac", "done"} => x.data = x.coord
  /\ x.at \in {"write", "javac", "done"} => x.seen \in Coords
  /\ ~opts.NoCache => x.seen \in {Nothing, x.coord}

\* Nothing is compiled before the directory is listed, nor when it cannot be.
Compiles(x) ==
  /\ x.at \notin {"javac", "done", "failed"} => x.compiled = {} /\ ~x.unread
  /\ x.unread => x.at = "done" /\ x.compiled = {}
  /\ x.at \in {"javac", "done"} /\ ~x.unread => Wrappers(x.seen) \subseteq x.compiled

\* The wrappers of the reflected JAR that are not to be written are written.
Wrote(x) ==
  /\ x.at = "write" => /\ x.todo \subseteq Wrappers(x.seen)
                      /\ Wrappers(x.seen) \ x.todo \subseteq sources[WrapperDir(x.coord)]

\* No two runs at work write in one directory.
Apart ==
  \A q, r \in Runs : q # r /\ Active(q) /\ Active(r) =>
                       WrapperDir(run[q].coord) # WrapperDir(run[r].coord)

PipelineInv ==
  /\ PipelineTyped /\ Apart
  /\ Damaged \notin cache
  /\ \A r \in Runs : Honest(run[r]) /\ Wrote(run[r]) /\ Compiles(run[r])
=============================================================================
