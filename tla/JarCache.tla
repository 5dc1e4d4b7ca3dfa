------------------------------ MODULE JarCache ------------------------------
(***************************************************************************)
(* The content-addressed JAR cache (maven/cache.go): Put writes a temporary  *)
(* file beside its destination, syncs, closes and renames it, and removes    *)
(* the temporary name on every path out; Get reads the file a key names.     *)
(* Several builds share the directory.  A build may be killed at any step    *)
(* and the machine may lose power: data that was not synced may then be lost,  *)
(* and what was done to names in directories, which nothing syncs, undone.    *)
(* Temporary names are random and not reused here; contents are the key      *)
(* they hash to and how many blocks of them are there.                       *)
(***************************************************************************)
EXTENDS Integers, FiniteSets

CONSTANTS
  Keys,      \* the digests in play: the data of a key is the key itself
  Putters,   \* builds that store JARs
  Getters,   \* builds that read them
  Miss, NoAnswer,
  Blocks,    \* blocks in a JAR
  MaxFiles   \* bound: files ever created

ASSUME SizesAssumption == Blocks \in Nat \ {0} /\ MaxFiles \in Nat
ASSUME AnswersAssumption == Miss \notin Keys

VARIABLES
  made,     \* files created so far, numbered 1..made
  file,     \* the data of each file and how much of it is written and synced
  name,     \* the file each key's final path names, 0 if none
  older,    \* files a key's path named before, which a power loss may show
  temps,    \* files that have a temporary name
  put,      \* each Put: its step, its key and its file
  get,      \* each Get: the key and the file it has open, 0 if none
  answer,   \* per reader, the last answer
  killed,   \* history: since the power was last lost, files of killed Puts
  lastLoss  \* history: files created before the power was last lost

vars == <<made, file, name, older, temps, put, get, answer, killed, lastLoss>>

Files == 1..MaxFiles
Idle == [at |-> "idle", key |-> Miss, file |-> 0]
Shut == [key |-> Miss, file |-> 0]
Contents(f) == IF file[f].written = Blocks THEN file[f].of ELSE Miss

Init ==
  /\ made = 0
  /\ file = [f \in Files |-> [of |-> Miss, written |-> 0, synced |-> 0]]
  /\ name = [k \in Keys |-> 0]
  /\ older = [k \in Keys |-> {}]
  /\ temps = {}
  /\ put = [p \in Putters |-> Idle]
  /\ get = [g \in Getters |-> Shut]
  /\ answer = [g \in Getters |-> NoAnswer]
  /\ killed = {}
  /\ lastLoss = 0

Goto(p, step) == put' = [put EXCEPT ![p].at = step]

(***************************************************************************)
(* Put.  Each step may fail, which runs the deferred Close and Remove.       *)
(***************************************************************************)

\* Wrong on purpose: create the final file and write into it: no temporary file.
CreateInPlace(p, k) ==
  /\ put[p].at = "idle" /\ made < MaxFiles
  /\ made' = made + 1
  /\ file' = [file EXCEPT ![made + 1].of = k]
  /\ name' = [name EXCEPT ![k] = made + 1]
  /\ put' = [put EXCEPT ![p] = [at |-> "write", key |-> k, file |-> made + 1]]
  /\ UNCHANGED <<older, temps, get, answer, killed, lastLoss>>

\* MkdirAll and CreateTemp; an error here leaves nothing behind.
CreateTemp(p, k) ==
  /\ put[p].at = "idle" /\ made < MaxFiles
  /\ made' = made + 1
  /\ file' = [file EXCEPT ![made + 1].of = k]
  /\ temps' = temps \cup {made + 1}
  /\ put' = [put EXCEPT ![p] = [at |-> "write", key |-> k, file |-> made + 1]]
  /\ UNCHANGED <<name, older, get, answer, killed, lastLoss>>

\* tmp.Write, block by block.
Write(p) ==
  LET f == put[p].file IN
  /\ put[p].at = "write"
  /\ file' = [file EXCEPT ![f].written = @ + 1]
  /\ Goto(p, IF file[f].written + 1 = Blocks THEN "sync" ELSE "write")
  /\ UNCHANGED <<made, name, older, temps, get, answer, killed, lastLoss>>

\* Wrong on purpose: the sync is left out.
SyncNothing(p) ==
  /\ put[p].at = "sync"
  /\ Goto(p, "close")
  /\ UNCHANGED <<made, file, name, older, temps, get, answer, killed, lastLoss>>

Sync(p) ==
  LET f == put[p].file IN
  /\ put[p].at = "sync"
  /\ file' = [file EXCEPT ![f].synced = file[f].written]
  /\ Goto(p, "close")
  /\ UNCHANGED <<made, name, older, temps, get, answer, killed, lastLoss>>

Close(p) ==
  /\ put[p].at = "close"
  /\ Goto(p, "rename")
  /\ UNCHANGED <<made, file, name, older, temps, get, answer, killed, lastLoss>>

Rename(p) ==
  LET k == put[p].key  f == put[p].file IN
  /\ put[p].at = "rename"
  /\ name' = [name EXCEPT ![k] = f]
  /\ older' = [older EXCEPT ![k] = @ \cup {name[k]}]
  /\ temps' = temps \ {f}
  /\ Goto(p, "cleanup")
  /\ UNCHANGED <<made, file, get, answer, killed, lastLoss>>

\* A full disk or an I/O error: the step returns its error.
Fails(p) ==
  /\ put[p].at \in {"write", "sync", "close", "rename"}
  /\ Goto(p, "cleanup")
  /\ UNCHANGED <<made, file, name, older, temps, get, answer, killed, lastLoss>>

\* Wrong on purpose: the temporary name is removed only by a Put that succeeded.
ForgetsTemp(p) ==
  /\ put[p].at = "cleanup"
  /\ put' = [put EXCEPT ![p] = Idle]
  /\ UNCHANGED <<made, file, name, older, temps, get, answer, killed, lastLoss>>

RemoveTemp(p) ==
  /\ put[p].at = "cleanup"
  /\ temps' = temps \ {put[p].file}
  /\ put' = [put EXCEPT ![p] = Idle]
  /\ UNCHANGED <<made, file, name, older, get, answer, killed, lastLoss>>

(***************************************************************************)
(* Get.  The file stays the one that was open when the path was looked up.   *)
(***************************************************************************)
GetMisses(g, k) ==
  /\ get[g] = Shut /\ name[k] = 0
  /\ answer' = [answer EXCEPT ![g] = <<k, Miss>>]
  /\ UNCHANGED <<made, file, name, older, temps, put, get, killed, lastLoss>>

GetOpens(g, k) ==
  /\ get[g] = Shut /\ name[k] # 0
  /\ get' = [get EXCEPT ![g] = [key |-> k, file |-> name[k]]]
  /\ UNCHANGED <<made, file, name, older, temps, put, answer, killed, lastLoss>>

GetReads(g) ==
  /\ get[g] # Shut
  /\ answer' = [answer EXCEPT ![g] = <<get[g].key, Contents(get[g].file)>>]
  /\ get' = [get EXCEPT ![g] = Shut]
  /\ UNCHANGED <<made, file, name, older, temps, put, killed, lastLoss>>

(***************************************************************************)
(* Failures.                                                                *)
(***************************************************************************)

\* The build's process is killed: nothing deferred runs.
Kill(p) ==
  /\ put[p].at # "idle"
  /\ killed' = killed \cup {put[p].file}
  /\ put' = [put EXCEPT ![p] = Idle]
  /\ UNCHANGED <<made, file, name, older, temps, get, answer, lastLoss>>

\* Names that were there when the power was last lost stay.  A file made since may
\* be found under the path a rename gave it, under its temporary name, when it is
\* the rename or the removal that is lost, or under neither.
PowerLoss ==
  /\ \E torn \in SUBSET {f \in 1..made : file[f].synced # file[f].written} :
       file' = [f \in Files |->
                  IF f \in torn THEN [file[f] EXCEPT !.written = file[f].synced]
                  ELSE file[f]]
  /\ name' \in {n \in [Keys -> 0..MaxFiles] :
                  \A k \in Keys : n[k] \in older[k] \cup {name[k]}}
  /\ temps' \in {ts \in SUBSET (1..made) :
                   /\ ts \cap 1..lastLoss = temps \cap 1..lastLoss
                   /\ \A k \in Keys : name'[k] \notin ts}
  /\ killed' = {}
  /\ lastLoss' = made
  /\ put' = [p \in Putters |-> Idle]
  /\ get' = [g \in Getters |-> Shut]
  /\ answer' = [g \in Getters |-> NoAnswer]
  /\ older' = [k \in Keys |-> {}]
  /\ UNCHANGED made

Next ==
  \/ \E p \in Putters :
       \/ \E k \in Keys : CreateTemp(p, k)
       \/ Write(p) \/ Sync(p) \/ Close(p) \/ Rename(p)
       \/ Fails(p) \/ RemoveTemp(p) \/ Kill(p)
  \/ \E g \in Getters :
       \/ \E k \in Keys : GetMisses(g, k) \/ GetOpens(g, k)
       \/ GetReads(g)
  \/ PowerLoss

Spec == Init /\ [][Next]_vars

(***************************************************************************)
(* Properties                                                               *)
(***************************************************************************)

\* The type invariant: every name, reader and Put refers to a file that was
\* created, and no file has more than its blocks.
TypeOK ==
  /\ made \in 0..MaxFiles
  /\ file \in [Files -> [of : Keys \cup {Miss}, written : 0..Blocks, synced : 0..Blocks]]
  /\ name \in [Keys -> 0..made]
  /\ older \in [Keys -> SUBSET (0..made)]
  /\ temps \subseteq 1..made /\ killed \subseteq 1..made /\ lastLoss \in 0..made
  /\ put \in [Putters -> [at : {"idle", "write", "sync", "close", "rename", "cleanup"},
                          key : Keys \cup {Miss}, file : 0..made]]
  /\ get \in [Getters -> [key : Keys \cup {Miss}, file : 0..made]]

\* Put: whatever is killed or loses power, and however Puts of the same key
\* overlap, a key's path names nothing or a file with all the key's bytes.
EntriesAreWhole ==
  \A k \in Keys : name[k] # 0 => Contents(name[k]) = k

\* Put's deferred Remove: while the power stays on, a Put that failed or succeeded
\* leaves no temporary file.  One that nobody is writing is of a build that was
\* killed, or of a build of any outcome before the power was last lost.
LeftoversAreExplained ==
  temps \subseteq killed \cup 1..lastLoss \cup {put[p].file : p \in Putters}

\* What every name, reader, Put and temporary file refers to.
FilesInv == TypeOK /\ LeftoversAreExplained

\* A file that holds all of a key's bytes, whatever is lost.
Whole(k) == [of |-> k, written |-> Blocks, synced |-> Blocks]
WholeFor(f, k) == file[f] = Whole(k)

\* Whatever a path names or named, and whatever a Get has open, is whole.
NamedAreWhole ==
  /\ \A k \in Keys : \A f \in older[k] \cup {name[k]} : f = 0 \/ WholeFor(f, k)
  /\ \A k \in Keys : name[k] = 0 => older[k] = {}
  /\ \A g \in Getters : get[g] # Shut =>
       get[g].key \in Keys /\ get[g].file # 0 /\ WholeFor(get[g].file, get[g].key)

\* How far the file of a Put is, by the step the Put is at.
Progress(p) ==
  LET f == file[put[p].file] IN
  /\ put[p].key \in Keys /\ put[p].file # 0
  /\ put[p].at \notin {"idle", "cleanup"} => f.of = put[p].key
  /\ put[p].at = "write" => f.written < Blocks
  /\ put[p].at = "sync" => f.written = Blocks
  /\ put[p].at \in {"close", "rename"} => f.written = Blocks /\ f.synced = Blocks

\* Puts write files of their own, new ones.
PutsInOrder ==
  /\ \A p \in Putters : put[p] = Idle \/ (put[p].at # "idle" /\ Progress(p))
  /\ \A p, q \in Putters : put[p].file = put[q].file /\ put[p].file # 0 => p = q
  /\ \A f \in Files : f > made => file[f] = [of |-> Miss, written |-> 0, synced |-> 0]

\* What every step of every build and every failure preserves.
CacheInv ==
  /\ FilesInv /\ NamedAreWhole /\ PutsInOrder
  /\ answer \in [Getters -> {NoAnswer} \cup Keys \X (Keys \cup {Miss})]

\* The keys that are stored, and the answers with those that are on their way.
storedBar == {k \in Keys : name[k] # 0}
answerBar ==
  [g \in Getters |->
     IF get[g] = Shut THEN answer[g] ELSE <<get[g].key, Contents(get[g].file)>>]

\* Get and Put implement a store whose operations are atomic.
Store == INSTANCE CacheStore WITH stored <- storedBar, answer <- answerBar

ImplementsStore == Store!Spec
=============================================================================
