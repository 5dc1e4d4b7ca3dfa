---------------------------- MODULE ImportProofs ----------------------------
(***************************************************************************)
(* What is proved about the import of Java libraries.  The JAR cache, for any *)
(* keys, builds, block counts and failures: files under a name are whole, and *)
(* the cache implements CacheStore.  The build, for any coordinates, JARs,    *)
(* options and numbers of runs: only verified bodies are kept, a run through  *)
(* the cache reflects its own JAR, and javac gets every wrapper of the JAR    *)
(* the run reflected.  Wrapper synthesis, for any classes and types: every    *)
(* public method is in a wrapper or in the report, and the shim declares what *)
(* the wrappers have.  CacheInv, PipelineInv and SynthesisInv are the         *)
(* inductive invariants.                                                     *)
(***************************************************************************)
EXTENDS JarCache, Pipeline, Synthesis, DataLemmas

(***************************************************************************)
(* What the invariant gives for one file, one Put and one Get.              *)
(***************************************************************************)

\* A whole file has a key's bytes.
LEMMA WholeContents ==
  ASSUME NEW f, NEW k, WholeFor(f, k)
  PROVE  Contents(f) = k
  BY DEF WholeFor, Whole, Contents

LEMMA Parts ==
  ASSUME CacheInv
  PROVE  /\ TypeOK /\ LeftoversAreExplained /\ NamedAreWhole /\ PutsInOrder
         /\ made \in Nat /\ MaxFiles \in Nat /\ Blocks \in Nat \ {0}
  BY SizesAssumption DEF CacheInv, FilesInv, TypeOK

\* A Put that is under way has a file of its own that was created.
LEMMA PutFile ==
  ASSUME CacheInv, NEW p \in Putters, put[p].at # "idle"
  PROVE  /\ put[p].file \in 1..made /\ put[p].file \in Files /\ put[p].key \in Keys
         /\ Progress(p)
         /\ \A q \in Putters \ {p} : put[q].file # put[p].file
  <1>1. TypeOK /\ PutsInOrder /\ made \in Nat /\ MaxFiles \in Nat
    BY Parts
  <1>2. put[p] # Idle
    BY DEF Idle
  <1>3. Progress(p)
    BY <1>1, <1>2 DEF PutsInOrder
  <1>4. put[p].file \in 0..made /\ put[p].file # 0 /\ put[p].key \in Keys
    BY <1>1, <1>3 DEF TypeOK, Progress
  <1>5. put[p].file \in 1..made /\ put[p].file \in Files
    BY <1>1, <1>4 DEF TypeOK, Files
  <1>6. \A q \in Putters \ {p} : put[q].file # put[p].file
    BY <1>1, <1>4 DEF PutsInOrder
  <1> QED
    BY <1>3, <1>4, <1>5, <1>6

(***************************************************************************)
(* Steps that leave names and readers alone and keep whole files whole.      *)
(***************************************************************************)
LEMMA WholeStaysNamed ==
  ASSUME CacheInv, UNCHANGED <<name, older, get>>,
         \A f \in 1..made : \A k \in Keys : WholeFor(f, k) => WholeFor(f, k)'
  PROVE  NamedAreWhole'
  <1>1. TypeOK /\ NamedAreWhole /\ made \in Nat
    BY Parts
  <1>2. \A k \in Keys : \A f \in older[k] \cup {name[k]} : f = 0 \/ WholeFor(f, k)'
    <2> SUFFICES ASSUME NEW k \in Keys, NEW f \in older[k] \cup {name[k]}, f # 0
                 PROVE  WholeFor(f, k)'
      OBVIOUS
    <2>1. f \in 0..made
      BY <1>1 DEF TypeOK
    <2>2. f \in 1..made
      BY <1>1, <2>1
    <2>3. WholeFor(f, k)
      BY <1>1 DEF NamedAreWhole
    <2> QED
      BY <2>2, <2>3
  <1>3. \A g \in Getters : get[g] # Shut =>
          get[g].key \in Keys /\ get[g].file # 0 /\ WholeFor(get[g].file, get[g].key)'
    <2> SUFFICES ASSUME NEW g \in Getters, get[g] # Shut
                 PROVE  get[g].key \in Keys /\ get[g].file # 0 /\ WholeFor(get[g].file, get[g].key)'
      OBVIOUS
    <2>1. /\ get[g].key \in Keys /\ get[g].file # 0 /\ WholeFor(get[g].file, get[g].key)
          /\ get[g].file \in 0..made
      BY <1>1 DEF NamedAreWhole, TypeOK
    <2>2. get[g].file \in 1..made
      BY <1>1, <2>1
    <2> QED
      BY <2>1, <2>2
  <1>4. \A k \in Keys : name[k] = 0 => older[k] = {}
    BY <1>1 DEF NamedAreWhole
  <1>5. \A k \in Keys : \A f \in older'[k] \cup {name'[k]} : f = 0 \/ WholeFor(f, k)'
    BY <1>2
  <1>6. \A g \in Getters : get'[g] # Shut =>
          /\ get'[g].key \in Keys /\ get'[g].file # 0
          /\ file'[get'[g].file] = Whole(get'[g].key)
    BY <1>3 DEF WholeFor
  <1> QED
    BY <1>4, <1>5, <1>6 DEF NamedAreWhole, WholeFor, Whole

LEMMA SameFiles ==
  ASSUME file' = file, NEW f, NEW k, WholeFor(f, k)
  PROVE  WholeFor(f, k)'
  BY DEF WholeFor

(***************************************************************************)
(* Put.                                                                     *)
(***************************************************************************)
LEMMA CreateTempKeeps ==
  ASSUME CacheInv, NEW p \in Putters, NEW k \in Keys, CreateTemp(p, k)
  PROVE  CacheInv'
  <1>1. /\ TypeOK /\ LeftoversAreExplained /\ NamedAreWhole /\ PutsInOrder
        /\ made \in Nat /\ MaxFiles \in Nat /\ Blocks \in Nat \ {0}
    BY Parts
  <1>2. /\ put[p].at = "idle" /\ made < MaxFiles /\ made' = made + 1
        /\ file' = [file EXCEPT ![made + 1].of = k]
        /\ temps' = temps \cup {made + 1}
        /\ put' = [put EXCEPT ![p] = [at |-> "write", key |-> k, file |-> made + 1]]
        /\ UNCHANGED <<name, older, get, answer, killed, lastLoss>>
    BY DEF CreateTemp
  <1>3. made + 1 \in Files /\ file[made + 1] = [of |-> Miss, written |-> 0, synced |-> 0]
    BY <1>1, <1>2 DEF PutsInOrder, Files
  <1>4. /\ file'[made + 1] = [of |-> k, written |-> 0, synced |-> 0]
        /\ \A f \in Files \ {made + 1} : file'[f] = file[f]
        /\ DOMAIN file' = Files
    BY <1>1, <1>2, <1>3 DEF TypeOK
  <1>5. 1..made \subseteq Files \ {made + 1} /\ 0..made \subseteq 0..made'
    BY <1>1, <1>2 DEF Files
  <1>6. TypeOK'
    <2>1. file' \in [Files -> [of : Keys \cup {Miss}, written : 0..Blocks, synced : 0..Blocks]]
      <3>1. file'[made + 1] \in [of : Keys \cup {Miss}, written : 0..Blocks, synced : 0..Blocks]
        BY <1>1, <1>4
      <3> QED
        BY <1>1, <1>2, <3>1 DEF TypeOK
    <2>2. put' \in [Putters -> [at : {"idle", "write", "sync", "close", "rename", "cleanup"},
                                key : Keys \cup {Miss}, file : 0..made']]
      BY <1>1, <1>2, <1>5 DEF TypeOK
    <2>3. name' \in [Keys -> 0..made'] /\ older' \in [Keys -> SUBSET (0..made')]
          /\ get' \in [Getters -> [key : Keys \cup {Miss}, file : 0..made']]
      BY <1>1, <1>2, <1>5 DEF TypeOK
    <2>4. made' \in 0..MaxFiles /\ temps' \subseteq 1..made' /\ killed' \subseteq 1..made'
          /\ lastLoss' \in 0..made'
      BY <1>1, <1>2 DEF TypeOK
    <2> QED
      BY <2>1, <2>2, <2>3, <2>4 DEF TypeOK
  <1>7. put'[p].file = made + 1 /\ \A q \in Putters \ {p} : put'[q] = put[q]
    BY <1>1, <1>2 DEF TypeOK
  <1>8. LeftoversAreExplained'
    <2>1. put[p].file = 0
      <3>1. put[p] = Idle
        BY <1>1, <1>2 DEF PutsInOrder
      <3> QED
        BY <3>1 DEF Idle
    <2>2. temps \subseteq 1..made
      BY <1>1 DEF TypeOK
    <2> QED
      BY <1>1, <1>2, <1>7, <2>1, <2>2 DEF LeftoversAreExplained
  <1>9. NamedAreWhole'
    BY <1>2, <1>4, <1>5, WholeStaysNamed DEF WholeFor, Whole
  <1>10. PutsInOrder'
    <2>1. ASSUME NEW q \in Putters \ {p}
          PROVE  put'[q] = Idle \/ (put'[q].at # "idle" /\ Progress(q)')
      <3>1. CASE put[q] = Idle
        BY <1>7, <3>1
      <3>2. CASE put[q] # Idle
        <4>1. put[q].at # "idle"
          BY <1>1, <3>2 DEF PutsInOrder
        <4>2. put[q].file \in 1..made /\ Progress(q)
          BY <4>1, PutFile
        <4>3. file'[put[q].file] = file[put[q].file]
          BY <1>4, <1>5, <4>2
        <4> QED
          BY <1>7, <4>1, <4>2, <4>3 DEF Progress
      <3> QED
        BY <3>1, <3>2
    <2>2. put'[p].at # "idle" /\ Progress(p)'
      BY <1>1, <1>2, <1>4 DEF Progress, TypeOK
    <2>3. \A q, r \in Putters : put'[q].file = put'[r].file /\ put'[q].file # 0 => q = r
      <3>1. \A q \in Putters \ {p} : put'[q].file \in 0..made
        BY <1>1, <1>7 DEF TypeOK
      <3> QED
        BY <1>1, <1>7, <3>1 DEF PutsInOrder
    <2>4. \A f \in Files : f > made' => file'[f] = [of |-> Miss, written |-> 0, synced |-> 0]
      BY <1>1, <1>2, <1>4 DEF PutsInOrder, Files
    <2> QED
      BY <2>1, <2>2, <2>3, <2>4 DEF PutsInOrder
  <1> QED
    BY <1>2, <1>6, <1>8, <1>9, <1>10 DEF CacheInv, FilesInv

\* A step of one Put that stays at work on its file and changes that file only.
LEMMA AdvanceKeeps ==
  ASSUME CacheInv, NEW p \in Putters, put[p].at # "idle",
         NEW next \in {"write", "sync", "close", "rename", "cleanup"}, Goto(p, next),
         UNCHANGED <<made, name, older, get, answer, killed, lastLoss>>,
         temps' \subseteq temps,
         file' \in [Files -> [of : Keys \cup {Miss}, written : 0..Blocks, synced : 0..Blocks]],
         \A f \in Files \ {put[p].file} : file'[f] = file[f],
         \A k \in Keys : WholeFor(put[p].file, k) => WholeFor(put[p].file, k)',
         Progress(p)'
  PROVE  CacheInv'
  <1>1. /\ TypeOK /\ LeftoversAreExplained /\ NamedAreWhole /\ PutsInOrder
        /\ made \in Nat /\ MaxFiles \in Nat /\ Blocks \in Nat \ {0}
    BY Parts
  <1>2. /\ put'[p].at = next /\ put'[p].key = put[p].key /\ put'[p].file = put[p].file
        /\ \A q \in Putters \ {p} : put'[q] = put[q]
        /\ put' \in [Putters -> [at : {"idle", "write", "sync", "close", "rename", "cleanup"},
                                 key : Keys \cup {Miss}, file : 0..made]]
    <2> DEFINE Puts == [at : {"idle", "write", "sync", "close", "rename", "cleanup"},
                        key : Keys \cup {Miss}, file : 0..made]
    <2>1. put \in [Putters -> Puts] /\ put' = [put EXCEPT ![p].at = next]
      BY <1>1 DEF Goto, TypeOK
    <2>2. [put[p] EXCEPT !.at = next] \in Puts
      BY <2>1
    <2>3. /\ put'[p] = [put[p] EXCEPT !.at = next] /\ put' \in [Putters -> Puts]
          /\ \A q \in Putters \ {p} : put'[q] = put[q]
      <3> HIDE DEF Puts
      <3> QED
        BY <2>1, <2>2
    <2> QED
      BY <2>1, <2>3
  <1>3. TypeOK'
    <2>1. temps' \subseteq 1..made /\ killed' \subseteq 1..made /\ lastLoss' \in 0..made
      BY <1>1 DEF TypeOK
    <2> QED
      BY <1>1, <1>2, <2>1 DEF TypeOK
  <1>4. \A q \in Putters : put'[q].file = put[q].file
    BY <1>2
  <1>5. LeftoversAreExplained'
    BY <1>1, <1>4 DEF LeftoversAreExplained
  <1>6. 1..made \subseteq Files
    BY <1>1 DEF TypeOK, Files
  <1>7. NamedAreWhole'
    <2>1. \A f \in 1..made : \A k \in Keys : WholeFor(f, k) => WholeFor(f, k)'
      <3> SUFFICES ASSUME NEW f \in 1..made, NEW k \in Keys, WholeFor(f, k)
                   PROVE  WholeFor(f, k)'
        OBVIOUS
      <3>1. CASE f = put[p].file
        BY <1>2, <3>1 DEF WholeFor
      <3>2. CASE f # put[p].file
        BY <1>6, <3>2 DEF WholeFor
      <3> QED
        BY <3>1, <3>2
    <2> QED
      BY <2>1, WholeStaysNamed
  <1>8. PutsInOrder'
    <2>1. ASSUME NEW q \in Putters \ {p}
          PROVE  put'[q] = Idle \/ (put'[q].at # "idle" /\ Progress(q)')
      <3>1. CASE put[q] = Idle
        BY <1>2, <3>1
      <3>2. CASE put[q] # Idle
        <4>1. put[q].at # "idle"
          BY <1>1, <3>2 DEF PutsInOrder
        <4>2. put[q].file \in Files \ {put[p].file} /\ Progress(q)
          BY <4>1, PutFile
        <4>3. file'[put[q].file] = file[put[q].file]
          BY <4>2
        <4> QED
          BY <1>2, <4>1, <4>2, <4>3 DEF Progress
      <3> QED
        BY <3>1, <3>2
    <2>2. put'[p].at # "idle" /\ Progress(p)'
      BY <1>2
    <2>3. \A q, r \in Putters : put'[q].file = put'[r].file /\ put'[q].file # 0 => q = r
      BY <1>1, <1>4 DEF PutsInOrder
    <2>4. \A f \in Files : f > made' => file'[f] = [of |-> Miss, written |-> 0, synced |-> 0]
      <3>1. put[p].file \in 1..made
        BY PutFile
      <3> QED
        BY <1>1, <3>1 DEF PutsInOrder
    <2> QED
      BY <2>1, <2>2, <2>3, <2>4 DEF PutsInOrder
  <1> QED
    BY <1>3, <1>5, <1>7, <1>8 DEF CacheInv, FilesInv

\* A Put ends: its file is left as it is, and forgotten.
LEMMA EndKeeps ==
  ASSUME CacheInv, NEW p \in Putters, put' = [put EXCEPT ![p] = Idle],
         UNCHANGED <<made, file, name, older, get, answer, lastLoss>>,
         temps' \subseteq temps, killed' \subseteq killed \cup {put[p].file},
         killed \subseteq killed', put[p].at # "idle",
         put[p].file \in temps' => put[p].file \in killed'
  PROVE  CacheInv'
  <1>1. /\ TypeOK /\ LeftoversAreExplained /\ NamedAreWhole /\ PutsInOrder
        /\ made \in Nat /\ MaxFiles \in Nat /\ Blocks \in Nat \ {0}
    BY Parts
  <1>2. put[p].file \in 1..made
    BY PutFile
  <1>3. put'[p] = Idle /\ \A q \in Putters \ {p} : put'[q] = put[q]
    BY <1>1 DEF TypeOK
  <1>4. TypeOK'
    <2>1. Idle \in [at : {"idle", "write", "sync", "close", "rename", "cleanup"},
                    key : Keys \cup {Miss}, file : 0..made]
      BY <1>1 DEF Idle
    <2>2. put' \in [Putters -> [at : {"idle", "write", "sync", "close", "rename", "cleanup"},
                                key : Keys \cup {Miss}, file : 0..made]]
      BY <1>1, <2>1 DEF TypeOK
    <2>3. temps' \subseteq 1..made /\ killed' \subseteq 1..made /\ lastLoss' \in 0..made
      BY <1>1, <1>2 DEF TypeOK
    <2> QED
      BY <1>1, <2>2, <2>3 DEF TypeOK
  <1>5. LeftoversAreExplained'
    <2> SUFFICES ASSUME NEW t \in temps', t \notin killed', t \notin 1..lastLoss
                 PROVE  \E q \in Putters : t = put'[q].file
      BY DEF LeftoversAreExplained
    <2>1. PICK q \in Putters : t = put[q].file
      BY <1>1 DEF LeftoversAreExplained
    <2>2. q # p
      BY <2>1
    <2> QED
      BY <1>3, <2>1, <2>2
  <1>6. NamedAreWhole'
    BY SameFiles, WholeStaysNamed
  <1>7. PutsInOrder'
    <2>1. \A q \in Putters : put'[q] = Idle \/ (put'[q].at # "idle" /\ Progress(q)')
      BY <1>1, <1>3 DEF PutsInOrder, Progress
    <2>2. \A q, r \in Putters : put'[q].file = put'[r].file /\ put'[q].file # 0 => q = r
      BY <1>1, <1>3 DEF PutsInOrder, Idle
    <2> QED
      BY <1>1, <2>1, <2>2 DEF PutsInOrder
  <1> QED
    BY <1>4, <1>5, <1>6, <1>7 DEF CacheInv, FilesInv

LEMMA WriteKeeps ==
  ASSUME CacheInv, NEW p \in Putters, Write(p)
  PROVE  CacheInv'
  <1> DEFINE f == put[p].file
             next == IF file[f].written + 1 = Blocks THEN "sync" ELSE "write"
  <1>1. TypeOK /\ Blocks \in Nat \ {0}
    BY Parts
  <1>2. /\ put[p].at = "write" /\ file' = [file EXCEPT ![f].written = @ + 1] /\ Goto(p, next)
        /\ UNCHANGED <<made, name, older, temps, get, answer, killed, lastLoss>>
    BY DEF Write
  <1>3. f \in Files /\ Progress(p) /\ put[p].key \in Keys
    BY <1>2, PutFile
  <1>4. /\ file[f].of = put[p].key /\ file[f].written \in 0..Blocks
        /\ file[f].written + 1 \in 0..Blocks /\ file[f].synced \in 0..Blocks
        /\ file[f].written < Blocks /\ file[f].of \in Keys
    BY <1>1, <1>2, <1>3 DEF Progress, TypeOK
  <1>5. file'[f] = [of |-> put[p].key, written |-> file[f].written + 1, synced |-> file[f].synced]
    BY <1>1, <1>2, <1>3, <1>4 DEF TypeOK
  <1>6. file' \in [Files -> [of : Keys \cup {Miss}, written : 0..Blocks, synced : 0..Blocks]]
    <2>1. file'[f] \in [of : Keys \cup {Miss}, written : 0..Blocks, synced : 0..Blocks]
      BY <1>3, <1>4, <1>5
    <2> QED
      BY <1>1, <1>2, <2>1 DEF TypeOK
  <1>7. \A g \in Files \ {f} : file'[g] = file[g]
    BY <1>1, <1>2 DEF TypeOK
  <1>8. \A k \in Keys : ~WholeFor(f, k)
    BY <1>1, <1>4 DEF WholeFor, Whole
  <1>9. put'[p].at = next /\ put'[p].key = put[p].key /\ put'[p].file = f
    BY <1>1, <1>2 DEF Goto, TypeOK
  <1>10. next \in {"write", "sync", "close", "rename", "cleanup"}
    OBVIOUS
  <1>11. /\ next = "sync" => file[f].written + 1 = Blocks
         /\ next = "write" => file[f].written + 1 < Blocks
         /\ next \in {"sync", "write"}
    BY <1>1, <1>4
  <1>12. Progress(p)'
    <2>1. f # 0
      BY <1>3 DEF Progress
    <2> HIDE DEF f, next
    <2>2. /\ put'[p].key \in Keys /\ put'[p].file # 0 /\ file'[put'[p].file].of = put'[p].key
          /\ file'[put'[p].file].written = file[f].written + 1
      BY <1>3, <1>5, <1>9, <2>1
    <2> QED
      BY <1>9, <1>11, <2>2 DEF Progress
  <1> HIDE DEF f, next
  <1>13. put[p].at # "idle" /\ temps' \subseteq temps
    BY <1>2
  <1>14. \A k \in Keys : WholeFor(put[p].file, k) => WholeFor(put[p].file, k)'
    BY <1>8 DEF f
  <1>15. \A g \in Files \ {put[p].file} : file'[g] = file[g]
    BY <1>7 DEF f
  <1> QED
    BY <1>2, <1>6, <1>10, <1>12, <1>13, <1>14, <1>15, AdvanceKeeps

LEMMA SyncKeeps ==
  ASSUME CacheInv, NEW p \in Putters, Sync(p)
  PROVE  CacheInv'
  <1> DEFINE f == put[p].file
  <1>1. TypeOK /\ Blocks \in Nat \ {0}
    BY Parts
  <1>2. /\ put[p].at = "sync" /\ file' = [file EXCEPT ![f].synced = file[f].written]
        /\ Goto(p, "close")
        /\ UNCHANGED <<made, name, older, temps, get, answer, killed, lastLoss>>
    BY DEF Sync
  <1>3. f \in Files /\ Progress(p) /\ put[p].key \in Keys
    BY <1>2, PutFile
  <1>4. file[f].of = put[p].key /\ file[f].written = Blocks
    BY <1>2, <1>3 DEF Progress
  <1>5. file'[f] = Whole(put[p].key)
    BY <1>1, <1>2, <1>3, <1>4 DEF TypeOK, Whole
  <1>6. file' \in [Files -> [of : Keys \cup {Miss}, written : 0..Blocks, synced : 0..Blocks]]
    <2>1. file'[f] \in [of : Keys \cup {Miss}, written : 0..Blocks, synced : 0..Blocks]
      BY <1>1, <1>3, <1>5 DEF Whole
    <2> QED
      BY <1>1, <1>2, <2>1 DEF TypeOK
  <1>7. \A g \in Files \ {f} : file'[g] = file[g]
    BY <1>1, <1>2 DEF TypeOK
  <1>8. put'[p].at = "close" /\ put'[p].key = put[p].key /\ put'[p].file = f
    BY <1>1, <1>2 DEF Goto, TypeOK
  <1>9. \A k \in Keys : WholeFor(f, k) => WholeFor(f, k)'
    BY <1>4, <1>5, <1>8 DEF WholeFor, Whole
  <1>10. Progress(p)'
    BY <1>3, <1>4, <1>5, <1>8 DEF Progress, Whole
  <1>11. put[p].at # "idle" /\ temps' \subseteq temps
    BY <1>2
  <1> QED
    BY <1>2, <1>6, <1>7, <1>9, <1>10, <1>11, AdvanceKeeps, Zenon

LEMMA CloseKeeps ==
  ASSUME CacheInv, NEW p \in Putters, Close(p) \/ Fails(p)
  PROVE  CacheInv'
  <1>1. TypeOK
    BY Parts
  <1>2. /\ put[p].at \in {"write", "sync", "close", "rename"} /\ file' = file
        /\ UNCHANGED <<made, name, older, temps, get, answer, killed, lastLoss>>
        /\ \/ put[p].at = "close" /\ Goto(p, "rename")
           \/ Goto(p, "cleanup")
    BY DEF Close, Fails
  <1>3. Progress(p)
    BY <1>2, PutFile
  <1>4. PICK next \in {"rename", "cleanup"} :
          Goto(p, next) /\ (next = "rename" => put[p].at = "close")
    BY <1>2
  <1>5. put'[p].at = next /\ put'[p].key = put[p].key /\ put'[p].file = put[p].file
    BY <1>1, <1>4 DEF Goto, TypeOK
  <1>6. Progress(p)'
    BY <1>2, <1>3, <1>4, <1>5 DEF Progress
  <1>7. \A k \in Keys : WholeFor(put[p].file, k) => WholeFor(put[p].file, k)'
    BY <1>2, <1>5 DEF WholeFor, Whole
  <1> QED
    BY <1>1, <1>2, <1>4, <1>6, <1>7, AdvanceKeeps DEF TypeOK

\* The file that gets the name is whole.
LEMMA RenameNames ==
  ASSUME CacheInv, NEW p \in Putters, Rename(p)
  PROVE  /\ put[p].key \in Keys /\ put[p].file \in 1..made
         /\ WholeFor(put[p].file, put[p].key)
  <1>1. put[p].at = "rename"
    BY DEF Rename
  <1>2. /\ put[p].file \in 1..made /\ put[p].file \in Files /\ put[p].key \in Keys
        /\ Progress(p)
    BY <1>1, PutFile
  <1>3. /\ file[put[p].file].of = put[p].key /\ file[put[p].file].written = Blocks
        /\ file[put[p].file].synced = Blocks
    BY <1>1, <1>2 DEF Progress
  <1>4. file[put[p].file] \in [of : Keys \cup {Miss}, written : 0..Blocks, synced : 0..Blocks]
    BY <1>2, Parts DEF TypeOK
  <1> QED
    BY <1>2, <1>3, <1>4 DEF WholeFor, Whole

LEMMA RenameKeeps ==
  ASSUME CacheInv, NEW p \in Putters, Rename(p)
  PROVE  CacheInv'
  <1> DEFINE k == put[p].key
             f == put[p].file
  <1>1. /\ TypeOK /\ LeftoversAreExplained /\ NamedAreWhole /\ PutsInOrder
        /\ made \in Nat
    BY Parts
  <1>2. /\ put[p].at = "rename"
        /\ name' = [name EXCEPT ![k] = f]
        /\ older' = [older EXCEPT ![k] = @ \cup {name[k]}]
        /\ temps' = temps \ {f}
        /\ put' = [put EXCEPT ![p].at = "cleanup"]
        /\ UNCHANGED <<made, file, get, answer, killed, lastLoss>>
    BY DEF Rename, Goto
  <1>3. k \in Keys /\ f \in 1..made /\ WholeFor(f, k) /\ Progress(p)
    BY <1>2, RenameNames, PutFile
  <1>4. /\ put'[p].at = "cleanup" /\ put'[p].key = k /\ put'[p].file = f
        /\ \A q \in Putters \ {p} : put'[q] = put[q]
    BY <1>1, <1>2 DEF TypeOK
  <1>5. /\ name'[k] = f /\ older'[k] = older[k] \cup {name[k]}
        /\ \A l \in Keys \ {k} : name'[l] = name[l] /\ older'[l] = older[l]
    BY <1>1, <1>2, <1>3 DEF TypeOK
  <1>6. TypeOK'
    <2>1. name' \in [Keys -> 0..made] /\ older' \in [Keys -> SUBSET (0..made)]
      BY <1>1, <1>2, <1>3 DEF TypeOK
    <2>2. put' \in [Putters -> [at : {"idle", "write", "sync", "close", "rename", "cleanup"},
                                key : Keys \cup {Miss}, file : 0..made]]
      BY <1>1, <1>2 DEF TypeOK
    <2> QED
      BY <1>1, <1>2, <2>1, <2>2 DEF TypeOK
  <1>7. LeftoversAreExplained'
    BY <1>1, <1>2, <1>4 DEF LeftoversAreExplained
  <1>8. NamedAreWhole'
    <2>1. ASSUME NEW l \in Keys, NEW h \in older'[l] \cup {name'[l]}
          PROVE  h = 0 \/ file[h] = Whole(l)
      BY <1>1, <1>3, <1>5, <2>1 DEF NamedAreWhole, WholeFor
    <2>2. \A l \in Keys : name'[l] = 0 => older'[l] = {}
      BY <1>1, <1>3, <1>5 DEF NamedAreWhole
    <2>3. \A g \in Getters : get[g] # Shut =>
            get[g].key \in Keys /\ get[g].file # 0 /\ file[get[g].file] = Whole(get[g].key)
      BY <1>1 DEF NamedAreWhole, WholeFor
    <2> QED
      BY <1>2, <2>1, <2>2, <2>3 DEF NamedAreWhole, WholeFor, Whole
  <1>9. PutsInOrder'
    <2>1. \A q \in Putters \ {p} : put'[q] = Idle \/ (put'[q].at # "idle" /\ Progress(q)')
      BY <1>1, <1>2, <1>4 DEF PutsInOrder, Progress
    <2>2. put'[p].at # "idle" /\ Progress(p)'
      BY <1>2, <1>3, <1>4 DEF Progress
    <2>3. \A q, r \in Putters : put'[q].file = put'[r].file /\ put'[q].file # 0 => q = r
      BY <1>1, <1>4 DEF PutsInOrder
    <2> QED
      BY <1>1, <1>2, <2>1, <2>2, <2>3 DEF PutsInOrder
  <1> QED
    BY <1>2, <1>6, <1>7, <1>8, <1>9 DEF CacheInv, FilesInv

LEMMA EndsKeep ==
  ASSUME CacheInv, NEW p \in Putters, RemoveTemp(p) \/ Kill(p)
  PROVE  CacheInv'
  BY EndKeeps DEF RemoveTemp, Kill

(***************************************************************************)
(* Get.                                                                     *)
(***************************************************************************)

\* A Get looks at the cache and changes nothing in it.
LEMMA GetKeeps ==
  ASSUME CacheInv, NEW g \in Getters, UNCHANGED <<made, file, name, older, temps, put, killed, lastLoss>>,
         NEW o, get' = [get EXCEPT ![g] = o],
         o = Shut \/ /\ o \in [key : Keys, file : 1..made]
                     /\ WholeFor(o.file, o.key),
         NEW a \in {NoAnswer} \cup Keys \X (Keys \cup {Miss}),
         answer' = [answer EXCEPT ![g] = a]
  PROVE  CacheInv'
  <1>1. /\ TypeOK /\ LeftoversAreExplained /\ NamedAreWhole /\ PutsInOrder
        /\ made \in Nat
    BY Parts
  <1>2. get'[g] = o /\ \A h \in Getters \ {g} : get'[h] = get[h]
    BY <1>1 DEF TypeOK
  <1>3. TypeOK'
    <2>1. o \in [key : Keys \cup {Miss}, file : 0..made]
      BY <1>1 DEF Shut
    <2> QED
      BY <1>1, <2>1 DEF TypeOK
  <1>4. LeftoversAreExplained' /\ PutsInOrder'
    BY <1>1 DEF LeftoversAreExplained, PutsInOrder, Progress
  <1>5. NamedAreWhole'
    <2>1. ASSUME NEW h \in Getters, get'[h] # Shut
          PROVE  get'[h].key \in Keys /\ get'[h].file # 0 /\ file[get'[h].file] = Whole(get'[h].key)
      BY <1>1, <1>2, <2>1 DEF NamedAreWhole, WholeFor
    <2> QED
      BY <1>1, <2>1 DEF NamedAreWhole, WholeFor, Whole
  <1>6. answer' \in [Getters -> {NoAnswer} \cup Keys \X (Keys \cup {Miss})]
    BY DEF CacheInv
  <1> QED
    BY <1>3, <1>4, <1>5, <1>6 DEF CacheInv, FilesInv

LEMMA GetStepKeeps ==
  ASSUME CacheInv, NEW g \in Getters, NEW k \in Keys,
         GetMisses(g, k) \/ GetOpens(g, k) \/ GetReads(g)
  PROVE  CacheInv'
  <1>1. TypeOK /\ NamedAreWhole /\ made \in Nat
    BY Parts
  <1>2. answer \in [Getters -> {NoAnswer} \cup Keys \X (Keys \cup {Miss})]
    BY DEF CacheInv
  <1>3. CASE GetMisses(g, k)
    <2>1. get' = [get EXCEPT ![g] = Shut] /\ answer' = [answer EXCEPT ![g] = <<k, Miss>>]
      BY <1>1, <1>3 DEF GetMisses, TypeOK
    <2> QED
      BY <1>3, <2>1, GetKeeps DEF GetMisses
  <1>4. CASE GetOpens(g, k)
    <2> DEFINE o == [key |-> k, file |-> name[k]]
    <2>1. name[k] \in 1..made /\ WholeFor(name[k], k)
      BY <1>1, <1>4 DEF GetOpens, TypeOK, NamedAreWhole
    <2>2. o \in [key : Keys, file : 1..made] /\ WholeFor(o.file, o.key)
      BY <2>1
    <2>3. get' = [get EXCEPT ![g] = o] /\ answer' = [answer EXCEPT ![g] = answer[g]]
      BY <1>2, <1>4 DEF GetOpens
    <2>4. answer[g] \in {NoAnswer} \cup Keys \X (Keys \cup {Miss})
      BY <1>2
    <2> QED
      BY <1>4, <2>2, <2>3, <2>4, GetKeeps DEF GetOpens
  <1>5. CASE GetReads(g)
    <2>1. get[g].key \in Keys /\ Contents(get[g].file) \in Keys
      BY <1>1, <1>5, WholeContents DEF GetReads, NamedAreWhole
    <2>2. <<get[g].key, Contents(get[g].file)>> \in {NoAnswer} \cup Keys \X (Keys \cup {Miss})
      BY <2>1
    <2> QED
      BY <1>5, <2>2, GetKeeps DEF GetReads
  <1> QED
    BY <1>3, <1>4, <1>5

(***************************************************************************)
(* Power loss.                                                              *)
(***************************************************************************)

\* What was synced is still there, and names lead where they led before.
LEMMA PowerLossFacts ==
  ASSUME CacheInv, PowerLoss
  PROVE  /\ \A f \in Files : \A k \in Keys : WholeFor(f, k) => file'[f] = Whole(k)
         /\ \A k \in Keys : name'[k] \in older[k] \cup {name[k]}
         /\ name' \in [Keys -> 0..MaxFiles]
         /\ file' \in [Files -> [of : Keys \cup {Miss}, written : 0..Blocks, synced : 0..Blocks]]
         /\ \A f \in Files : f > made => file'[f] = file[f]
  <1>1. TypeOK /\ PutsInOrder
    BY Parts
  <1>2. PICK torn \in SUBSET {f \in 1..made : file[f].synced # file[f].written} :
          file' = [f \in Files |-> IF f \in torn THEN [file[f] EXCEPT !.written = file[f].synced]
                                   ELSE file[f]]
    BY DEF PowerLoss
  <1>3. \A f \in Files : \A k \in Keys : WholeFor(f, k) => file'[f] = Whole(k)
    BY <1>2 DEF WholeFor, Whole
  <1>4. file' \in [Files -> [of : Keys \cup {Miss}, written : 0..Blocks, synced : 0..Blocks]]
    BY <1>1, <1>2 DEF TypeOK
  <1>5. \A f \in Files : f > made => file'[f] = file[f]
    <2> SUFFICES ASSUME NEW f \in Files, f > made PROVE f \notin torn
      BY <1>2
    <2> QED
      BY <1>1, <1>2, Parts DEF Files
  <1>6. name' \in [Keys -> 0..MaxFiles] /\ \A k \in Keys : name'[k] \in older[k] \cup {name[k]}
    BY DEF PowerLoss
  <1> QED
    BY <1>3, <1>4, <1>5, <1>6

LEMMA PowerLossKeeps == CacheInv /\ PowerLoss => CacheInv'
  <1> SUFFICES ASSUME CacheInv, PowerLoss PROVE CacheInv'
    OBVIOUS
  <1>1. /\ TypeOK /\ LeftoversAreExplained /\ NamedAreWhole /\ PutsInOrder
        /\ made \in Nat /\ MaxFiles \in Nat
    BY Parts
  <1>2. /\ killed' = {} /\ lastLoss' = made /\ temps' \subseteq 1..made
        /\ put' = [p \in Putters |-> Idle] /\ get' = [g \in Getters |-> Shut]
        /\ answer' = [g \in Getters |-> NoAnswer] /\ older' = [k \in Keys |-> {}]
        /\ UNCHANGED made
    BY DEF PowerLoss
  <1>3. \A k \in Keys : name'[k] \in 0..made
    BY <1>1, PowerLossFacts DEF TypeOK
  <1>4. TypeOK'
    <2>1. killed' \subseteq 1..made /\ lastLoss' \in 0..made
      BY <1>1, <1>2
    <2>2. name' \in [Keys -> 0..made]
      BY <1>3, PowerLossFacts
    <2>3. put' \in [Putters -> [at : {"idle", "write", "sync", "close", "rename", "cleanup"},
                                key : Keys \cup {Miss}, file : 0..made]]
      BY <1>1, <1>2 DEF Idle
    <2>4. get' \in [Getters -> [key : Keys \cup {Miss}, file : 0..made]]
      BY <1>1, <1>2 DEF Shut
    <2> QED
      BY <1>1, <1>2, <2>1, <2>2, <2>3, <2>4, PowerLossFacts DEF TypeOK
  <1>5. LeftoversAreExplained'
    BY <1>2 DEF LeftoversAreExplained
  <1>6. NamedAreWhole'
    <2>1. ASSUME NEW k \in Keys, name'[k] # 0
          PROVE  file'[name'[k]] = Whole(k)
      <3>1. WholeFor(name'[k], k)
        BY <1>1, <2>1, PowerLossFacts DEF NamedAreWhole
      <3>2. name'[k] \in Files
        BY <2>1, PowerLossFacts, <1>1 DEF Files
      <3> QED
        BY <3>1, <3>2, PowerLossFacts
    <2> QED
      BY <1>2, <2>1 DEF NamedAreWhole, WholeFor, Whole
  <1>7. PutsInOrder'
    BY <1>1, <1>2, PowerLossFacts DEF PutsInOrder, Idle
  <1>8. answer' \in [Getters -> {NoAnswer} \cup Keys \X (Keys \cup {Miss})]
    BY <1>2
  <1> QED
    BY <1>4, <1>5, <1>6, <1>7, <1>8 DEF CacheInv, FilesInv

(***************************************************************************)
(* The inductive invariant.                                                *)
(***************************************************************************)
LEMMA InitCacheInv == Init => CacheInv
  <1> SUFFICES ASSUME Init PROVE CacheInv
    OBVIOUS
  <1>1. TypeOK
    BY SizesAssumption DEF Init, TypeOK, Files, Idle, Shut
  <1>2. LeftoversAreExplained
    BY DEF Init, LeftoversAreExplained
  <1>3. NamedAreWhole /\ PutsInOrder
    BY DEF Init, NamedAreWhole, PutsInOrder, Idle
  <1> QED
    BY <1>1, <1>2, <1>3 DEF Init, CacheInv, FilesInv

LEMMA StepCacheInv == CacheInv /\ [Next]_vars => CacheInv'
  <1> SUFFICES ASSUME CacheInv, [Next]_vars PROVE CacheInv'
    OBVIOUS
  <1>1. ASSUME NEW p \in Putters, NEW k \in Keys, CreateTemp(p, k)
        PROVE  CacheInv'
    BY <1>1, CreateTempKeeps
  <1>2. ASSUME NEW p \in Putters,
               Write(p) \/ Sync(p) \/ Close(p) \/ Rename(p) \/ Fails(p) \/ RemoveTemp(p) \/ Kill(p)
        PROVE  CacheInv'
    BY <1>2, WriteKeeps, SyncKeeps, CloseKeeps, RenameKeeps, EndsKeep
  <1>3. ASSUME NEW g \in Getters, NEW k \in Keys, GetMisses(g, k) \/ GetOpens(g, k)
        PROVE  CacheInv'
    BY <1>3, GetStepKeeps
  <1>4. ASSUME NEW g \in Getters, GetReads(g)
        PROVE  CacheInv'
    <2>1. get[g].key \in Keys
      BY <1>4, Parts DEF GetReads, NamedAreWhole
    <2> QED
      BY <1>4, <2>1, GetStepKeeps
  <1>5. CASE PowerLoss
    BY <1>5, PowerLossKeeps
  <1>6. CASE UNCHANGED vars
    <2>1. /\ TypeOK /\ LeftoversAreExplained /\ NamedAreWhole /\ PutsInOrder
      BY Parts
    <2> QED
      BY <1>6, <2>1
         DEF vars, CacheInv, FilesInv, TypeOK, LeftoversAreExplained, NamedAreWhole, PutsInOrder,
             Progress, WholeFor, Whole
  <1> QED
    BY <1>1, <1>2, <1>3, <1>4, <1>5, <1>6 DEF Next

(***************************************************************************)
(* The cache implements the store.                                          *)
(***************************************************************************)

\* An answer on its way is what it will be when it is given.
LEMMA SameAnswers ==
  ASSUME CacheInv, UNCHANGED <<name, get, answer>>,
         \A f \in 1..made : \A k \in Keys : WholeFor(f, k) => file'[f] = Whole(k)
  PROVE  UNCHANGED Store!vars
  <1>1. TypeOK /\ NamedAreWhole /\ made \in Nat
    BY Parts
  <1>2. ASSUME NEW g \in Getters, get[g] # Shut
        PROVE  Contents(get[g].file)' = Contents(get[g].file)
    <2>1. /\ get[g].key \in Keys /\ get[g].file \in 1..made
          /\ WholeFor(get[g].file, get[g].key)
      BY <1>1, <1>2 DEF NamedAreWhole, TypeOK
    <2>2. file'[get[g].file] = file[get[g].file]
      BY <2>1 DEF WholeFor
    <2> QED
      BY <2>2 DEF Contents
  <1>3. answerBar' = answerBar
    BY <1>2 DEF answerBar
  <1>4. storedBar' = storedBar
    BY DEF storedBar
  <1> QED
    BY <1>3, <1>4 DEF Store!vars

\* The steps of a Put before its rename, and after it, are nothing to a reader.
LEMMA PutStutters ==
  ASSUME CacheInv, NEW p \in Putters, NEW k \in Keys,
         \/ CreateTemp(p, k) \/ Write(p) \/ Sync(p) \/ Close(p) \/ Fails(p) \/ RemoveTemp(p)
         \/ Kill(p)
  PROVE  UNCHANGED Store!vars
  <1>1. TypeOK /\ PutsInOrder /\ made \in Nat /\ MaxFiles \in Nat /\ Blocks \in Nat \ {0}
    BY Parts
  <1>2. 1..made \subseteq Files
    BY <1>1 DEF TypeOK, Files
  <1>3. UNCHANGED <<name, get, answer>>
    BY DEF CreateTemp, Write, Sync, Close, Fails, RemoveTemp, Kill
  <1>4. ASSUME NEW f \in 1..made, NEW l \in Keys, WholeFor(f, l)
        PROVE  file'[f] = Whole(l)
    <2>1. CASE CreateTemp(p, k)
      BY <1>1, <1>2, <1>4, <2>1 DEF CreateTemp, TypeOK, WholeFor
    <2>2. CASE Write(p)
      <3>1. put[p].file # f
        <4>1. put[p].at = "write"
          BY <2>2 DEF Write
        <4>2. file[put[p].file].written < Blocks
          BY <4>1, PutFile DEF Progress
        <4> QED
          BY <1>1, <1>4, <4>2 DEF WholeFor, Whole
      <3> QED
        BY <1>1, <1>2, <1>4, <2>2, <3>1 DEF Write, TypeOK, WholeFor
    <2>3. CASE Sync(p)
      BY <1>1, <1>2, <1>4, <2>3 DEF Sync, TypeOK, WholeFor, Whole
    <2>4. CASE Close(p) \/ Fails(p) \/ RemoveTemp(p) \/ Kill(p)
      BY <1>4, <2>4 DEF Close, Fails, RemoveTemp, Kill, WholeFor
    <2> QED
      BY <2>1, <2>2, <2>3, <2>4
  <1> QED
    BY <1>3, <1>4, SameAnswers

LEMMA RenameStores ==
  ASSUME CacheInv, NEW p \in Putters, Rename(p)
  PROVE  Store!Next
  <1> DEFINE k == put[p].key
  <1>1. TypeOK /\ made \in Nat /\ k \in Keys /\ put[p].file \in 1..made
    BY Parts, RenameNames
  <1>2. name' = [name EXCEPT ![k] = put[p].file] /\ UNCHANGED <<file, get, answer>>
    BY DEF Rename
  <1>3. storedBar' = storedBar \cup {k}
    BY <1>1, <1>2 DEF storedBar, TypeOK
  <1>4. answerBar' = answerBar
    BY <1>2 DEF answerBar, Contents
  <1> QED
    BY <1>1, <1>3, <1>4 DEF Store!Next, Store!Store

\* A Get answers when it looks up the path, whether or not it has read the bytes.
LEMMA GetAnswers ==
  ASSUME CacheInv, NEW g \in Getters, NEW k \in Keys, GetMisses(g, k) \/ GetOpens(g, k)
  PROVE  Store!Next
  <1>1. TypeOK /\ NamedAreWhole /\ made \in Nat
    BY Parts
  <1>2. answer \in [Getters -> {NoAnswer} \cup Keys \X (Keys \cup {Miss})]
    BY DEF CacheInv
  <1>3. get[g] = Shut /\ UNCHANGED <<file, name>>
    BY DEF GetMisses, GetOpens
  <1>4. storedBar' = storedBar
    BY <1>3 DEF storedBar
  <1>5. /\ \A h \in Getters \ {g} : get'[h] = get[h] /\ answer'[h] = answer[h]
        /\ DOMAIN answerBar = Getters /\ DOMAIN answerBar' = Getters
    BY <1>1, <1>2 DEF GetMisses, GetOpens, TypeOK, answerBar
  <1>6. \A h \in Getters \ {g} : answerBar'[h] = answerBar[h]
    BY <1>3, <1>5 DEF answerBar, Contents
  <1>7. answerBar'[g] = <<k, IF k \in storedBar THEN k ELSE Miss>>
    <2>1. CASE GetMisses(g, k)
      BY <1>2, <1>3, <2>1 DEF GetMisses, answerBar, storedBar
    <2>2. CASE GetOpens(g, k)
      <3>1. get'[g] = [key |-> k, file |-> name[k]] /\ name[k] # 0
        BY <1>1, <2>2 DEF GetOpens, TypeOK
      <3>2. get'[g] # Shut
        BY <3>1 DEF Shut
      <3>3. Contents(name[k]) = k
        BY <1>1, <3>1, WholeContents DEF NamedAreWhole
      <3>4. answerBar'[g] = <<get'[g].key, Contents(get[g].file)'>>
        BY <3>2 DEF answerBar
      <3>5. Contents(get[g].file)' = Contents(name[k])
        BY <1>3, <3>1 DEF Contents
      <3> QED
        BY <3>1, <3>3, <3>4, <3>5 DEF storedBar
    <2> QED
      BY <2>1, <2>2
  <1>8. answerBar' = [answerBar EXCEPT ![g] = <<k, IF k \in storedBar THEN k ELSE Miss>>]
    BY <1>5, <1>6, <1>7 DEF answerBar
  <1> QED
    BY <1>4, <1>8 DEF Store!Next, Store!Answer

LEMMA GetReadsStutters ==
  ASSUME CacheInv, NEW g \in Getters, GetReads(g)
  PROVE  UNCHANGED Store!vars
  <1>1. TypeOK /\ answer \in [Getters -> {NoAnswer} \cup Keys \X (Keys \cup {Miss})]
    BY Parts DEF CacheInv
  <1>2. /\ get[g] # Shut /\ get'[g] = Shut
        /\ answer'[g] = <<get[g].key, Contents(get[g].file)>>
        /\ \A h \in Getters \ {g} : get'[h] = get[h] /\ answer'[h] = answer[h]
        /\ UNCHANGED <<file, name>>
    BY <1>1 DEF GetReads, TypeOK
  <1>3. \A h \in Getters : answerBar'[h] = answerBar[h]
    BY <1>2 DEF answerBar, Contents
  <1>4. answerBar' = answerBar
    BY <1>3 DEF answerBar
  <1>5. storedBar' = storedBar
    BY <1>2 DEF storedBar
  <1> QED
    BY <1>4, <1>5 DEF Store!vars

LEMMA PowerLossForgets ==
  ASSUME CacheInv, PowerLoss
  PROVE  Store!Next
  <1>1. NamedAreWhole
    BY Parts
  <1>2. storedBar' \subseteq storedBar
    BY <1>1, PowerLossFacts DEF storedBar, NamedAreWhole
  <1>3. answerBar' = [g \in Getters |-> NoAnswer]
    BY DEF PowerLoss, answerBar
  <1> QED
    BY <1>2, <1>3 DEF Store!Next, Store!PowerLoss

LEMMA StoreStep == CacheInv /\ [Next]_vars => [Store!Next]_(Store!vars)
  <1> SUFFICES ASSUME CacheInv, [Next]_vars
               PROVE  Store!Next \/ UNCHANGED Store!vars
    OBVIOUS
  <1>1. ASSUME NEW p \in Putters, NEW k \in Keys, CreateTemp(p, k)
        PROVE  UNCHANGED Store!vars
    BY <1>1, PutStutters
  <1>2. ASSUME NEW p \in Putters, Write(p) \/ Sync(p) \/ Close(p) \/ Fails(p) \/ RemoveTemp(p) \/ Kill(p)
        PROVE  UNCHANGED Store!vars
    <2>1. put[p].at # "idle"
      BY <1>2 DEF Write, Sync, Close, Fails, RemoveTemp, Kill
    <2>2. put[p].key \in Keys
      BY <2>1, PutFile
    <2> QED
      BY <1>2, <2>2, PutStutters
  <1>3. ASSUME NEW p \in Putters, Rename(p)
        PROVE  Store!Next
    BY <1>3, RenameStores
  <1>4. ASSUME NEW g \in Getters, NEW k \in Keys, GetMisses(g, k) \/ GetOpens(g, k)
        PROVE  Store!Next
    BY <1>4, GetAnswers
  <1>5. ASSUME NEW g \in Getters, GetReads(g)
        PROVE  UNCHANGED Store!vars
    BY <1>5, GetReadsStutters
  <1>6. CASE UNCHANGED vars
    <2>1. answerBar' = answerBar /\ storedBar' = storedBar
      BY <1>6 DEF vars, answerBar, storedBar, Contents
    <2> QED
      BY <2>1 DEF Store!vars
  <1>7. CASE PowerLoss
    BY <1>7, PowerLossForgets
  <1> QED
    BY <1>1, <1>2, <1>3, <1>4, <1>5, <1>6, <1>7 DEF Next

LEMMA StoreInit == Init => Store!Init
  BY DEF Init, Store!Init, storedBar, answerBar

(***************************************************************************)
(* The theorems.                                                           *)
(***************************************************************************)

\* A key's path names nothing or a file with all the key's bytes, whatever is
\* killed, fails or loses power, and however many builds store and read.
THEOREM NamedFilesAreWhole == Spec => []EntriesAreWhole
  <1>1. CacheInv => EntriesAreWhole
    BY WholeContents DEF CacheInv, NamedAreWhole, EntriesAreWhole
  <1> QED
    BY <1>1, InitCacheInv, StepCacheInv, PTL DEF Spec

\* Names, readers and Puts refer to files that exist, and a temporary file that
\* lies there is that of a Put at work or of one that was killed, or it is from
\* before the last loss of power.
THEOREM FilesAreAccountedFor == Spec => []FilesInv
  <1>1. CacheInv => FilesInv
    BY DEF CacheInv
  <1> QED
    BY <1>1, InitCacheInv, StepCacheInv, PTL DEF Spec

\* The cache implements a store whose puts and gets are atomic.
THEOREM CacheImplementsStore == Spec => ImplementsStore
  <1> QED
    BY InitCacheInv, StepCacheInv, StoreInit, StoreStep, PTL
       DEF Spec, ImplementsStore, Store!Spec

(***************************************************************************)
(* The build of Java imports.                                               *)
(***************************************************************************)

LEMMA WrappersAreFiles == \A c \in Coords : Wrappers(c) \subseteq WrapperFiles
  BY DEF Wrappers, WrapperFiles

LEMMA InitPipelineInv == PipelineInit => PipelineInv
  <1> SUFFICES ASSUME PipelineInit PROVE PipelineInv
    OBVIOUS
  <1>1. opts \in [NoCache : BOOLEAN, WorkDir : {"none", "plain", "prefixed", "own"}]
    BY OptionsAssumption DEF PipelineInit
  <1>2. Unstarted \in RunStates
    BY DEF Unstarted, RunStates, Bodies
  <1>3. PipelineTyped
    BY <1>1, <1>2 DEF PipelineInit, PipelineTyped
  <1>4. Honest(Unstarted) /\ Wrote(Unstarted) /\ Compiles(Unstarted)
    BY DEF Unstarted, Honest, Working, Wrote, Compiles
  <1> QED
    BY <1>3, <1>4 DEF PipelineInit, PipelineInv, Apart, Active, Unstarted

\* A step of run r to the state x: the other runs keep what they have, if r does
\* not touch the directory of one at work.
LEMMA OneRun ==
  ASSUME PipelineInv, NEW r \in Runs, NEW x \in RunStates,
         run' = [run EXCEPT ![r] = x], opts' = opts,
         sources' \in [Dirs -> SUBSET WrapperFiles], Damaged \notin cache',
         Honest(x), Compiles(x),
         x.at = "write" => /\ x.todo \subseteq Wrappers(x.seen)
                           /\ Wrappers(x.seen) \ x.todo \subseteq sources'[WrapperDir(x.coord)],
         \A q \in Runs \ {r} : Active(q) =>
           /\ Working(x) => WrapperDir(run[q].coord) # WrapperDir(x.coord)
           /\ sources'[WrapperDir(run[q].coord)] = sources[WrapperDir(run[q].coord)]
  PROVE  PipelineInv'
  <1>1. run'[r] = x /\ \A q \in Runs \ {r} : run'[q] = run[q]
    BY DEF PipelineInv, PipelineTyped
  <1>2. PipelineTyped'
    BY DEF PipelineInv, PipelineTyped
  <1>3. Apart'
    BY <1>1 DEF PipelineInv, Apart, Active, Working
  <1>4. ASSUME NEW q \in Runs PROVE Honest(run[q])' /\ Wrote(run[q])' /\ Compiles(run[q])'
    <2>1. CASE q = r
      BY <1>1, <2>1 DEF Honest, Working, Wrote, Compiles
    <2>2. CASE q # r
      BY <1>1, <2>2 DEF PipelineInv, Honest, Working, Wrote, Active, Compiles
    <2> QED
      BY <2>1, <2>2
  <1> QED
    BY <1>2, <1>3, <1>4 DEF PipelineInv

\* What the lemmas below know of the run that moves.
LEMMA RunFacts ==
  ASSUME PipelineInv, NEW r \in Runs
  PROVE  /\ run[r] \in RunStates /\ Honest(run[r]) /\ Wrote(run[r]) /\ Compiles(run[r])
         /\ sources \in [Dirs -> SUBSET WrapperFiles] /\ Damaged \notin cache
         /\ Active(r) <=> Working(run[r])
         /\ Active(r) => /\ run[r].coord \in Coords
                        /\ \A q \in Runs \ {r} : Active(q) =>
                              WrapperDir(run[q].coord) # WrapperDir(run[r].coord)
  BY DEF PipelineInv, PipelineTyped, Apart, Active, Working, Honest

\* A step of a run at work that writes no wrapper.
LEMMA Onward ==
  ASSUME PipelineInv, NEW r \in Runs, NEW x \in RunStates, Active(r),
         run' = [run EXCEPT ![r] = x], UNCHANGED <<opts, sources>>, Damaged \notin cache',
         Honest(x), Compiles(x), x.coord = run[r].coord,
         x.at = "write" => x.todo = Wrappers(x.seen)
  PROVE  PipelineInv'
  <1>1. sources' \in [Dirs -> SUBSET WrapperFiles]
    BY RunFacts
  <1>2. \A q \in Runs \ {r} : Active(q) =>
          /\ WrapperDir(run[q].coord) # WrapperDir(x.coord)
          /\ sources'[WrapperDir(run[q].coord)] = sources[WrapperDir(run[q].coord)]
    BY RunFacts
  <1>3. x.at = "write" => /\ x.todo \subseteq Wrappers(x.seen)
                          /\ Wrappers(x.seen) \ x.todo \subseteq sources'[WrapperDir(x.coord)]
    OBVIOUS
  <1> QED
    BY <1>1, <1>2, <1>3, OneRun

\* A run that gives up owes nothing.
LEMMA GivesUp ==
  ASSUME PipelineInv, NEW r \in Runs, run[r].at # "done", MovesTo(r, "failed"),
         UNCHANGED <<opts, cache>>, sources' \in [Dirs -> SUBSET WrapperFiles],
         \A q \in Runs \ {r} : Active(q) =>
           sources'[WrapperDir(run[q].coord)] = sources[WrapperDir(run[q].coord)]
  PROVE  PipelineInv'
  <1> DEFINE x == [run[r] EXCEPT !.at = "failed"]
  <1>1. run[r] \in RunStates /\ Honest(run[r]) /\ ~run[r].unread /\ Damaged \notin cache'
    BY RunFacts DEF Compiles
  <1>2. /\ x \in RunStates /\ x.at = "failed" /\ x.seen = run[r].seen /\ x.coord = run[r].coord
        /\ x.unread = FALSE
    BY <1>1 DEF RunStates
  <1>3. run' = [run EXCEPT ![r] = x]
    BY DEF MovesTo
  <1>4. Honest(x) /\ Compiles(x) /\ ~Working(x)
    BY <1>1, <1>2 DEF Honest, Working, Compiles
  <1> HIDE DEF x
  <1> QED
    BY <1>1, <1>2, <1>3, <1>4, OneRun

\* A run goes on to its next step with the JAR it asked for.
LEMMA FetchKeeps ==
  ASSUME PipelineInv, NEW r \in Runs,
         FetchChecksum(r) \/ FetchJAR(r) \/ CachePut(r) \/ TruncateJar(r) \/ StoreJar(r)
  PROVE  PipelineInv'
  <1>1. /\ run[r] \in RunStates /\ Honest(run[r]) /\ sources \in [Dirs -> SUBSET WrapperFiles]
        /\ Damaged \notin cache /\ Compiles(run[r])
    BY RunFacts
  <1>2. Working(run[r]) /\ run[r].coord \in Coords /\ UNCHANGED <<opts, sources>>
    BY <1>1 DEF FetchChecksum, FetchJAR, CachePut, TruncateJar, StoreJar, Working, Honest
  <1>0. run[r].compiled = {} /\ run[r].unread = FALSE
    BY <1>1 DEF FetchChecksum, FetchJAR, CachePut, TruncateJar, StoreJar, Compiles, RunStates
  <1>3. Active(r)
    BY <1>2, RunFacts
  <1>4. CASE \E sum \in {run[r].coord, Nothing} :
               run' = [run EXCEPT ![r].sum = sum, ![r].at = "jar"] /\ UNCHANGED cache
    <2>1. PICK sum \in {run[r].coord, Nothing} :
            run' = [run EXCEPT ![r].sum = sum, ![r].at = "jar"] /\ UNCHANGED cache
      BY <1>4
    <2> DEFINE x == [run[r] EXCEPT !.sum = sum, !.at = "jar"]
    <2>2. /\ x \in RunStates /\ x.at = "jar" /\ x.sum = sum /\ x.compiled = {} /\ x.unread = FALSE
          /\ x.seen = run[r].seen /\ x.coord = run[r].coord
      BY <1>0, <1>1, <1>2 DEF RunStates, Bodies
    <2>3. run' = [run EXCEPT ![r] = x]
      BY <2>1
    <2>4. Honest(x) /\ Compiles(x)
      BY <1>1, <1>2, <2>2 DEF Honest, Working, Compiles
    <2>5. Damaged \notin cache' /\ opts' = opts /\ UNCHANGED sources
      BY <1>1, <1>2, <2>1
    <2> HIDE DEF x
    <2> QED
      BY <1>3, <2>2, <2>3, <2>4, <2>5, Onward
  <1>5. CASE FetchJAR(r)
    <2>1. CASE run[r].sum # run[r].coord
      <3>1. MovesTo(r, "failed") /\ UNCHANGED cache /\ run[r].at # "done"
        BY <1>1, <1>5, <2>1, ContentsAssumption DEF FetchJAR, Honest
      <3> QED
        BY <1>1, <1>2, <3>1, GivesUp
    <2>2. CASE run[r].sum = run[r].coord
      <3> DEFINE x == [run[r] EXCEPT !.data = run[r].coord, !.at = "resolve"]
      <3>1. CASE MovesTo(r, "failed")
        <4>1. UNCHANGED cache /\ run[r].at # "done"
          BY <1>5 DEF FetchJAR
        <4> QED
          BY <1>1, <1>2, <3>1, <4>1, GivesUp
      <3>2. CASE run' = [run EXCEPT ![r] = x]
        <4>1. /\ x \in RunStates /\ x.at = "resolve" /\ x.data = run[r].coord
              /\ x.seen = run[r].seen /\ x.coord = run[r].coord
              /\ x.compiled = {} /\ x.unread = FALSE
          BY <1>0, <1>1, <1>2 DEF RunStates, Bodies
        <4>2. Honest(x) /\ Compiles(x) /\ UNCHANGED cache
          BY <1>1, <1>2, <1>5, <4>1 DEF Honest, Working, FetchJAR, Compiles
        <4> HIDE DEF x
        <4> QED
          BY <1>1, <1>2, <1>3, <3>2, <4>1, <4>2, Onward
      <3>3. \/ MovesTo(r, "failed") \/ run' = [run EXCEPT ![r] = x]
        BY <1>5, <2>2 DEF FetchJAR
      <3> QED
        BY <3>1, <3>2, <3>3
    <2> QED
      BY <2>1, <2>2
  <1>6. CASE CachePut(r) \/ TruncateJar(r) \/ StoreJar(r)
    <2>1. PICK next \in {"reflect", "store"} : MovesTo(r, next)
      BY <1>6 DEF CachePut, TruncateJar, StoreJar
    <2> DEFINE x == [run[r] EXCEPT !.at = next]
    <2>2. run[r].data = run[r].coord /\ Damaged \notin cache'
      BY <1>1, <1>2, <1>6, ContentsAssumption DEF CachePut, TruncateJar, StoreJar, Honest
    <2>3. /\ x \in RunStates /\ x.at = next /\ x.data = run[r].coord
          /\ x.seen = run[r].seen /\ x.coord = run[r].coord
          /\ x.compiled = {} /\ x.unread = FALSE
      BY <1>0, <1>1, <2>2 DEF RunStates
    <2>4. Honest(x) /\ Compiles(x) /\ run' = [run EXCEPT ![r] = x]
      BY <1>1, <1>2, <2>1, <2>3 DEF Honest, Working, MovesTo, Compiles
    <2> HIDE DEF x
    <2> QED
      BY <1>2, <1>3, <2>2, <2>3, <2>4, Onward
  <1> QED
    BY <1>4, <1>5, <1>6 DEF FetchChecksum

\* The JAR at the path is the run's own when the path is in the cache.
LEMMA ReflectKeeps ==
  ASSUME PipelineInv, NEW r \in Runs, Reflect(r)
  PROVE  PipelineInv'
  <1>1. /\ run[r] \in RunStates /\ Honest(run[r]) /\ sources \in [Dirs -> SUBSET WrapperFiles]
        /\ Damaged \notin cache /\ Compiles(run[r]) /\ UNCHANGED <<opts, cache, sources>>
    BY RunFacts DEF Reflect
  <1>2. /\ run[r].at = "reflect" /\ Active(r) /\ run[r].coord \in Coords /\ run[r].data = run[r].coord
        /\ run[r].compiled = {} /\ run[r].unread = FALSE
    BY <1>1 DEF Reflect, Active, Working, Honest, Compiles, RunStates
  <1>4. CASE MovesTo(r, "failed")
    BY <1>1, <1>2, <1>4, GivesUp
  <1>5. CASE /\ AtJARPath(r) \in Coords
             /\ run' = [run EXCEPT ![r].at = "write", ![r].seen = AtJARPath(r),
                                   ![r].todo = Wrappers(AtJARPath(r))]
    <2> DEFINE j == AtJARPath(r)
               x == [run[r] EXCEPT !.at = "write", !.seen = j, !.todo = Wrappers(j)]
    <2>1. Wrappers(j) \subseteq WrapperFiles /\ j \in Coords
      BY <1>5, WrappersAreFiles
    <2>2. ~opts.NoCache => j = run[r].coord
      BY <1>2, <2>1, ContentsAssumption DEF AtJARPath
    <2>3. run' = [run EXCEPT ![r] = x]
      BY <1>5
    <2> HIDE DEF j
    <2>4. /\ x \in RunStates /\ x.at = "write" /\ x.data = run[r].coord /\ x.seen = j
          /\ x.coord = run[r].coord /\ x.todo = Wrappers(j) /\ x.compiled = {} /\ x.unread = FALSE
      BY <1>1, <1>2, <2>1 DEF RunStates, Bodies
    <2>5. Honest(x) /\ Compiles(x)
      BY <1>1, <1>2, <2>1, <2>2, <2>4 DEF Honest, Working, Compiles
    <2> HIDE DEF x
    <2> QED
      BY <1>1, <1>2, <2>3, <2>4, <2>5, Onward
  <1> QED
    BY <1>4, <1>5 DEF Reflect

\* Nobody else writes in the run's directory, and a wrapper goes over a file of
\* its own class only.
LEMMA WriteWrappersKeeps ==
  ASSUME PipelineInv, NEW r \in Runs, WriteWrapper(r) \/ WriteFails(r) \/ ListSources(r)
  PROVE  PipelineInv'
  <1> DEFINE d == WrapperDir(run[r].coord)
  <1>1. /\ run[r] \in RunStates /\ Honest(run[r]) /\ Wrote(run[r]) /\ Compiles(run[r])
        /\ sources \in [Dirs -> SUBSET WrapperFiles]
        /\ Damaged \notin cache /\ UNCHANGED <<opts, cache>>
    BY RunFacts DEF WriteWrapper, WriteFails, ListSources
  <1>2. /\ run[r].at = "write" /\ Active(r) /\ run[r].coord \in Coords /\ run[r].seen \in Coords
        /\ run[r].data = run[r].coord /\ run[r].compiled = {} /\ run[r].unread = FALSE
    BY <1>1 DEF WriteWrapper, WriteFails, ListSources, Active, Working, Honest, Compiles, RunStates
  <1>3. \A q \in Runs \ {r} :
          Active(q) => WrapperDir(run[q].coord) # d /\ WrapperDir(run[q].coord) \in Dirs
    BY <1>2, RunFacts DEF Dirs
  <1>4. d \in Dirs /\ sources[d] \subseteq WrapperFiles /\ run[r].todo \subseteq WrapperFiles
    BY <1>1, <1>2 DEF Dirs, RunStates
  <1>5. /\ run[r].todo \subseteq Wrappers(run[r].seen)
        /\ Wrappers(run[r].seen) \ run[r].todo \subseteq sources[d]
    BY <1>1, <1>2 DEF Wrote
  <1> HIDE DEF d
  <1>6. CASE WriteWrapper(r)
    <2>1. PICK w \in run[r].todo : /\ sources' = [sources EXCEPT ![d] = Overwritten(@, w)]
                                  /\ run' = [run EXCEPT ![r].todo = @ \ {w}]
      BY <1>6 DEF WriteWrapper, d
    <2> DEFINE x == [run[r] EXCEPT !.todo = @ \ {w}]
    <2>2. /\ x \in RunStates /\ x.at = "write" /\ x.data = run[r].coord /\ x.seen = run[r].seen
          /\ x.coord = run[r].coord /\ x.todo = run[r].todo \ {w}
          /\ x.compiled = {} /\ x.unread = FALSE
      BY <1>1, <1>2 DEF RunStates
    <2>3. run' = [run EXCEPT ![r] = x]
      BY <2>1
    <2>4. Overwritten(sources[d], w) \subseteq WrapperFiles
      BY <1>4 DEF Overwritten
    <2>5. /\ sources' \in [Dirs -> SUBSET WrapperFiles] /\ sources'[d] = Overwritten(sources[d], w)
          /\ \A e \in Dirs : e # d => sources'[e] = sources[e]
      BY <1>1, <1>4, <2>1, <2>4
    <2>6. \A u, v \in Wrappers(run[r].seen) : u # v => u.class # v.class
      BY DEF Wrappers
    <2>7. Wrappers(x.seen) \ x.todo \subseteq sources'[d]
      BY <1>5, <2>2, <2>5, <2>6 DEF Overwritten
    <2>8. Honest(x) /\ Compiles(x)
      BY <1>1, <1>2, <2>2 DEF Honest, Working, Compiles
    <2>9. WrapperDir(x.coord) = d
      BY <2>2 DEF d
    <2> HIDE DEF x
    <2> QED
      BY <1>1, <1>3, <1>5, <2>2, <2>3, <2>5, <2>7, <2>8, <2>9, OneRun
  <1>7. CASE WriteFails(r)
    <2>1. sources' \in [Dirs -> SUBSET WrapperFiles] /\ \A e \in Dirs : e # d => sources'[e] = sources[e]
      <3>1. CASE UNCHANGED sources
        BY <1>1, <3>1
      <3>2. CASE \E w \in run[r].todo :
                   sources' = [sources EXCEPT ![d] = Overwritten(@, [w EXCEPT !.of = Damaged])]
        <4>1. PICK w \in run[r].todo :
                sources' = [sources EXCEPT ![d] = Overwritten(@, [w EXCEPT !.of = Damaged])]
          BY <3>2
        <4>2. [w EXCEPT !.of = Damaged] \in WrapperFiles
          BY <1>4 DEF WrapperFiles
        <4>3. Overwritten(sources[d], [w EXCEPT !.of = Damaged]) \subseteq WrapperFiles
          BY <1>4, <4>2 DEF Overwritten
        <4> QED
          BY <1>1, <1>4, <4>1, <4>3
      <3> QED
        BY <1>7, <3>1, <3>2 DEF WriteFails, d
    <2> QED
      BY <1>1, <1>2, <1>3, <1>7, <2>1, GivesUp DEF WriteFails
  <1>8. CASE ListSources(r)
    <2>1. PICK next \in {"javac", "done"}, listed \in SUBSET WrapperFiles, failed \in BOOLEAN :
            /\ run' = [run EXCEPT ![r] = [@ EXCEPT !.at = next, !.compiled = listed, !.unread = failed]]
            /\ IF failed THEN next = "done" /\ listed = {} ELSE listed = sources[d]
      <3>1. CASE run' = [run EXCEPT ![r].at = "javac", ![r].compiled = sources[d]]
        <4>1. [run[r] EXCEPT !.at = "javac", !.compiled = sources[d]] =
                [run[r] EXCEPT !.at = "javac", !.compiled = sources[d], !.unread = FALSE]
          BY <1>1, <1>2 DEF RunStates
        <4> QED
          BY <1>4, <3>1, <4>1
      <3>2. CASE sources[d] = {} /\ MovesTo(r, "done")
        <4>1. [run[r] EXCEPT !.at = "done"] =
                [run[r] EXCEPT !.at = "done", !.compiled = {}, !.unread = FALSE]
          BY <1>1, <1>2 DEF RunStates
        <4> QED
          BY <3>2, <4>1 DEF MovesTo
      <3>3. CASE run' = [run EXCEPT ![r].at = "done", ![r].unread = TRUE]
        <4>1. [run[r] EXCEPT !.at = "done", !.unread = TRUE] =
                [run[r] EXCEPT !.at = "done", !.compiled = {}, !.unread = TRUE]
          BY <1>1, <1>2 DEF RunStates
        <4>2. run' = [run EXCEPT ![r] = [@ EXCEPT !.at = "done", !.compiled = {}, !.unread = TRUE]]
          BY <3>3, <4>1
        <4> QED
          BY <4>2
      <3> QED
        BY <1>8, <3>1, <3>2, <3>3 DEF ListSources, d
    <2> DEFINE x == [run[r] EXCEPT !.at = next, !.compiled = listed, !.unread = failed]
    <2>2. /\ x \in RunStates /\ x.at = next /\ x.data = run[r].coord /\ x.seen = run[r].seen
          /\ x.coord = run[r].coord /\ x.compiled = listed /\ x.unread = failed
      BY <1>1, <1>2 DEF RunStates
    <2>3. run' = [run EXCEPT ![r] = x] /\ UNCHANGED sources /\ run[r].todo = {}
      BY <1>8, <2>1 DEF ListSources
    <2> HIDE DEF x
    <2>4. Honest(x) /\ x.at # "write"
      BY <1>1, <1>2, <2>2 DEF Honest, Working
    <2>5. ~failed => Wrappers(x.seen) \subseteq x.compiled
      BY <1>5, <2>1, <2>2, <2>3
    <2>6. Compiles(x)
      BY <2>1, <2>2, <2>5 DEF Compiles
    <2> QED
      BY <1>1, <1>2, <2>2, <2>3, <2>4, <2>6, Onward
  <1> QED
    BY <1>6, <1>7, <1>8

LEMMA BeginKeeps ==
  ASSUME PipelineInv, NEW r \in Runs, NEW c \in Coords, Begin(r, c)
  PROVE  PipelineInv'
  <1>1. /\ run[r] \in RunStates /\ sources \in [Dirs -> SUBSET WrapperFiles] /\ Damaged \notin cache
        /\ UNCHANGED <<opts, cache, sources>> /\ run[r].at = "idle"
    BY RunFacts DEF Begin
  <1>2. CASE opts.WorkDir = "none"
    BY <1>1, <1>2, GivesUp DEF Begin
  <1>3. CASE opts.WorkDir # "none"
    <2> DEFINE x == [Unstarted EXCEPT !.at = "sum", !.coord = c]
    <2>1. /\ x \in RunStates /\ x.at = "sum" /\ x.coord = c /\ x.seen = Nothing
          /\ x.compiled = {} /\ x.unread = FALSE
      BY DEF Unstarted, RunStates, Bodies
    <2>2. run' = [run EXCEPT ![r] = x] /\ Honest(x) /\ Compiles(x)
      BY <1>3, <2>1 DEF Begin, Honest, Compiles
    <2>3. \A q \in Runs : Active(q) => WrapperDir(run[q].coord) # WrapperDir(c)
      BY DEF Begin
    <2> HIDE DEF x
    <2> QED
      BY <1>1, <2>1, <2>2, <2>3, OneRun
  <1> QED
    BY <1>2, <1>3

\* A run that has failed, or ends in javac, has nothing more to write.
LEMMA EndRunKeeps ==
  ASSUME PipelineInv, NEW r \in Runs, Unanswered(r) \/ ResolveFails(r) \/ Javac(r)
  PROVE  PipelineInv'
  <1>1. /\ run[r] \in RunStates /\ Honest(run[r]) /\ Compiles(run[r])
        /\ sources \in [Dirs -> SUBSET WrapperFiles] /\ Damaged \notin cache
        /\ UNCHANGED <<opts, cache, sources>>
    BY RunFacts DEF Unanswered, ResolveFails, Javac
  <1>2. CASE MovesTo(r, "failed")
    BY <1>1, <1>2, GivesUp DEF Unanswered, ResolveFails, Javac
  <1>3. CASE run[r].at = "javac" /\ MovesTo(r, "done")
    <2> DEFINE x == [run[r] EXCEPT !.at = "done"]
    <2>1. /\ x \in RunStates /\ x.at = "done" /\ x.data = run[r].data /\ x.seen = run[r].seen
          /\ x.coord = run[r].coord /\ x.compiled = run[r].compiled /\ x.unread = FALSE
      BY <1>1, <1>3 DEF RunStates, Compiles
    <2>2. run' = [run EXCEPT ![r] = x] /\ Honest(x) /\ ~Working(x)
      BY <1>1, <1>3, <2>1 DEF MovesTo, Honest, Working
    <2>3. Compiles(x)
      BY <1>1, <1>3, <2>1 DEF Compiles
    <2> HIDE DEF x
    <2> QED
      BY <1>1, <1>3, <2>1, <2>2, <2>3, Onward DEF Active
  <1> QED
    BY <1>2, <1>3 DEF Unanswered, ResolveFails, Javac

\* The driver touches files only while no run is at work.
LEMMA DriverKeeps ==
  ASSUME PipelineInv, PrepareWorkspace \/ Cleanup \/ UNCHANGED pipelineVars
  PROVE  PipelineInv'
  <1>1. UNCHANGED <<run, cache>> /\ opts'.NoCache = opts.NoCache
        /\ opts' \in [NoCache : BOOLEAN, WorkDir : {"none", "plain", "prefixed", "own"}]
    BY DEF PipelineInv, PipelineTyped, PrepareWorkspace, Cleanup, pipelineVars
  <1>2. sources' \in [Dirs -> SUBSET WrapperFiles]
    BY DEF PipelineInv, PipelineTyped, PrepareWorkspace, Cleanup, pipelineVars
  <1>3. ASSUME NEW r \in Runs PROVE Wrote(run[r])'
    <2>1. run[r].at = "write" => UNCHANGED sources
      BY DEF Active, PrepareWorkspace, Cleanup, pipelineVars
    <2> QED
      BY <1>1, <2>1 DEF PipelineInv, Wrote
  <1>4. \A r \in Runs : Honest(run[r])' /\ Compiles(run[r])'
    BY <1>1 DEF PipelineInv, Honest, Working, Compiles
  <1> QED
    BY <1>1, <1>2, <1>3, <1>4 DEF PipelineInv, PipelineTyped, Apart, Active

LEMMA StepPipelineInv == PipelineInv /\ [PipelineNext]_pipelineVars => PipelineInv'
  BY DriverKeeps, BeginKeeps, EndRunKeeps, FetchKeeps, ReflectKeeps, WriteWrappersKeeps
     DEF PipelineNext, Step

\* A body that does not match its checksum reaches neither the cache nor a run
\* that goes on.
THEOREM KeepsOnlyVerified == PipelineSpec => []OnlyVerifiedIsKept
  <1>1. PipelineInv => OnlyVerifiedIsKept
    BY DEF PipelineInv, Honest, OnlyVerifiedIsKept
  <1> QED
    BY <1>1, InitPipelineInv, StepPipelineInv, PTL DEF PipelineSpec

\* A run that goes through the cache reflects the JAR it fetched.
THEOREM CachedReflectsItsOwn == PipelineSpec => []ReflectsItsOwnJar
  <1>1. PipelineInv => ReflectsItsOwnJar
    BY DEF PipelineInv, Honest, ReflectsItsOwnJar
  <1> QED
    BY <1>1, InitPipelineInv, StepPipelineInv, PTL DEF PipelineSpec

\* A run that succeeds has given javac a wrapper of the reflected JAR for every
\* class of it, or could not read the directory and has compiled nothing.
THEOREM JavacGetsAllOrNothing == PipelineSpec => []CompilesAllOrNothing
  <1>1. PipelineInv => CompilesAllOrNothing
    BY DEF PipelineInv, Compiles, CompilesAllOrNothing
  <1> QED
    BY <1>1, InitPipelineInv, StepPipelineInv, PTL DEF PipelineSpec

(***************************************************************************)
(* Wrapper synthesis: the elements of a sequence that have a property.       *)
(***************************************************************************)
Picking == INSTANCE Loops WITH Step <- AddPicked
Declaring == INSTANCE Loops WITH Step <- AddExterns

Picks(p, v, n) == v[0] = <<>> /\ \A i \in 0..(n - 1) : v[i + 1] = AddPicked(p, v[i], i + 1)

\* The loop of InOrder, one element at a time.
LEMMA InOrderUnfolds ==
  ASSUME NEW picked, NEW n \in Nat
  PROVE  \E v : InOrder(picked, n) = v[n] /\ Picks(picked, v, n)
  <1> DEFINE v == CHOOSE w : Picking!IsLoop(w, picked, <<>>, n)
  <1>1. Picking!IsLoop(v, picked, <<>>, n)
    BY Picking!LoopExists
  <1>2. InOrder(picked, n) = v[n]
    BY DEF InOrder, Picking!IsLoop
  <1> HIDE DEF v
  <1>3. v = [i \in 0..n |-> IF i = 0 THEN <<>> ELSE AddPicked(picked, v[i - 1], i)]
    BY <1>1 DEF Picking!IsLoop
  <1>4. v[0] = <<>>
    BY <1>3
  <1>5. ASSUME NEW i \in 0..(n - 1)
        PROVE  v[i + 1] = AddPicked(picked, v[i], i + 1)
    <2>1. i + 1 \in 0..n /\ i + 1 # 0 /\ (i + 1) - 1 = i
      OBVIOUS
    <2>2. v[i + 1] = IF i + 1 = 0 THEN <<>> ELSE AddPicked(picked, v[(i + 1) - 1], i + 1)
      BY <1>3, <2>1, Zenon
    <2> QED
      BY <2>1, <2>2
  <1> QED
    BY <1>2, <1>4, <1>5 DEF Picks

\* Functions that pick the same up to n give the same.
LEMMA InOrderAgrees ==
  ASSUME NEW p, NEW q, NEW n \in Nat,
         \A i \in 1..n : (i \in DOMAIN p <=> i \in DOMAIN q) /\ (i \in DOMAIN p => p[i] = q[i])
  PROVE  InOrder(p, n) = InOrder(q, n)
  <1>1. PICK v : InOrder(p, n) = v[n] /\ Picks(p, v, n)
    BY InOrderUnfolds
  <1>2. PICK w : InOrder(q, n) = w[n] /\ Picks(q, w, n)
    BY InOrderUnfolds
  <1> DEFINE T == {i \in 0..n : v[i] = w[i]}
  <1>3. 0 \in T
    BY <1>1, <1>2 DEF Picks
  <1>4. ASSUME NEW i \in 0..(n - 1), i \in T
        PROVE  i + 1 \in T
    <2>1. i + 1 \in 1..n
      OBVIOUS
    <2>2. v[i + 1] = w[i + 1]
      BY <1>1, <1>2, <1>4, <2>1 DEF AddPicked, Picks
    <2> QED
      BY <2>1, <2>2
  <1> HIDE DEF T
  <1>5. 0..n \subseteq T
    BY <1>3, <1>4, ClimbTo
  <1> QED
    BY <1>1, <1>2, <1>5 DEF T

\* What is in order up to m goes first in what is in order up to m + n.
LEMMA InOrderGoesOn ==
  ASSUME NEW p, NEW m \in Nat, NEW n \in Nat
  PROVE  \E v : InOrder(p, m) = v[m] /\ InOrder(p, m + n) = v[m + n] /\ Picks(p, v, m + n)
  <1>1. PICK v : InOrder(p, m + n) = v[m + n] /\ Picks(p, v, m + n)
    BY InOrderUnfolds
  <1>2. PICK w : InOrder(p, m) = w[m] /\ Picks(p, w, m)
    BY InOrderUnfolds
  <1> DEFINE T == {i \in 0..m : v[i] = w[i]}
  <1>3. 0 \in T
    BY <1>1, <1>2 DEF Picks
  <1>4. \A i \in 0..(m - 1) : i \in T => i + 1 \in T
    BY <1>1, <1>2 DEF Picks
  <1> HIDE DEF T
  <1>5. 0..m \subseteq T
    BY <1>3, <1>4, ClimbTo
  <1>6. v[m] = w[m]
    BY <1>5 DEF T
  <1> QED
    BY <1>1, <1>2, <1>6

\* What is picked is of the type of what it is picked from.
LEMMA InOrderTyped ==
  ASSUME NEW S, NEW p, NEW n \in Nat, \A i \in DOMAIN p : p[i] \in S
  PROVE  InOrder(p, n) \in Seq(S)
  <1>1. PICK v : InOrder(p, n) = v[n] /\ Picks(p, v, n)
    BY InOrderUnfolds
  <1> DEFINE T == {i \in 0..n : v[i] \in Seq(S)}
  <1>3. 0 \in T
    <2>1. v[0] = <<>> /\ <<>> \in Seq(S) /\ 0 \in 0..n
      BY <1>1 DEF Picks
    <2> QED
      BY <2>1
  <1>4. ASSUME NEW i \in 0..(n - 1), i \in T
        PROVE  i + 1 \in T
    <2>1. i + 1 \in 0..n /\ v[i] \in Seq(S)
      BY <1>4
    <2>2. v[i + 1] \in Seq(S)
      <3>1. v[i + 1] = AddPicked(p, v[i], i + 1)
        BY <1>1 DEF Picks
      <3>2. CASE i + 1 \in DOMAIN p
        BY <2>1, <3>1, <3>2, AppendProperties DEF AddPicked, Picks
      <3> QED
        BY <2>1, <3>1, <3>2 DEF AddPicked, Picks
    <2> QED
      BY <2>1, <2>2
  <1> HIDE DEF T
  <1>5. 0..n \subseteq T
    BY <1>3, <1>4, ClimbTo
  <1> QED
    BY <1>1, <1>5 DEF T

\* Nothing is picked after m.
LEMMA InOrderRests ==
  ASSUME NEW p, NEW m \in Nat, NEW n \in Nat, DOMAIN p \cap (m + 1)..(m + n) = {}
  PROVE  InOrder(p, m + n) = InOrder(p, m)
  <1>1. PICK v : InOrder(p, m) = v[m] /\ InOrder(p, m + n) = v[m + n] /\ Picks(p, v, m + n)
    BY InOrderGoesOn
  <1> DEFINE T == {i \in 0..n : v[m + i] = v[m]}
  <1>2. 0 \in T
    OBVIOUS
  <1>3. ASSUME NEW i \in 0..(n - 1), i \in T
        PROVE  i + 1 \in T
    <2>1. /\ m + i \in 0..(m + n - 1) /\ (m + i) + 1 \in (m + 1)..(m + n)
          /\ (m + i) + 1 = m + (i + 1) /\ i + 1 \in 0..n
      OBVIOUS
    <2>2. v[(m + i) + 1] = AddPicked(p, v[m + i], (m + i) + 1)
      BY <1>1, <2>1 DEF Picks
    <2>3. (m + i) + 1 \notin DOMAIN p
      BY <2>1
    <2> QED
      BY <1>3, <2>1, <2>2, <2>3 DEF AddPicked, Picks
  <1> HIDE DEF T
  <1>4. 0..n \subseteq T
    BY <1>2, <1>3, ClimbTo
  <1> QED
    BY <1>1, <1>4 DEF T

\* Everything is picked after m.
LEMMA InOrderTakes ==
  ASSUME NEW S, NEW p, NEW m \in Nat, NEW t \in Seq(S),
         \A i \in DOMAIN p : p[i] \in S,
         \A i \in 1..Len(t) : m + i \in DOMAIN p /\ p[m + i] = t[i]
  PROVE  InOrder(p, m + Len(t)) = InOrder(p, m) \o t
  <1> DEFINE n == Len(t)
             s == InOrder(p, m)
  <1>0. n \in Nat /\ s \in Seq(S) /\ t \in [1..n -> S]
    BY LenProperties, InOrderTyped
  <1> HIDE DEF n
  <1>1. PICK v : InOrder(p, m) = v[m] /\ InOrder(p, m + n) = v[m + n] /\ Picks(p, v, m + n)
    BY <1>0, InOrderGoesOn
  <1> DEFINE T == {i \in 0..n : v[m + i] = s \o SubSeq(t, 1, i)}
  <1> HIDE DEF s
  <1>2. 0 \in T
    <2>1. SubSeq(t, 1, 0) = <<>> /\ s \o <<>> = s /\ m + 0 = m
      BY <1>0
    <2> QED
      BY <1>0, <1>1, <2>1 DEF s
  <1>3. ASSUME NEW i \in 0..(n - 1), i \in T
        PROVE  i + 1 \in T
    <2>1. /\ m + i \in 0..((m + n) - 1) /\ i + 1 \in 1..n
          /\ (m + i) + 1 = m + (i + 1) /\ i + 1 \in 0..n
      BY <1>0
    <2>2. v[m + (i + 1)] = Append(s \o SubSeq(t, 1, i), t[i + 1])
      <3>1. v[m + i] = s \o SubSeq(t, 1, i)
        BY <1>3
      <3>2. v[(m + i) + 1] = AddPicked(p, v[m + i], (m + i) + 1)
        BY <1>1, <2>1 DEF Picks
      <3>3. m + (i + 1) \in DOMAIN p /\ p[m + (i + 1)] = t[i + 1]
        BY <2>1 DEF n
      <3> QED
        BY <2>1, <3>1, <3>2, <3>3 DEF AddPicked, Picks
    <2>3. SubSeq(t, 1, i + 1) = Append(SubSeq(t, 1, i), t[i + 1])
      BY <1>0, <2>1 DEF n
    <2>4. SubSeq(t, 1, i) \in Seq(S) /\ t[i + 1] \in S
      BY <1>0, <2>1 DEF n
    <2>5. s \o Append(SubSeq(t, 1, i), t[i + 1]) = Append(s \o SubSeq(t, 1, i), t[i + 1])
      BY <1>0, <2>4, ConcatAppend
    <2> QED
      BY <2>1, <2>2, <2>3, <2>5
  <1> HIDE DEF T
  <1>4. 0..n \subseteq T
    BY <1>0, <1>2, <1>3, ClimbTo
  <1>5. n \in T
    BY <1>0, <1>4
  <1>6. SubSeq(t, 1, n) = t
    BY <1>0 DEF n
  <1> QED
    BY <1>1, <1>5, <1>6 DEF T, n, s

(***************************************************************************)
(* typemap.Map.                                                             *)
(***************************************************************************)

Kinds ==
  {"int", "long", "float", "double", "void", "bool", "bytes", "handle", "string", "list", "map",
   "optional", "future"}
Tagged(m) == m.kind \in Kinds /\ m.mochi[1] = m.kind

\* A mapping whose two sides agree crosses alike on both.
LEMMA TaggedCross ==
  ASSUME NEW m, Tagged(m)
  PROVE  JniType(m) = Crossing(m.mochi)
  <1>1. CASE m.kind \in {"int", "long", "float", "double", "void"}
    BY <1>1 DEF Tagged, JniType, Crossing
  <1>2. CASE m.kind \in {"bool", "bytes", "handle"}
    BY <1>2 DEF Tagged, JniType, Crossing
  <1>3. CASE m.kind \in {"string", "list", "map", "optional", "future"}
    BY <1>3 DEF Tagged, JniType, Crossing
  <1> QED
    BY <1>1, <1>2, <1>3 DEF Tagged, Kinds

\* What a table says a type is for Mochi goes with its kind.
LEMMA RowsAreTagged ==
  /\ \A r \in Table : Tagged(r)
  /\ \A r \in Parametric : r.kind \in Kinds
  <1>1. \A r \in Table : Tagged(r)
    BY DEF Table, Row, Tagged, Kinds
  <1>2. \A r \in Parametric : r.kind \in Kinds
    BY DEF Parametric, Kinds
  <1> QED
    BY <1>1, <1>2

\* The row found for a name is a row of the table.
LEMMA FoundIsRow ==
  ASSUME NEW rows, NEW n \in NamesIn(rows)
  PROVE  RowOf(rows, n) \in rows
  BY DEF NamesIn, RowOf

\* No name that is mapped as it stands is one that is refused without arguments.
LEMMA TablesDiffer ==
  /\ Mapped \notin Reasons
  /\ NamesIn(Table) \cap Raw = {}
  <1>1. Mapped \notin Reasons
    BY DEF Mapped, Reasons
  <1>2. ASSUME NEW b \in NamesIn(Table), b \in Raw
        PROVE  FALSE
    <2>1. PICK r \in Table : b \in r.names
      BY <1>2 DEF NamesIn
    <2>2. b \in {"java.util.List", "java.util.ArrayList", "java.util.Collection",
                 "java.util.Optional", "java.util.concurrent.CompletableFuture",
                 "java.util.Map", "java.util.HashMap",
                 "java.util.LinkedHashMap", "java.lang.Object"}
      BY <1>2 DEF Raw, NamesIn, Parametric
    <2> QED
      BY <2>1, <2>2 DEF Table, Row
  <1> QED
    BY <1>1, <1>2

\* A type is refused with a reason, or it is mapped and crosses alike on both sides.
LEMMA MapTypeSays ==
  ASSUME NEW t \in JavaTypes
  PROVE  /\ MapType(t).skip \in Reasons \cup {Mapped}
         /\ MapType(t).skip = Mapped <=> Crosses(t)
         /\ MapType(t).skip = Mapped => Tagged(MapType(t))
  <1>1. CASE CheckRefusal(t) # Mapped
    <2>1. MapType(t) = [skip |-> CheckRefusal(t)]
      BY <1>1 DEF MapType, MapBy
    <2>2. CheckRefusal(t) \in Reasons /\ ~Crosses(t)
      BY <1>1 DEF CheckRefusal, Reasons, Crosses
    <2> QED
      BY <1>1, <2>1, <2>2
  <1>2. CASE CheckRefusal(t) = Mapped
    <2>1. Crosses(t) <=> (t.args = <<>> => t.base \notin Raw)
      BY <1>2 DEF CheckRefusal, Mapped, Crosses
    <2>2. CASE t.args = <<>> /\ t.base \in NamesIn(Table)
      <3> DEFINE row == RowOf(Table, t.base)
      <3>1. row \in Table
        BY <2>2, FoundIsRow
      <3>2. MapType(t) = [skip |-> Mapped, kind |-> row.kind, java |-> t, mochi |-> row.mochi]
        BY <1>2, <2>2 DEF MapType, MapBy
      <3> HIDE DEF row
      <3>3. Tagged(MapType(t))
        BY <3>1, <3>2, RowsAreTagged DEF Tagged
      <3> QED
        BY <2>1, <2>2, <3>2, <3>3, TablesDiffer
    <2>3. CASE t.args = <<>> /\ t.base \in Raw
      <3>1. t.base \notin NamesIn(Table)
        BY <2>3, TablesDiffer
      <3>2. MapType(t) = [skip |-> SkipRaw(t.base)]
        BY <1>2, <2>3, <3>1 DEF MapType, MapBy
      <3>3. SkipRaw(t.base) \in Reasons
        BY DEF SkipRaw, Reasons
      <3> QED
        BY <2>1, <2>3, <3>2, <3>3, TablesDiffer
    <2>4. CASE ~(t.args = <<>> /\ t.base \in NamesIn(Table) \cup Raw)
      <3>1. CASE IsParametric(Maps, t)
        <4> DEFINE row == RowOf(Parametric, t.base)
                   mochi == <<row.kind, Each(LAMBDA a : Maps[a].mochi, t.args)>>
        <4>1. row \in Parametric
          BY <3>1, FoundIsRow DEF IsParametric
        <4>2. MapType(t) = [skip |-> Mapped, kind |-> row.kind, java |-> t, mochi |-> mochi]
          BY <1>2, <2>4, <3>1 DEF MapType, MapBy
        <4>3. row.kind \in Kinds /\ mochi[1] = row.kind
          BY <4>1, RowsAreTagged
        <4> HIDE DEF row, mochi
        <4>4. Tagged(MapType(t))
          BY <4>2, <4>3 DEF Tagged
        <4> QED
          BY <2>1, <2>4, <4>2, <4>4
      <3>2. CASE ~IsParametric(Maps, t)
        <4>1. MapType(t) = [skip |-> Mapped, kind |-> "handle", java |-> t, mochi |-> <<"handle", t>>]
          BY <1>2, <2>4, <3>2 DEF MapType, MapBy
        <4>2. Tagged(MapType(t))
          BY <4>1 DEF Tagged, Kinds
        <4> QED
          BY <2>1, <2>4, <4>1, <4>2
      <3> QED
        BY <3>1, <3>2
    <2> QED
      BY <2>2, <2>3, <2>4
  <1> QED
    BY <1>1, <1>2

(***************************************************************************)
(* wrapper.Synth.                                                           *)
(***************************************************************************)
\* FirstSkip finds a reason exactly if a type does not cross.
LEMMA FirstSkipSays ==
  ASSUME NEW ts \in Seq(JavaTypes)
  PROVE  /\ FirstSkip(ts) \in Reasons \cup {Mapped}
         /\ FirstSkip(ts) = Mapped <=> \A i \in 1..Len(ts) : Crosses(ts[i])
  <1> DEFINE refused == {i \in DOMAIN ts : MapType(ts[i]).skip # Mapped}
  <1>1. Len(ts) \in Nat /\ ts \in [1..Len(ts) -> JavaTypes] /\ DOMAIN ts = 1..Len(ts)
    BY LenProperties
  <1>2. \A i \in 1..Len(ts) : /\ MapType(ts[i]).skip \in Reasons \cup {Mapped}
                              /\ MapType(ts[i]).skip = Mapped <=> Crosses(ts[i])
    BY <1>1, MapTypeSays
  <1>3. CASE refused = {}
    BY <1>1, <1>2, <1>3 DEF FirstSkip
  <1>4. CASE refused # {}
    <2>1. refused \subseteq Nat
      BY <1>1
    <2>2. PICK x \in refused : \A y \in refused : x <= y
      BY <1>4, <2>1, Smallest
    <2>3. Min(refused) \in refused
      BY <2>2 DEF Min
    <2>4. FirstSkip(ts) = MapType(ts[Min(refused)]).skip
      BY <1>4 DEF FirstSkip
    <2> QED
      BY <1>1, <1>2, <2>3, <2>4
  <1> QED
    BY <1>3, <1>4

\* A method is skipped, with a reason, exactly if it is not bindable.
LEMMA SkipOfSays ==
  ASSUME NEW m \in MethodInfos
  PROVE  SkipOf(m) \in Reasons \cup {Mapped} /\ (SkipOf(m) = Mapped <=> Bindable(m))
  <1>1. m.returnType \in JavaTypes /\ m.parameterTypes \in Seq(JavaTypes)
    BY DEF MethodInfos
  <1> DEFINE ts == <<m.returnType>> \o m.parameterTypes
  <1>2. /\ ts \in Seq(JavaTypes) /\ Len(m.parameterTypes) \in Nat
        /\ Len(ts) = Len(m.parameterTypes) + 1
        /\ ts[1] = m.returnType
        /\ \A i \in 1..Len(m.parameterTypes) : ts[i + 1] = m.parameterTypes[i]
    BY <1>1
  <1>3. SkipOf(m) = IF m.isVarargs THEN "SkipVarargs" ELSE FirstSkip(ts)
    BY DEF SkipOf
  <1>4. ToSet(m.parameterTypes) = {m.parameterTypes[i] : i \in 1..Len(m.parameterTypes)}
    BY <1>1, LenProperties DEF ToSet
  <1> HIDE DEF ts
  <1>5. (\A i \in 1..Len(ts) : Crosses(ts[i]))
          <=> \A t \in {m.returnType} \cup ToSet(m.parameterTypes) : Crosses(t)
    <2>1. ASSUME \A i \in 1..Len(ts) : Crosses(ts[i]),
                 NEW t \in {m.returnType} \cup ToSet(m.parameterTypes)
          PROVE  Crosses(t)
      <3>1. CASE t = m.returnType
        BY <1>2, <2>1, <3>1
      <3>2. CASE t \in ToSet(m.parameterTypes)
        <4>1. PICK i \in 1..Len(m.parameterTypes) : t = m.parameterTypes[i]
          BY <1>4, <3>2
        <4>2. t = ts[i + 1] /\ i + 1 \in 1..Len(ts)
          BY <1>2, <4>1
        <4> QED
          BY <2>1, <4>2
      <3> QED
        BY <3>1, <3>2
    <2>2. ASSUME \A t \in {m.returnType} \cup ToSet(m.parameterTypes) : Crosses(t),
                 NEW i \in 1..Len(ts)
          PROVE  Crosses(ts[i])
      <3>1. CASE i = 1
        BY <1>2, <2>2, <3>1
      <3>2. CASE i # 1
        <4>1. i - 1 \in 1..Len(m.parameterTypes) /\ (i - 1) + 1 = i
          BY <1>2, <3>2
        <4>2. ts[i] = m.parameterTypes[i - 1]
          BY <1>2, <4>1
        <4>3. ts[i] \in ToSet(m.parameterTypes)
          BY <1>4, <4>1, <4>2
        <4> QED
          BY <2>2, <4>3
      <3> QED
        BY <3>1, <3>2
    <2> QED
      BY <2>1, <2>2
  <1>6. FirstSkip(ts) \in Reasons \cup {Mapped}
          /\ (FirstSkip(ts) = Mapped <=> \A i \in 1..Len(ts) : Crosses(ts[i]))
    BY <1>2, FirstSkipSays
  <1>7. "SkipVarargs" \in Reasons /\ "SkipVarargs" # Mapped
    BY DEF Reasons, Mapped
  <1>8. Bindable(m) <=> ~m.isVarargs /\ \A t \in {m.returnType} \cup ToSet(m.parameterTypes) : Crosses(t)
    BY DEF Bindable
  <1> QED
    BY <1>3, <1>5, <1>6, <1>7, <1>8

\* The elements of a sequence that are in a set: what Keep gives for a property.
KeepIn(s, K) == InOrder([i \in {k \in DOMAIN s : s[k] \in K} |-> s[i]], Len(s))

\* Nothing that follows is in the set.
LEMMA KeepInNone ==
  ASSUME NEW S, NEW s \in Seq(S), NEW t \in Seq(S), NEW K, \A i \in 1..Len(t) : t[i] \notin K
  PROVE  KeepIn(s \o t, K) = KeepIn(s, K)
  <1> DEFINE m == Len(s)
             n == Len(t)
             u == s \o t
             p == [i \in {k \in DOMAIN u : u[k] \in K} |-> u[i]]
             q == [i \in {k \in DOMAIN s : s[k] \in K} |-> s[i]]
  <1>1. /\ m \in Nat /\ n \in Nat /\ Len(u) = m + n
        /\ DOMAIN u = 1..(m + n) /\ DOMAIN s = 1..m
        /\ \A i \in 1..(m + n) : u[i] = IF i <= m THEN s[i] ELSE t[i - m]
    BY LenProperties, ConcatProperties
  <1> HIDE DEF m, n, u
  <1>2. DOMAIN p \cap (m + 1)..(m + n) = {}
    <2> SUFFICES ASSUME NEW i \in (m + 1)..(m + n), u[i] \in K
                 PROVE  FALSE
      OBVIOUS
    <2>1. i \in 1..(m + n) /\ ~(i <= m) /\ i - m \in 1..n
      BY <1>1
    <2> QED
      BY <1>1, <2>1 DEF n
  <1>3. \A i \in 1..m : (i \in DOMAIN p <=> i \in DOMAIN q) /\ (i \in DOMAIN p => p[i] = q[i])
    BY <1>1
  <1> HIDE DEF p, q
  <1>4. InOrder(p, m + n) = InOrder(p, m)
    BY <1>1, <1>2, InOrderRests
  <1>5. InOrder(p, m) = InOrder(q, m)
    BY <1>1, <1>3, InOrderAgrees
  <1> QED
    BY <1>1, <1>4, <1>5 DEF KeepIn, p, q, u, m

\* Everything that follows is in the set.
LEMMA KeepInAll ==
  ASSUME NEW S, NEW s \in Seq(S), NEW t \in Seq(S), NEW K, \A i \in 1..Len(t) : t[i] \in K
  PROVE  KeepIn(s \o t, K) = KeepIn(s, K) \o t
  <1> DEFINE m == Len(s)
             n == Len(t)
             u == s \o t
             p == [i \in {k \in DOMAIN u : u[k] \in K} |-> u[i]]
             q == [i \in {k \in DOMAIN s : s[k] \in K} |-> s[i]]
  <1>1. /\ m \in Nat /\ n \in Nat /\ Len(u) = m + n
        /\ DOMAIN u = 1..(m + n) /\ DOMAIN s = 1..m
        /\ \A i \in 1..(m + n) : u[i] \in S /\ u[i] = IF i <= m THEN s[i] ELSE t[i - m]
    BY LenProperties, ConcatProperties, ElementOfSeq
  <1> HIDE DEF m, n, u
  <1>2. \A i \in 1..n : m + i \in DOMAIN p /\ p[m + i] = t[i]
    <2> SUFFICES ASSUME NEW i \in 1..n
                 PROVE  m + i \in DOMAIN p /\ p[m + i] = t[i]
      OBVIOUS
    <2>1. m + i \in 1..(m + n) /\ ~(m + i <= m) /\ (m + i) - m = i
      BY <1>1
    <2>2. u[m + i] = t[i] /\ t[i] \in K
      BY <1>1, <2>1 DEF n
    <2> QED
      BY <1>1, <2>1, <2>2
  <1>3. \A i \in 1..m : (i \in DOMAIN p <=> i \in DOMAIN q) /\ (i \in DOMAIN p => p[i] = q[i])
    BY <1>1
  <1>6. \A i \in DOMAIN p : p[i] \in S
    BY <1>1
  <1> HIDE DEF p, q
  <1>4. InOrder(p, m + n) = InOrder(p, m) \o t
    BY <1>1, <1>2, <1>6, InOrderTakes DEF n
  <1>5. InOrder(p, m) = InOrder(q, m)
    BY <1>1, <1>3, InOrderAgrees
  <1> QED
    BY <1>1, <1>4, <1>5 DEF KeepIn, p, q, u, m

\* Of nothing, nothing is kept.
LEMMA KeepInEmpty ==
  ASSUME NEW K
  PROVE  KeepIn(<<>>, K) = <<>>
  <1> DEFINE p == [i \in {k \in DOMAIN <<>> : <<>>[k] \in K} |-> <<>>[i]]
  <1>1. KeepIn(<<>>, K) = InOrder(p, 0)
    BY DEF KeepIn
  <1> HIDE DEF p
  <1>2. PICK v : InOrder(p, 0) = v[0] /\ Picks(p, v, 0)
    BY InOrderUnfolds
  <1> QED
    BY <1>1, <1>2 DEF Picks

\* The public members are members.
LEMMA PublicTyped ==
  ASSUME NEW S, NEW s \in Seq(S)
  PROVE  Public(s) \in Seq(S)
  <1> DEFINE p == [i \in {k \in DOMAIN s : s[k].isPublic} |-> s[i]]
  <1>1. Public(s) = InOrder(p, Len(s))
    BY DEF Public, Keep
  <1>2. Len(s) \in Nat /\ \A i \in DOMAIN p : p[i] \in S
    BY LenProperties
  <1> HIDE DEF p
  <1> QED
    BY <1>1, <1>2, InOrderTyped

\* What Synth wraps and what it skips, said by what may cross.
Kept(ms) == Keep(ms, Bindable)
Lost(ms) == Keep(ms, LAMBDA m : ~Bindable(m))

\* Synth's two ways of filtering are what may and may not cross.
LEMMA SynthParts ==
  ASSUME NEW ms \in Seq(MethodInfos)
  PROVE  /\ Keep(ms, LAMBDA m : SkipOf(m) = Mapped) = Kept(ms)
         /\ Keep(ms, LAMBDA m : SkipOf(m) # Mapped) = Lost(ms)
         /\ Kept(ms) \in Seq(MethodInfos)
         /\ Lost(ms) \in Seq(MethodInfos)
  <1>1. Len(ms) \in Nat /\ \A i \in DOMAIN ms : ms[i] \in MethodInfos
    BY LenProperties
  <1>2. \A i \in DOMAIN ms : SkipOf(ms[i]) = Mapped <=> Bindable(ms[i])
    BY <1>1, SkipOfSays
  <1>3. Keep(ms, LAMBDA m : SkipOf(m) = Mapped) = Kept(ms)
    <2>1. {k \in DOMAIN ms : SkipOf(ms[k]) = Mapped} = {k \in DOMAIN ms : Bindable(ms[k])}
      BY <1>2
    <2> QED
      BY <2>1, Zenon DEF Keep, Kept
  <1>4. Keep(ms, LAMBDA m : SkipOf(m) # Mapped) = Lost(ms)
    <2>1. {k \in DOMAIN ms : SkipOf(ms[k]) # Mapped} = {k \in DOMAIN ms : ~Bindable(ms[k])}
      BY <1>2
    <2> QED
      BY <2>1, Zenon DEF Keep, Lost
  <1>5. Kept(ms) \in Seq(MethodInfos)
    <2> DEFINE p == [i \in {k \in DOMAIN ms : Bindable(ms[k])} |-> ms[i]]
    <2>1. Kept(ms) = InOrder(p, Len(ms)) /\ \A i \in DOMAIN p : p[i] \in MethodInfos
      BY <1>1 DEF Keep, Kept
    <2> HIDE DEF p
    <2> QED
      BY <1>1, <2>1, InOrderTyped
  <1>6. Lost(ms) \in Seq(MethodInfos)
    <2> DEFINE p == [i \in {k \in DOMAIN ms : ~Bindable(ms[k])} |-> ms[i]]
    <2>1. Lost(ms) = InOrder(p, Len(ms)) /\ \A i \in DOMAIN p : p[i] \in MethodInfos
      BY <1>1 DEF Keep, Lost
    <2> HIDE DEF p
    <2> QED
      BY <1>1, <2>1, InOrderTyped
  <1> QED
    BY <1>3, <1>4, <1>5, <1>6

\* A class's wrapper has the methods that may cross, in order.
LEMMA WrappersByName ==
  ASSUME NEW c \in ClassInfos
  PROVE  Each(LAMBDA m : m.origName, EmitJavaSource(Synth(c)))
           = Each(LAMBDA m : m.name, Kept(Public(c.methods)))
  <1>1. Public(c.methods) \in Seq(MethodInfos)
    BY PublicTyped DEF ClassInfos
  <1> DEFINE ms == Kept(Public(c.methods))
  <1>2. Synth(c).methods = Each(LAMBDA m : SynthMethod(c.name, m), ms)
    BY <1>1, SynthParts DEF Synth
  <1> HIDE DEF ms
  <1>3. EmitJavaSource(Synth(c)) = [i \in DOMAIN ms |-> WriteWrapMethod(SynthMethod(c.name, ms[i]))]
    BY <1>2 DEF EmitJavaSource, Each
  <1>4. \A m : WriteWrapMethod(SynthMethod(c.name, m)).origName = m.name
    BY DEF WriteWrapMethod, SynthMethod
  <1> QED
    BY <1>3, <1>4 DEF Each, ms

(***************************************************************************)
(* CollectSkips.                                                            *)
(***************************************************************************)
Entries == [name : Seq(STRING), reason : Reasons]

\* The skips begin with the methods that may not cross, and have reasons.
LEMMA SkipsTyped ==
  ASSUME NEW c \in ClassInfos
  PROVE  /\ Synth(c).skips \in Seq(Entries)
         /\ Len(Lost(Public(c.methods))) <= Len(Synth(c).skips)
         /\ \A i \in 1..Len(Lost(Public(c.methods))) :
              Synth(c).skips[i].name = Lost(Public(c.methods))[i].name
  <1> DEFINE ms == Public(c.methods)
             fs == Public(c.fields)
             lost == Lost(ms)
             rest == Keep(fs, LAMBDA f : FieldSkip(f) # Mapped)
             A == [i \in DOMAIN lost |-> [name |-> lost[i].name, reason |-> SkipOf(lost[i])]]
             B == [i \in DOMAIN rest |-> [name |-> rest[i].name, reason |-> FieldSkip(rest[i])]]
  <1>1. ms \in Seq(MethodInfos) /\ fs \in Seq(FieldInfos)
    BY PublicTyped DEF ClassInfos
  <1>2. Keep(ms, LAMBDA m : SkipOf(m) # Mapped) = lost /\ lost \in Seq(MethodInfos)
    BY <1>1, SynthParts
  <1>3. Synth(c).skips = A \o B
    <2>1. Skips(SkipOf, ms) = A
      BY <1>2 DEF Skips, Each
    <2>2. Skips(FieldSkip, fs) = B
      BY DEF Skips, Each
    <2> QED
      BY <2>1, <2>2 DEF Synth
  <1>4. A \in Seq(Entries) /\ Len(A) = Len(lost)
    <2>1. Len(lost) \in Nat /\ DOMAIN lost = 1..Len(lost)
      BY <1>2, LenProperties
    <2>2. ASSUME NEW i \in 1..Len(lost)
          PROVE  A[i] \in Entries
      <3>1. lost[i] \in MethodInfos /\ ~Bindable(lost[i])
        <4> DEFINE p == [k \in {j \in DOMAIN ms : ~Bindable(ms[j])} |-> ms[k]]
                   S == {m \in MethodInfos : ~Bindable(m)}
        <4>1. lost = InOrder(p, Len(ms)) /\ Len(ms) \in Nat /\ \A k \in DOMAIN p : p[k] \in S
          BY <1>1, LenProperties DEF Keep, Lost
        <4> HIDE DEF p, S
        <4>2. lost \in Seq(S)
          BY <4>1, InOrderTyped
        <4>3. lost[i] \in S
          BY <4>2, ElementOfSeq
        <4> QED
          BY <4>3 DEF S
      <3>2. SkipOf(lost[i]) \in Reasons
        BY <3>1, SkipOfSays
      <3>3. lost[i].name \in Seq(STRING)
        BY <3>1 DEF MethodInfos
      <3> QED
        BY <2>1, <3>2, <3>3 DEF Entries
    <2> QED
      BY <2>1, <2>2
  <1>5. B \in Seq(Entries)
    <2> DEFINE p == [k \in {j \in DOMAIN fs : FieldSkip(fs[j]) # Mapped} |-> fs[k]]
               S == {f \in FieldInfos : FieldSkip(f) # Mapped}
    <2>1. rest = InOrder(p, Len(fs)) /\ Len(fs) \in Nat /\ \A k \in DOMAIN p : p[k] \in S
      BY <1>1, LenProperties DEF Keep
    <2>2. rest \in Seq(S)
      <3> HIDE DEF p, S, rest
      <3> QED
        BY <2>1, InOrderTyped
    <2> HIDE DEF rest
    <2>3. Len(rest) \in Nat /\ DOMAIN rest = 1..Len(rest)
      BY <2>2, LenProperties
    <2>4. ASSUME NEW i \in 1..Len(rest)
          PROVE  B[i] \in Entries
      <3>1. rest[i] \in S
        BY <2>2, ElementOfSeq
      <3>2. rest[i].type \in JavaTypes /\ rest[i].name \in Seq(STRING)
        BY <3>1 DEF FieldInfos
      <3>3. <<rest[i].type>> \in Seq(JavaTypes)
        BY <3>2
      <3>4. FieldSkip(rest[i]) \in Reasons
        BY <3>1, <3>3, FirstSkipSays DEF FieldSkip
      <3> QED
        BY <2>3, <3>2, <3>4 DEF Entries
    <2> QED
      BY <2>3, <2>4
  <1> HIDE DEF B, ms, fs
  <1>6. A \o B \in Seq(Entries) /\ Len(A) <= Len(A \o B)
          /\ \A i \in 1..Len(A) : (A \o B)[i] = A[i]
    <2> HIDE DEF A
    <2> QED
      BY <1>4, <1>5, ConcatProperties, LenProperties
  <1>7. \A i \in 1..Len(A) : A[i].name = lost[i].name
    BY <1>2, <1>4, LenProperties
  <1> HIDE DEF A, lost
  <1> QED
    BY <1>3, <1>4, <1>6, <1>7 DEF ms, lost

\* So does the report of a class, which is about that class only.
LEMMA CollectSkipsSays ==
  ASSUME NEW c \in ClassInfos
  PROVE  /\ CollectSkips(c) \in Seq(SkipReports)
         /\ \A i \in 1..Len(CollectSkips(c)) : CollectSkips(c)[i].class = c.name
         /\ IsPrefix(Each(LAMBDA m : m.name, Lost(Public(c.methods))),
                     Each(LAMBDA r : r.name, CollectSkips(c)))
  <1> DEFINE skips == Synth(c).skips
             lost == Lost(Public(c.methods))
             told == CollectSkips(c)
  <1>1. /\ skips \in Seq(Entries) /\ Len(lost) <= Len(skips)
        /\ \A i \in 1..Len(lost) : skips[i].name = lost[i].name
    BY SkipsTyped
  <1>2. lost \in Seq(MethodInfos)
    BY SynthParts, PublicTyped DEF ClassInfos
  <1>3. told = [i \in DOMAIN skips |-> [class |-> c.name, name |-> skips[i].name,
                                        reason |-> ParseSkipReason(skips[i].reason)]]
    BY DEF CollectSkips, Each
  <1> HIDE DEF skips, lost, told
  <1>4. Len(skips) \in Nat /\ DOMAIN skips = 1..Len(skips)
        /\ Len(lost) \in Nat /\ DOMAIN lost = 1..Len(lost)
    BY <1>1, <1>2, LenProperties
  <1>5. ASSUME NEW i \in 1..Len(skips)
        PROVE  /\ told[i] \in SkipReports /\ told[i].class = c.name
               /\ told[i].name = skips[i].name
    <2>1. skips[i] \in Entries
      BY <1>1, ElementOfSeq
    <2>2. c.name \in Seq(STRING) /\ ParseSkipReason(skips[i].reason) \in Reasons
          /\ skips[i].name \in Seq(STRING)
      BY <2>1 DEF ClassInfos, ParseSkipReason, Entries
    <2> QED
      BY <1>3, <1>4, <2>2 DEF SkipReports
  <1>6. told \in Seq(SkipReports) /\ Len(told) = Len(skips) /\ DOMAIN told = 1..Len(told)
    BY <1>3, <1>4, <1>5
  <1>7. IsPrefix(Each(LAMBDA m : m.name, lost), Each(LAMBDA r : r.name, told))
    <2> DEFINE a == [i \in 1..Len(lost) |-> lost[i].name]
               b == [i \in 1..Len(told) |-> told[i].name]
    <2>1. Each(LAMBDA m : m.name, lost) = a /\ Each(LAMBDA r : r.name, told) = b
      BY <1>4, <1>6 DEF Each
    <2>2. Len(a) = Len(lost) /\ Len(b) = Len(told)
      BY <1>4, <1>6
    <2>3. \A i \in 1..Len(lost) : a[i] = b[i]
      BY <1>1, <1>4, <1>5, <1>6
    <2>5. a \in Seq(Seq(STRING)) /\ b \in Seq(Seq(STRING))
      <3>1. \A i \in 1..Len(lost) : lost[i].name \in Seq(STRING)
        <4>1. \A i \in 1..Len(lost) : lost[i] \in MethodInfos
          BY <1>2, ElementOfSeq
        <4> QED
          BY <4>1 DEF MethodInfos
      <3>2. \A i \in 1..Len(told) : told[i].name \in Seq(STRING)
        <4>1. \A i \in 1..Len(told) : told[i] \in SkipReports
          BY <1>6, ElementOfSeq
        <4> QED
          BY <4>1 DEF SkipReports
      <3> QED
        BY <1>4, <1>6, <3>1, <3>2
    <2> HIDE DEF a, b
    <2>4. SubSeq(a, 1, Len(a)) = SubSeq(b, 1, Len(a))
      <3>1. 1 \in 1..(Len(a) + 1) /\ Len(a) \in 0..Len(a)
            /\ 1 \in 1..(Len(b) + 1) /\ Len(a) \in 0..Len(b)
        BY <1>1, <1>4, <1>6, <2>2
      <3> QED
        BY <1>1, <1>4, <1>6, <2>2, <2>3, <2>5, <3>1
    <2> QED
      BY <1>1, <1>6, <2>1, <2>2, <2>4 DEF IsPrefix
  <1> QED
    BY <1>5, <1>6, <1>7 DEF told, lost

(***************************************************************************)
(* EmitShimMochi against EmitJavaSource.                                    *)
(***************************************************************************)

\* The parameters of a wrapper stand for those of its declaration, the handle of
\* an instance included.
LEMMA ParamsCross ==
  ASSUME NEW ps \in Seq(JavaTypes), \A i \in 1..Len(ps) : Crosses(ps[i]), NEW typeName,
         NEW isStatic
  PROVE  (IF isStatic THEN <<>> ELSE <<"long">>) \o [i \in DOMAIN ps |-> JniType(MapType(ps[i]))]
           = Each(Crossing, (IF isStatic THEN <<>> ELSE <<<<"type", typeName>>>>)
                              \o [i \in DOMAIN ps |-> MapType(ps[i]).mochi])
  <1> DEFINE n == Len(ps)
             A == [i \in DOMAIN ps |-> JniType(MapType(ps[i]))]
             B == [i \in DOMAIN ps |-> MapType(ps[i]).mochi]
             SA == {JniType(MapType(t)) : t \in JavaTypes} \cup {"long"}
             SB == {MapType(t).mochi : t \in JavaTypes} \cup {<<"type", typeName>>}
  <1>1. n \in Nat /\ DOMAIN ps = 1..n /\ \A i \in 1..n : ps[i] \in JavaTypes
    BY LenProperties, ElementOfSeq
  <1>2. \A i \in 1..n : JniType(MapType(ps[i])) = Crossing(MapType(ps[i]).mochi)
    <2> SUFFICES ASSUME NEW i \in 1..n
                 PROVE  JniType(MapType(ps[i])) = Crossing(MapType(ps[i]).mochi)
      OBVIOUS
    <2>1. Crosses(ps[i]) /\ ps[i] \in JavaTypes
      BY <1>1
    <2>2. Tagged(MapType(ps[i]))
      BY <2>1, MapTypeSays
    <2> QED
      BY <2>2, TaggedCross
  <1>3. A \in Seq(SA) /\ Len(A) = n /\ B \in Seq(SB) /\ Len(B) = n
    BY <1>1
  <1>4. \A i \in 1..n : A[i] = Crossing(B[i])
    BY <1>1, <1>2
  <1>5. "long" \in SA /\ <<"type", typeName>> \in SB /\ Crossing(<<"type", typeName>>) = "long"
    BY DEF Crossing
  <1> HIDE DEF A, B, SA, SB, n
  <1>6. DOMAIN A = 1..n /\ DOMAIN B = 1..n /\ A = [i \in 1..n |-> A[i]]
    BY <1>1, <1>3, LenProperties
  <1>7. CASE isStatic
    <2>1. <<>> \o A = A /\ <<>> \o B = B
      BY <1>3, ConcatEmptySeq
    <2>2. Each(Crossing, B) = [i \in 1..n |-> Crossing(B[i])]
      BY <1>6 DEF Each
    <2>3. Each(Crossing, B) = A
      BY <1>4, <1>6, <2>2
    <2> QED
      BY <1>7, <2>1, <2>3 DEF A, B
  <1>8. CASE ~isStatic
    <2> DEFINE one == <<"long">>
               first == <<<<"type", typeName>>>>
    <2>1. /\ one \in Seq(SA) /\ Len(one) = 1 /\ one[1] = "long"
          /\ first \in Seq(SB) /\ Len(first) = 1 /\ first[1] = <<"type", typeName>>
      BY <1>5
    <2> HIDE DEF one, first
    <2>2. /\ one \o A \in Seq(SA) /\ Len(one \o A) = 1 + n
          /\ \A i \in 1..(1 + n) : (one \o A)[i] = IF i <= 1 THEN one[i] ELSE A[i - 1]
      <3>1. /\ one \o A \in Seq(SA) /\ Len(one \o A) = Len(one) + Len(A)
            /\ \A i \in 1..(Len(one) + Len(A)) :
                 (one \o A)[i] = IF i <= Len(one) THEN one[i] ELSE A[i - Len(one)]
        BY <1>3, <2>1, ConcatProperties
      <3> QED
        BY <1>3, <2>1, <3>1
    <2>7. /\ first \o B \in Seq(SB) /\ Len(first \o B) = 1 + n
          /\ \A i \in 1..(1 + n) : (first \o B)[i] = IF i <= 1 THEN first[i] ELSE B[i - 1]
      <3>1. /\ first \o B \in Seq(SB) /\ Len(first \o B) = Len(first) + Len(B)
            /\ \A i \in 1..(Len(first) + Len(B)) :
                 (first \o B)[i] = IF i <= Len(first) THEN first[i] ELSE B[i - Len(first)]
        BY <1>3, <2>1, ConcatProperties
      <3> QED
        BY <1>3, <2>1, <3>1
    <2>3. ASSUME NEW i \in 1..(1 + n)
          PROVE  (one \o A)[i] = Crossing((first \o B)[i])
      <3>1. CASE i = 1
        <4>1. 1 \in 1..(1 + n)
          BY <1>1
        <4>2. (one \o A)[1] = "long"
          BY <2>1, <2>2, <4>1
        <4>3. (first \o B)[1] = <<"type", typeName>>
          BY <2>1, <2>7, <4>1
        <4> QED
          BY <1>5, <3>1, <4>2, <4>3
      <3>2. CASE i # 1
        <4>1. i - 1 \in 1..n /\ ~(i <= 1)
          BY <1>1, <3>2
        <4>2. (one \o A)[i] = A[i - 1] /\ (first \o B)[i] = B[i - 1]
          BY <2>2, <2>7, <4>1
        <4> QED
          BY <1>4, <4>1, <4>2
      <3> QED
        BY <3>1, <3>2
    <2>4. DOMAIN (one \o A) = 1..(1 + n) /\ DOMAIN (first \o B) = 1..(1 + n)
          /\ one \o A = [i \in 1..(1 + n) |-> (one \o A)[i]]
      BY <2>2, <2>7, LenProperties
    <2>5. Each(Crossing, first \o B) = [i \in 1..(1 + n) |-> Crossing((first \o B)[i])]
      BY <2>4 DEF Each
    <2>6. one \o A = Each(Crossing, first \o B)
      BY <2>3, <2>4, <2>5
    <2> QED
      BY <1>8, <2>6 DEF A, B, one, first
  <1> QED
    BY <1>7, <1>8

DeclOf(c) ==
  [type |-> ClassShortName(c.name), of |-> c.name,
   fns |-> Each(LAMBDA m : ExternFnLine(m, ClassShortName(c.name)), Synth(c).methods)]
Decls == {DeclOf(c) : c \in ClassInfos}

\* A class is declared once, or has no wrapped method.
LEMMA EmitClassSays ==
  ASSUME NEW c \in ClassInfos
  PROVE  /\ EmitClass(c) \in {<<>>, <<DeclOf(c)>>}
         /\ EmitClass(c) = <<>> => Synth(c).methods = <<>>
         /\ EmitClass(c) \in Seq(Decls)
         /\ \A i \in 1..Len(EmitClass(c)) : EmitClass(c)[i].of = c.name
  <1>1. EmitClass(c) = IF Synth(c).methods = <<>> /\ Synth(c).fields = <<>> THEN <<>>
                       ELSE <<DeclOf(c)>>
    BY DEF EmitClass, DeclOf
  <1>2. DeclOf(c) \in Decls /\ DeclOf(c).of = c.name
    BY DEF Decls, DeclOf
  <1>3. CASE EmitClass(c) = <<>>
    BY <1>1, <1>3
  <1>4. CASE EmitClass(c) = <<DeclOf(c)>>
    BY <1>1, <1>2, <1>4
  <1> QED
    BY <1>1, <1>3, <1>4

\* What is declared of a class is what its wrapper has.
LEMMA ClassIsBacked ==
  ASSUME NEW c \in ClassInfos
  PROVE  LET fns == IF EmitClass(c) = <<>> THEN <<>> ELSE EmitClass(c)[1].fns
         IN Each(LAMBDA m : [name |-> m.name, returns |-> m.returns, params |-> m.params],
                 EmitJavaSource(Synth(c)))
              = Each(LAMBDA f : [name |-> f.name, returns |-> Crossing(f.returns),
                                 params |-> Each(Crossing, f.params)], fns)
  <1> DEFINE fns == IF EmitClass(c) = <<>> THEN <<>> ELSE EmitClass(c)[1].fns
             ms == Kept(Public(c.methods))
             short == ClassShortName(c.name)
             M(i) == SynthMethod(c.name, ms[i])
             W(i) == WriteWrapMethod(M(i))
             F(i) == ExternFnLine(M(i), short)
  <1>1. Public(c.methods) \in Seq(MethodInfos)
    BY PublicTyped DEF ClassInfos
  <1>2. ms \in Seq(MethodInfos) /\ \A i \in 1..Len(ms) : Bindable(ms[i])
    <2> DEFINE s == Public(c.methods)
               p == [k \in {j \in DOMAIN s : Bindable(s[j])} |-> s[k]]
               S == {m \in MethodInfos : Bindable(m)}
    <2>1. ms = InOrder(p, Len(s)) /\ Len(s) \in Nat /\ \A k \in DOMAIN p : p[k] \in S
      BY <1>1, LenProperties DEF Keep, Kept
    <2> HIDE DEF p, S, ms, s
    <2>2. ms \in Seq(S)
      BY <2>1, InOrderTyped
    <2>3. \A i \in 1..Len(ms) : ms[i] \in S
      BY <2>2, ElementOfSeq
    <2>4. ms \in Seq(MethodInfos)
      BY <2>2, SeqMonotonic DEF S
    <2> QED
      BY <2>3, <2>4 DEF S
  <1>3. Synth(c).methods = Each(LAMBDA m : SynthMethod(c.name, m), ms)
    BY <1>1, SynthParts DEF Synth
  <1> HIDE DEF ms
  <1>4. Len(ms) \in Nat /\ DOMAIN ms = 1..Len(ms)
    BY <1>2, LenProperties
  <1>5. Synth(c).methods = [i \in 1..Len(ms) |-> M(i)]
    BY <1>3, <1>4 DEF Each
  <1> HIDE DEF M
  <1>6. EmitJavaSource(Synth(c)) = [i \in 1..Len(ms) |-> W(i)]
    BY <1>5 DEF EmitJavaSource, Each
  <1>7. fns = [i \in 1..Len(ms) |-> F(i)]
    <2>1. CASE EmitClass(c) = <<>>
      <3>1. Synth(c).methods = <<>>
        BY <2>1, EmitClassSays
      <3>2. 1..Len(ms) = {}
        BY <1>4, <1>5, <3>1
      <3> HIDE DEF F
      <3> QED
        BY <2>1, <3>2
    <2>2. CASE EmitClass(c) # <<>>
      <3>1. EmitClass(c) = <<DeclOf(c)>>
        BY <2>2, EmitClassSays
      <3>2. fns = DeclOf(c).fns
        BY <2>2, <3>1
      <3>3. fns = Each(LAMBDA m : ExternFnLine(m, short), Synth(c).methods)
        BY <3>2 DEF DeclOf
      <3> QED
        BY <1>5, <3>3 DEF Each
    <2> QED
      BY <2>1, <2>2
  <1> HIDE DEF fns
  <1>8. ASSUME NEW i \in 1..Len(ms)
        PROVE  /\ W(i).name = F(i).name
               /\ W(i).returns = Crossing(F(i).returns)
               /\ W(i).params = Each(Crossing, F(i).params)
    <2>1. ms[i] \in MethodInfos /\ Bindable(ms[i])
      BY <1>2, ElementOfSeq
    <2>2. /\ ms[i].returnType \in JavaTypes /\ Crosses(ms[i].returnType)
          /\ ms[i].parameterTypes \in Seq(JavaTypes)
      BY <2>1 DEF MethodInfos, Bindable
    <2>3. \A k \in 1..Len(ms[i].parameterTypes) : Crosses(ms[i].parameterTypes[k])
      <3>1. ToSet(ms[i].parameterTypes)
              = {ms[i].parameterTypes[k] : k \in 1..Len(ms[i].parameterTypes)}
        BY <2>2, LenProperties DEF ToSet
      <3> QED
        BY <2>1, <3>1 DEF Bindable
    <2>4. JniType(MapType(ms[i].returnType)) = Crossing(MapType(ms[i].returnType).mochi)
      BY <2>2, MapTypeSays, TaggedCross
    <2>5. /\ M(i).returns = MapType(ms[i].returnType)
          /\ M(i).params = [k \in DOMAIN ms[i].parameterTypes |-> MapType(ms[i].parameterTypes[k])]
          /\ M(i).isStatic = ms[i].isStatic
      BY DEF M, SynthMethod, Each
    <2>6. W(i).name = F(i).name /\ W(i).returns = JniType(M(i).returns)
          /\ F(i).returns = M(i).returns.mochi
      BY DEF WriteWrapMethod, ExternFnLine
    <2> DEFINE ps == ms[i].parameterTypes
    <2>7. W(i).params = (IF M(i).isStatic THEN <<>> ELSE <<"long">>)
                          \o [k \in DOMAIN ps |-> JniType(MapType(ps[k]))]
      BY <2>5 DEF WriteWrapMethod, Each
    <2>8. F(i).params = (IF M(i).isStatic THEN <<>> ELSE <<<<"type", short>>>>)
                          \o [k \in DOMAIN ps |-> MapType(ps[k]).mochi]
      BY <2>5 DEF ExternFnLine, Each
    <2>9. W(i).params = Each(Crossing, F(i).params)
      <3> HIDE DEF ps, short, W, F
      <3>1. ps \in Seq(JavaTypes) /\ \A k \in 1..Len(ps) : Crosses(ps[k])
        BY <2>2, <2>3 DEF ps
      <3> QED
        BY <2>7, <2>8, <3>1, ParamsCross
    <2> QED
      BY <2>4, <2>5, <2>6, <2>9
  <1> HIDE DEF W, F
  <1>9. Each(LAMBDA m : [name |-> m.name, returns |-> m.returns, params |-> m.params],
             EmitJavaSource(Synth(c)))
          = [i \in 1..Len(ms) |-> [name |-> W(i).name, returns |-> W(i).returns, params |-> W(i).params]]
    BY <1>6 DEF Each
  <1>10. Each(LAMBDA f : [name |-> f.name, returns |-> Crossing(f.returns),
                          params |-> Each(Crossing, f.params)], fns)
          = [i \in 1..Len(ms) |-> [name |-> F(i).name, returns |-> Crossing(F(i).returns),
                                   params |-> Each(Crossing, F(i).params)]]
    BY <1>7 DEF Each
  <1>11. Each(LAMBDA m : [name |-> m.name, returns |-> m.returns, params |-> m.params],
              EmitJavaSource(Synth(c)))
           = Each(LAMBDA f : [name |-> f.name, returns |-> Crossing(f.returns),
                              params |-> Each(Crossing, f.params)], fns)
    BY <1>8, <1>9, <1>10
  <1> QED
    BY <1>11 DEF fns

\* The classes of a surface, told apart by their names.
LEMMA SurfaceFacts ==
  ASSUME surface \in Surfaces
  PROVE  /\ surface \in Seq(ClassInfos) /\ Len(surface) \in Nat /\ DOMAIN surface = 1..Len(surface)
         /\ \A i \in 1..Len(surface) : surface[i] \in ClassInfos
         /\ \A i, j \in 1..Len(surface) : surface[i].name = surface[j].name => i = j
  <1>1. surface \in Seq(ClassInfos)
          /\ \A i, j \in DOMAIN surface : surface[i].name = surface[j].name => i = j
    BY SurfacesAssumption
  <1>2. Len(surface) \in Nat /\ DOMAIN surface = 1..Len(surface)
          /\ \A i \in 1..Len(surface) : surface[i] \in ClassInfos
    BY <1>1, LenProperties, ElementOfSeq
  <1> QED
    BY <1>1, <1>2

DeclsNamed(n) == {d \in Decls : d.of = n}
ReportsNamed(n) == {r \in SkipReports : r.class = n}

\* The declarations and the reports of a class are those in a set.
LEMMA KeepByName ==
  /\ \A s \in Seq(Decls) : \A n : DeclsOf(s, n) = KeepIn(s, DeclsNamed(n))
  /\ \A s \in Seq(SkipReports) : \A n : ReportsOf(s, n) = KeepIn(s, ReportsNamed(n))
  <1>1. ASSUME NEW s \in Seq(Decls), NEW n
        PROVE  DeclsOf(s, n) = KeepIn(s, DeclsNamed(n))
    <2>1. \A k \in DOMAIN s : s[k] \in Decls
      BY LenProperties
    <2>2. {k \in DOMAIN s : s[k].of = n} = {k \in DOMAIN s : s[k] \in DeclsNamed(n)}
      BY <2>1 DEF DeclsNamed
    <2> QED
      BY <2>2, Zenon DEF Keep, KeepIn, DeclsOf, ReportsOf
  <1>2. ASSUME NEW s \in Seq(SkipReports), NEW n
        PROVE  ReportsOf(s, n) = KeepIn(s, ReportsNamed(n))
    <2>1. \A k \in DOMAIN s : s[k] \in SkipReports
      BY LenProperties
    <2>2. {k \in DOMAIN s : s[k].class = n} = {k \in DOMAIN s : s[k] \in ReportsNamed(n)}
      BY <2>1 DEF ReportsNamed
    <2> QED
      BY <2>2, Zenon DEF Keep, KeepIn, DeclsOf, ReportsOf
  <1> QED
    BY <1>1, <1>2

\* The loop of EmitShimMochi, one class at a time.
LEMMA ShimUnfolds ==
  ASSUME Len(surface) \in Nat
  PROVE  \E v : /\ EmitShimMochi = v[Len(surface)] /\ v[0] = <<>>
                /\ \A i \in 0..(Len(surface) - 1) : v[i + 1] = v[i] \o EmitClass(surface[i + 1])
  <1> DEFINE n == Len(surface)
             v == CHOOSE w : Declaring!IsLoop(w, surface, <<>>, n)
  <1>1. Declaring!IsLoop(v, surface, <<>>, n)
    BY Declaring!LoopExists
  <1>2. EmitShimMochi = v[n]
    BY DEF EmitShimMochi, Declaring!IsLoop
  <1> HIDE DEF v
  <1>3. v = [i \in 0..n |-> IF i = 0 THEN <<>> ELSE AddExterns(surface, v[i - 1], i)]
    BY <1>1 DEF Declaring!IsLoop
  <1>4. v[0] = <<>>
    BY <1>3
  <1>5. ASSUME NEW i \in 0..(n - 1)
        PROVE  v[i + 1] = v[i] \o EmitClass(surface[i + 1])
    <2>1. i + 1 \in 0..n /\ i + 1 # 0 /\ (i + 1) - 1 = i
      OBVIOUS
    <2>2. v[i + 1] = IF i + 1 = 0 THEN <<>> ELSE AddExterns(surface, v[(i + 1) - 1], i + 1)
      BY <1>3, <2>1, Zenon
    <2> QED
      BY <2>1, <2>2 DEF AddExterns
  <1> QED
    BY <1>2, <1>4, <1>5

\* A class is declared in the shim as it is declared by itself.
LEMMA ShimByClass ==
  ASSUME surface \in Surfaces, NEW i \in 1..Len(surface)
  PROVE  DeclsOf(EmitShimMochi, surface[i].name) = EmitClass(surface[i])
  <1> DEFINE n == Len(surface)
             K == DeclsNamed(surface[i].name)
             E(k) == EmitClass(surface[k])
  <1>1. /\ n \in Nat /\ \A k \in 1..n : surface[k] \in ClassInfos
        /\ \A j, k \in 1..n : surface[j].name = surface[k].name => j = k
    BY SurfaceFacts
  <1>2. PICK v : /\ EmitShimMochi = v[n] /\ v[0] = <<>>
                 /\ \A k \in 0..(n - 1) : v[k + 1] = v[k] \o E(k + 1)
    BY <1>1, ShimUnfolds
  <1>3. ASSUME NEW k \in 1..n
        PROVE  /\ E(k) \in Seq(Decls)
               /\ k = i => \A x \in 1..Len(E(k)) : E(k)[x] \in K
               /\ k # i => \A x \in 1..Len(E(k)) : E(k)[x] \notin K
    <2>1. surface[k] \in ClassInfos /\ surface[i] \in ClassInfos
          /\ (surface[k].name = surface[i].name <=> k = i)
      BY <1>1
    <2>2. E(k) \in Seq(Decls) /\ \A x \in 1..Len(E(k)) : E(k)[x].of = surface[k].name
      BY <2>1, EmitClassSays
    <2> HIDE DEF E
    <2>3. \A x \in 1..Len(E(k)) : E(k)[x] \in Decls
      BY <2>2, ElementOfSeq
    <2> QED
      BY <2>1, <2>2, <2>3 DEF DeclsNamed
  <1> HIDE DEF n, E, K
  <1> DEFINE T == {k \in 0..n : /\ v[k] \in Seq(Decls)
                                /\ KeepIn(v[k], K) = IF i <= k THEN E(i) ELSE <<>>}
  <1>4. 0 \in T
    <2>1. <<>> \in Seq(Decls) /\ KeepIn(<<>>, K) = <<>> /\ ~(i <= 0) /\ 0 \in 0..n
      BY <1>1, KeepInEmpty
    <2> QED
      BY <1>2, <2>1
  <1>5. ASSUME NEW k \in 0..(n - 1), k \in T
        PROVE  k + 1 \in T
    <2>1. k + 1 \in 1..n /\ k + 1 \in 0..n
      BY <1>1
    <2>2. v[k + 1] = v[k] \o E(k + 1)
      BY <1>2
    <2>3. v[k] \in Seq(Decls) /\ KeepIn(v[k], K) = IF i <= k THEN E(i) ELSE <<>>
      BY <1>5
    <2>4. E(k + 1) \in Seq(Decls)
      BY <1>3, <2>1
    <2>5. v[k + 1] \in Seq(Decls)
      BY <2>2, <2>3, <2>4, ConcatProperties
    <2>6. CASE k + 1 = i
      <3>1. \A x \in 1..Len(E(k + 1)) : E(k + 1)[x] \in K
        BY <1>3, <2>1, <2>6
      <3>2. KeepIn(v[k] \o E(k + 1), K) = KeepIn(v[k], K) \o E(k + 1)
        BY <2>3, <2>4, <3>1, KeepInAll
      <3>3. KeepIn(v[k], K) = <<>>
        BY <2>3, <2>6
      <3>4. <<>> \o E(k + 1) = E(k + 1)
        BY <2>4, ConcatEmptySeq
      <3>5. KeepIn(v[k + 1], K) = E(i) /\ i <= k + 1
        BY <2>2, <2>6, <3>2, <3>3, <3>4
      <3> QED
        BY <2>1, <2>5, <3>5
    <2>7. CASE k + 1 # i
      <3>1. \A x \in 1..Len(E(k + 1)) : E(k + 1)[x] \notin K
        BY <1>3, <2>1, <2>7
      <3>2. KeepIn(v[k] \o E(k + 1), K) = KeepIn(v[k], K)
        BY <2>3, <2>4, <3>1, KeepInNone
      <3>3. i <= k <=> i <= k + 1
        BY <2>7 DEF n
      <3>4. KeepIn(v[k + 1], K) = IF i <= k + 1 THEN E(i) ELSE <<>>
        BY <2>2, <2>3, <3>2, <3>3
      <3> QED
        BY <2>1, <2>5, <3>4
    <2> QED
      BY <2>6, <2>7
  <1> HIDE DEF T
  <1>6. n \in T
    <2>1. 0..n \subseteq T
      BY <1>1, <1>4, <1>5, ClimbTo
    <2> QED
      BY <1>1, <2>1
  <1>7. EmitShimMochi \in Seq(Decls) /\ KeepIn(EmitShimMochi, K) = E(i)
    BY <1>2, <1>6 DEF T, n
  <1> QED
    BY <1>7, KeepByName DEF K, E

\* A report of one class leaves what is told of the others.
LEMMA ReportsByClass ==
  ASSUME NEW rs \in Seq(SkipReports), NEW c \in ClassInfos, NEW n
  PROVE  /\ rs \o CollectSkips(c) \in Seq(SkipReports)
         /\ ReportsOf(rs \o CollectSkips(c), n)
              = IF n = c.name THEN ReportsOf(rs, n) \o CollectSkips(c)
                ELSE ReportsOf(rs, n)
  <1> DEFINE t == CollectSkips(c)
             K == ReportsNamed(n)
  <1>1. t \in Seq(SkipReports) /\ \A i \in 1..Len(t) : t[i].class = c.name
    BY CollectSkipsSays
  <1> HIDE DEF t
  <1>2. \A i \in 1..Len(t) : t[i] \in K <=> n = c.name
    <2>1. \A i \in 1..Len(t) : t[i] \in SkipReports
      BY <1>1, ElementOfSeq
    <2> QED
      BY <1>1, <2>1 DEF ReportsNamed
  <1>3. rs \o t \in Seq(SkipReports)
    BY <1>1, ConcatProperties
  <1> HIDE DEF K
  <1>4. /\ ReportsOf(rs \o t, n) = KeepIn(rs \o t, K)
        /\ ReportsOf(rs, n) = KeepIn(rs, K)
    BY <1>3, KeepByName DEF K
  <1>5. CASE n = c.name
    <2>1. \A i \in 1..Len(t) : t[i] \in K
      BY <1>2, <1>5
    <2>2. KeepIn(rs \o t, K) = KeepIn(rs, K) \o t
      BY <1>1, <2>1, KeepInAll
    <2> QED
      BY <1>3, <1>4, <1>5, <2>2 DEF t
  <1>6. CASE n # c.name
    <2>1. \A i \in 1..Len(t) : t[i] \notin K
      BY <1>2, <1>6
    <2>2. KeepIn(rs \o t, K) = KeepIn(rs, K)
      BY <1>1, <2>1, KeepInNone
    <2> QED
      BY <1>3, <1>4, <1>6, <2>2 DEF t
  <1> QED
    BY <1>5, <1>6

(***************************************************************************)
(* The invariant.                                                           *)
(***************************************************************************)
LEMMA InitSynthesisInv == SynthesisInit => SynthesisInv
  <1> SUFFICES ASSUME SynthesisInit PROVE SynthesisInv
    OBVIOUS
  <1>1. surface \in Surfaces /\ files = <<>> /\ report = <<>> /\ pos = 1
        /\ step = IF surface = <<>> THEN "shim" ELSE "wrap"
    BY DEF SynthesisInit
  <1>2. Len(surface) \in Nat /\ (surface # <<>> => Len(surface) >= 1)
        /\ (surface = <<>> => Len(surface) = 0) /\ DOMAIN surface = 1..Len(surface)
    BY <1>1, SurfaceFacts, EmptySeq
  <1>3. step \in {"wrap", "shim"} /\ (step = "wrap" => pos \in 1..Len(surface))
    BY <1>1, <1>2
  <1>4. Wrapped = 0 /\ Reported = 0
    BY <1>1, <1>2 DEF Wrapped, Reported
  <1>5. WrappersAreOwn
    BY <1>4 DEF WrappersAreOwn
  <1>6. report \in Seq(SkipReports)
    BY <1>1
  <1>7. \A n : ReportsOf(report, n) = <<>>
    BY <1>1, <1>6, KeepByName, KeepInEmpty
  <1>8. ReportsAreOwn
    BY <1>2, <1>4, <1>7 DEF ReportsAreOwn
  <1> QED
    BY <1>1, <1>3, <1>5, <1>6, <1>8 DEF SynthesisInv

LEMMA WrapClassKeeps == SynthesisInv /\ WrapClass => SynthesisInv'
  <1> SUFFICES ASSUME SynthesisInv, WrapClass PROVE SynthesisInv'
    OBVIOUS
  <1> DEFINE ident(i) == WrapClassName(surface[i].name)
             text(i) == EmitJavaSource(Synth(surface[i]))
             n == Len(surface)
  <1>1. /\ surface \in Surfaces /\ n \in Nat /\ step = "wrap" /\ pos \in 1..n
        /\ report \in Seq(SkipReports) /\ ReportsAreOwn
    BY SurfaceFacts DEF SynthesisInv, WrapClass
  <1>2. /\ UNCHANGED <<surface, report, shim>>
        /\ files' = [f \in DOMAIN files \cup {ident(pos)} |->
                      IF f = ident(pos) THEN text(pos) ELSE files[f]]
    BY DEF WrapClass, Synth
  <1>3. IF pos < n THEN pos' = pos + 1 /\ step' = "wrap" ELSE pos' = 1 /\ step' = "report"
    BY <1>1 DEF WrapClass, Past
  <1>4. Wrapped = pos - 1 /\ Wrapped' = pos /\ Reported = 0 /\ Reported' = 0
    BY <1>1, <1>2, <1>3 DEF Wrapped, Reported
  <1>5. step' \in {"wrap", "report"} /\ pos' \in 1..n
    BY <1>1, <1>3
  <1>6. WrappersAreOwn'
    <2> SUFFICES ASSUME NEW i \in 1..pos, \A j \in (i + 1)..pos : ident(j) # ident(i)
                 PROVE  ident(i) \in DOMAIN files' /\ files'[ident(i)] = text(i)
      BY <1>2, <1>4 DEF WrappersAreOwn, FileOf
    <2>1. CASE i = pos
      BY <1>2, <2>1
    <2>2. CASE i # pos
      <3>1. i \in 1..(pos - 1) /\ pos \in (i + 1)..pos
        BY <1>1, <2>2
      <3>2. ident(pos) # ident(i)
        BY <3>1
      <3>3. \A j \in (i + 1)..(pos - 1) : ident(j) # ident(i)
        BY <1>1
      <3>4. ident(i) \in DOMAIN files /\ files[ident(i)] = text(i)
        BY <1>4, <3>1, <3>3 DEF SynthesisInv, WrappersAreOwn, FileOf
      <3> HIDE DEF ident, text
      <3> QED
        BY <1>2, <3>2, <3>4
    <2> QED
      BY <2>1, <2>2
  <1>7. ReportsAreOwn'
    BY <1>1, <1>2, <1>4 DEF ReportsAreOwn
  <1> QED
    BY <1>1, <1>2, <1>5, <1>6, <1>7 DEF SynthesisInv

LEMMA ReportSkipsKeeps == SynthesisInv /\ ReportSkips => SynthesisInv'
  <1> SUFFICES ASSUME SynthesisInv, ReportSkips PROVE SynthesisInv'
    OBVIOUS
  <1> DEFINE n == Len(surface)
             c == surface[pos]
             Of(rs, i) == ReportsOf(rs, surface[i].name)
  <1>1. /\ surface \in Surfaces /\ step = "report" /\ pos \in 1..n
        /\ report \in Seq(SkipReports) /\ WrappersAreOwn /\ ReportsAreOwn
    BY DEF SynthesisInv, ReportSkips
  <1>2. UNCHANGED <<surface, files, shim>> /\ report' = report \o CollectSkips(c)
    BY DEF ReportSkips
  <1>3. IF pos < n THEN pos' = pos + 1 /\ step' = "report" ELSE pos' = 1 /\ step' = "shim"
    BY <1>1 DEF ReportSkips, Past
  <1>4. /\ n \in Nat /\ DOMAIN surface = 1..n /\ c \in ClassInfos
        /\ \A i, j \in 1..n : surface[i].name = surface[j].name => i = j
    BY <1>1, SurfaceFacts
  <1>5. Wrapped = n /\ Wrapped' = n /\ Reported = pos - 1 /\ Reported' = pos
    BY <1>1, <1>2, <1>3, <1>4 DEF Wrapped, Reported
  <1>6. WrappersAreOwn'
    BY <1>1, <1>2, <1>5 DEF WrappersAreOwn, FileOf
  <1>7. report' \in Seq(SkipReports)
    BY <1>1, <1>2, <1>4, ReportsByClass
  <1>8. ASSUME NEW i \in 1..n
        PROVE  Of(report', i) = IF i <= pos THEN CollectSkips(surface[i]) ELSE <<>>
    <2>1. Of(report, i) = IF i <= pos - 1 THEN CollectSkips(surface[i]) ELSE <<>>
      BY <1>1, <1>4, <1>5 DEF ReportsAreOwn
    <2>2. Of(report \o CollectSkips(c), i)
            = IF surface[i].name = c.name THEN Of(report, i) \o CollectSkips(c) ELSE Of(report, i)
      BY <1>1, <1>4, ReportsByClass
    <2>3. CollectSkips(c) \in Seq(SkipReports)
      BY <1>4, CollectSkipsSays
    <2>4. surface[i].name = c.name <=> i = pos
      BY <1>1, <1>4
    <2>5. CASE i = pos
      <3>1. Of(report, i) = <<>>
        BY <1>4, <2>1, <2>5
      <3>2. <<>> \o CollectSkips(c) = CollectSkips(c)
        BY <2>3, ConcatEmptySeq
      <3> HIDE DEF Of
      <3> QED
        BY <1>2, <1>4, <2>2, <2>4, <2>5, <3>1, <3>2
    <2>6. CASE i # pos
      <3>1. i <= pos - 1 <=> i <= pos
        BY <1>1, <1>4, <2>6
      <3> HIDE DEF Of
      <3> QED
        BY <1>2, <2>1, <2>2, <2>4, <2>6, <3>1
    <2> QED
      BY <2>5, <2>6
  <1>9. ReportsAreOwn'
    BY <1>2, <1>4, <1>5, <1>8 DEF ReportsAreOwn
  <1>10. step' \in {"report", "shim"} /\ (step' = "report" => pos' \in 1..n)
    BY <1>1, <1>3, <1>4
  <1> QED
    BY <1>1, <1>2, <1>6, <1>7, <1>9, <1>10 DEF SynthesisInv

LEMMA WriteShimKeeps == SynthesisInv /\ WriteShim => SynthesisInv'
  <1> SUFFICES ASSUME SynthesisInv, WriteShim PROVE SynthesisInv'
    OBVIOUS
  <1>1. /\ surface \in Surfaces /\ step = "shim" /\ step' = "done"
        /\ report \in Seq(SkipReports) /\ WrappersAreOwn /\ ReportsAreOwn
        /\ shim' = EmitShimMochi /\ UNCHANGED <<surface, pos, files, report>>
    BY DEF SynthesisInv, WriteShim
  <1>2. Wrapped' = Wrapped /\ Reported' = Reported
    BY <1>1 DEF Wrapped, Reported
  <1>3. WrappersAreOwn'
    BY <1>1, <1>2 DEF WrappersAreOwn, FileOf
  <1>4. ReportsAreOwn'
    BY <1>1, <1>2 DEF ReportsAreOwn
  <1>5. shim' = EmitShimMochi'
    BY <1>1 DEF EmitShimMochi
  <1> QED
    BY <1>1, <1>3, <1>4, <1>5 DEF SynthesisInv

LEMMA SynthesisInvHolds == SynthesisSpec => []SynthesisInv
  <1>1. SynthesisInv /\ [SynthesisNext]_synthesisVars => SynthesisInv'
    <2> SUFFICES ASSUME SynthesisInv, [SynthesisNext]_synthesisVars PROVE SynthesisInv'
      OBVIOUS
    <2>1. CASE SynthesisNext
      BY <2>1, WrapClassKeeps, ReportSkipsKeeps, WriteShimKeeps DEF SynthesisNext
    <2>2. CASE UNCHANGED synthesisVars
      BY <2>2 DEF synthesisVars, SynthesisInv, WrappersAreOwn, ReportsAreOwn, Wrapped, Reported,
                  FileOf, EmitShimMochi
    <2> QED
      BY <2>1, <2>2
  <1> QED
    BY <1>1, InitSynthesisInv, PTL DEF SynthesisSpec

\* When all is done, a class that has its file has it from itself.
LEMMA DoneFacts ==
  ASSUME SynthesisInv, step = "done", NEW i \in DOMAIN surface
  PROVE  /\ surface[i] \in ClassInfos
         /\ HasFile(i) => FileOf(i) = EmitJavaSource(Synth(surface[i]))
         /\ ReportsOf(report, surface[i].name) = CollectSkips(surface[i])
         /\ DeclsOf(shim, surface[i].name) = EmitClass(surface[i])
  <1> DEFINE n == Len(surface)
             ident(j) == WrapClassName(surface[j].name)
  <1>1. surface \in Surfaces /\ WrappersAreOwn /\ ReportsAreOwn /\ shim = EmitShimMochi
    BY DEF SynthesisInv
  <1>2. n \in Nat /\ i \in 1..n /\ DOMAIN surface = 1..n /\ surface[i] \in ClassInfos
    BY <1>1, SurfaceFacts
  <1>3. Wrapped = n /\ Reported = n
    BY DEF Wrapped, Reported
  <1>4. ASSUME HasFile(i)
        PROVE  FileOf(i) = EmitJavaSource(Synth(surface[i]))
    <2>1. \A j \in (i + 1)..n : ident(j) # ident(i)
      BY <1>2, <1>4 DEF HasFile
    <2> QED
      BY <1>1, <1>2, <1>3, <2>1 DEF WrappersAreOwn
  <1>5. ReportsOf(report, surface[i].name) = CollectSkips(surface[i])
    BY <1>1, <1>2, <1>3 DEF ReportsAreOwn
  <1>6. DeclsOf(shim, surface[i].name) = EmitClass(surface[i])
    BY <1>1, <1>2, ShimByClass
  <1> QED
    BY <1>2, <1>4, <1>5, <1>6

\* Synth, EmitJavaSource, CollectSkips: of every surface, every public method of
\* every class is in the class's wrapper once, in order, or in the skip report,
\* with a reason.
THEOREM MethodsAreAccountedFor == SynthesisSpec => []EveryMethodIsAccountedFor
  <1>1. SynthesisInv => EveryMethodIsAccountedFor
    <2> SUFFICES ASSUME SynthesisInv, step = "done"
                 PROVE  EveryMethodIsAccountedFor
      BY DEF EveryMethodIsAccountedFor
    <2>1. \A i \in DOMAIN report : report[i].reason # "SkipUnknown"
      <3>1. report \in Seq(SkipReports)
        BY DEF SynthesisInv
      <3>2. \A i \in DOMAIN report : report[i] \in SkipReports
        BY <3>1, LenProperties
      <3>3. \A i \in DOMAIN report : report[i].reason \in Reasons
        BY <3>2 DEF SkipReports
      <3> QED
        BY <3>3 DEF Reasons
    <2>2. ASSUME NEW i \in DOMAIN surface, HasFile(i)
          PROVE  Each(LAMBDA m : m.origName, FileOf(i))
                   = Each(LAMBDA m : m.name, Keep(Public(surface[i].methods), Bindable))
      <3>1. surface[i] \in ClassInfos /\ FileOf(i) = EmitJavaSource(Synth(surface[i]))
        BY <2>2, DoneFacts
      <3>2. Each(LAMBDA m : m.origName, EmitJavaSource(Synth(surface[i])))
              = Each(LAMBDA m : m.name, Kept(Public(surface[i].methods)))
        BY <3>1, WrappersByName
      <3> QED
        BY <3>1, <3>2 DEF Kept
    <2>3. ASSUME NEW i \in DOMAIN surface
          PROVE  IsPrefix(Each(LAMBDA m : m.name,
                               Keep(Public(surface[i].methods), LAMBDA m : ~Bindable(m))),
                          Each(LAMBDA r : r.name, ReportsOf(report, surface[i].name)))
      <3>1. surface[i] \in ClassInfos
            /\ ReportsOf(report, surface[i].name) = CollectSkips(surface[i])
        BY DoneFacts
      <3>2. IsPrefix(Each(LAMBDA m : m.name, Lost(Public(surface[i].methods))),
                     Each(LAMBDA r : r.name, CollectSkips(surface[i])))
        BY <3>1, CollectSkipsSays
      <3> QED
        BY <3>1, <3>2 DEF Lost
    <2> QED
      BY <2>1, <2>2, <2>3 DEF EveryMethodIsAccountedFor
  <1> QED
    BY <1>1, SynthesisInvHolds, PTL

\* EmitShimMochi, EmitJavaSource, typemap: of every surface, the shim declares what
\* the wrappers have, with as many parameters, each of a type that crosses JNI as
\* the wrapper's does.
THEOREM ShimMatchesWrappers == SynthesisSpec => []ShimIsBacked
  <1>1. SynthesisInv => ShimIsBacked
    <2> SUFFICES ASSUME SynthesisInv, step = "done", NEW i \in DOMAIN surface, HasFile(i)
                 PROVE  LET decls == DeclsOf(shim, surface[i].name)
                            fns == IF decls = <<>> THEN <<>> ELSE decls[1].fns
                        IN /\ Len(decls) <= 1
                           /\ Each(LAMBDA m : [name |-> m.name, returns |-> m.returns,
                                               params |-> m.params], FileOf(i))
                                = Each(LAMBDA f : [name |-> f.name, returns |-> Crossing(f.returns),
                                                   params |-> Each(Crossing, f.params)], fns)
      BY DEF ShimIsBacked
    <2>1. /\ surface[i] \in ClassInfos /\ FileOf(i) = EmitJavaSource(Synth(surface[i]))
          /\ DeclsOf(shim, surface[i].name) = EmitClass(surface[i])
      BY DoneFacts
    <2>2. Len(EmitClass(surface[i])) <= 1
      BY <2>1, EmitClassSays
    <2>3. LET fns == IF EmitClass(surface[i]) = <<>> THEN <<>> ELSE EmitClass(surface[i])[1].fns
          IN Each(LAMBDA m : [name |-> m.name, returns |-> m.returns, params |-> m.params],
                  EmitJavaSource(Synth(surface[i])))
               = Each(LAMBDA f : [name |-> f.name, returns |-> Crossing(f.returns),
                                  params |-> Each(Crossing, f.params)], fns)
      BY <2>1, ClassIsBacked
    <2> QED
      BY <2>1, <2>2, <2>3
  <1> QED
    BY <1>1, SynthesisInvHolds, PTL
=============================================================================
