# A verification development of Mochi's JVM back end

The repository compiles typed Mochi programs (the `aotir` intermediate
representation) to Java source, links them with a small Java runtime
(`dev.mochi.runtime`), imports Java libraries from Maven Central through
generated JNI wrappers, and publishes Mochi packages to the Central Portal.
This directory holds TLA+ models of the parts of it that keep state across
concurrent steps, failures or long sequences of calls, and of the parts whose
passes must agree (verifier and lowering, wrappers and their declarations); the
TLC runs that check them on small instances; and TLAPS proofs about all of them:
every safety property of a run is a theorem except the two that compare
`Compiled` with `Verifier` and `Meaning`, and of the first of these the part about
expressions is one.

Every definition that stands for code names it in `PROJECT.json` (`map`), with
the file and the lines.  Operators with a comment "Wrong on purpose" belong to
no specification: each is a plausible bug in one mapped operator, and replacing
the operator by it makes the property it is listed with (`mutants`) fail.

## 1. Inventory

| Component | Source | State | Operations | Interacts with |
|---|---|---|---|---|
| agents | `transpiler/lower/agent.go` (the class it generates) | `$$mailbox`, the loop thread, `State`, the reply futures | spawn, void and value intents, `stop()`, the dispatch loop | Async (callers are fibres; `cancel()` interrupts them) |
| async tasks | `runtime/async/Async.java`, `lower/async.go` | a virtual thread and a `CompletableFuture` per task | `run`, `await`, `runAll`, `runAny`, `cancel` | everything that blocks a fibre |
| channels | `lower/stream.go`, `runtime/stream/ChanUtil.java` | a `LinkedBlockingQueue` | send, receive, make | Async (interrupts) |
| streams | `lower/stream.go`, `runtime/stream/MochiStream.java`, `MochiSub.java` | the publisher and its buffers, a queue per handle | `subscribe`, `emit`, `recv`, `close`, `onNext`, `onComplete`, `onError` | the JDK's `SubmissionPublisher` |
| JNI futures | `jni/future.go`, `wrapper/future.go` | the callback registry: handle → callback | `Register`, `Unregister`, `Invoke`, the bridge | pool threads of the JVM |
| JAR cache | `maven/cache.go` | a content-addressed directory shared by processes | `Put`, `Get`, `Path`, `Has` | Pipeline |
| Maven client | `maven/client.go`, `coord.go`, `entry.go` | none | `FetchJAR`, `FetchPOM`, `FetchChecksum`, coordinate parsing | Maven Central; called by Pipeline |
| pipeline, driver | `build/pipeline.go`, `driver.go`, `javac.go` | `Options.WorkDir`, the work directory | `PrepareWorkspace`, `Cleanup`, `Run` | Maven client, JAR cache, reflection, wrapper synthesis, `javac` |
| bundle | `publish/bundle.go` | the ZIP at its path | `BuildBundle`, `DryRun` | artifacts on disk |
| Central Portal client | `publish/central.go` | none beyond the request in flight | `Upload`, `PollUntilPublished` | the portal |
| Datalog evaluator | `lower/datalog.go` | relations, the bindings of a join | `datalogEval`, `deriveRule`, `collectQuery` | run at compile time by expression lowering |
| lock file | `lock/lock.go` | the file's lines; Decode's current package | `Encode`, `Decode`, `Check` | the resolver |
| IR and verifier | `transpiler/aotir/*.go` | scopes, the function in progress | `Verify`, one case per kind of statement and expression | runs before lowering |
| lowering | `transpiler/lower/{lower,stmt,expr,decl,match,query,closure,types}.go` | the class under construction, counters for fresh names | one method per IR node | Java source model |
| external calls | `lower/{ffi,fetch,llm}.go` | none | one method per IR node | runtime helpers |
| Java source model, emit | `transpiler/javasrc`, `transpiler/emit`, `transpiler/classfile` | none | printing, running `javac`, hot classes | — |
| runtime helpers | `runtime/{coll,io,ai,math,str,error}` | none (recorded LLM answers are read from files) | list, map, string, arithmetic, I/O helpers | generated code |
| type mapping | `typemap/*.go` | none | Java type → Mochi type or a reason to skip | reflection, wrapper synthesis |
| reflection | `reflect/*.go`, `reflect/java` | none | run the reflect tool, parse its JSON | Pipeline |
| wrapper synthesis | `wrapper/*.go`, `emit/*.go` | sets of names already given out | name overloads, emit Java and extern files | Pipeline |
| JNI runtime | `jni/jni.go` and stubs | the JVM, global references | start a JVM, find classes and methods | JNI futures |
| workspace, library target | `build/workspace.go`, `pom.go`, `target_java_library.go` | none | write POM and sources, run Maven | `mvn` |
| attestation | `publish/sigstore.go` | none | sign a digest | — |
| errors | `errors/errors.go` | none | wrap errors with a code | all |

What is hard here, and what makes each component correct:

* **Agents.**  Any number of fibres share a handle; a caller may be interrupted
  while its request stays queued; the arm of an intent goes on after its reply;
  `stop()` is a message among others.  Correct means: calls are linearizable in
  mailbox order, nothing is served after Stop, a joined agent is quiet, nobody
  waits for good who need not.
* **Async.**  `cancel()` is two steps; `await()` sets the interrupt flag again;
  `runAny` leaves helper threads behind.  Correct means: `cancel()` tells the truth,
  combinators report about their own futures, waits end.
* **Channels and streams.**  Values must not be lost, repeated or reordered
  except where the code says so (an interrupted send, a handle with a limit).
* **JNI futures.**  Registration, completion and giving up race; a callback must
  get its own value, once.
* **JAR cache.**  Processes share the directory and die in the middle of `Put`;
  a name must never show a torn file.
* **Pipeline.**  Responses are cut short; file names of different artifacts
  coincide; the wrapper directory is not new.
* **Publishing.**  The bundle is written in place, while artifacts may change;
  the portal's answers are lost or late.
* **Verifier and lowering.**  Two walks over one tree that must agree: what the
  verifier accepts, the emitted Java must be able to run, and it must do what the
  program means through nested scopes, loops, panics and calls.
* **Datalog, lock file.**  Long sequences of small steps over shared data whose
  result must equal what the text of the program or of the file means.

The hazards are listed one by one, at their lines, in `PROJECT.json`
(`hazards`), with the properties that cover them or the reason why none does.

## 2. Modules and the code

| Module | Models | Checked by | Proved in |
|---|---|---|---|
| `Agent` | the class `lowerAgentDecl` generates, its callers and their interrupts | run `agent` | `AgentProofs` |
| `AgentService` | what a handle promises (abstract) | refined by `AgentRefinement` in run `agent` | `AgentProofs` |
| `Async` | `Async.java` and its use by lowered `async`/`await` | run `concurrency` | `FuturesProofs` |
| `FutureRuntime` | the registry, the bridge and the Java future | run `concurrency` | `FuturesProofs` |
| `Channel` | `chan<T>` | run `concurrency` | `ChannelProofs` |
| `Stream` | `stream<T>`, `sub<T>` | runs `concurrency`, `streams_end` | `ChannelProofs` |
| `JarCache` | `maven/cache.go` with kills and power loss | run `import` | `ImportProofs` |
| `CacheStore` | what the cache promises (abstract) | refined by `JarCache` in run `import` | `ImportProofs` |
| `Pipeline` | `Driver` and `Pipeline.Run`, with the client and the cache as `CacheStore` promises it | run `import` | `ImportProofs` |
| `Synthesis` | `typemap`, `wrapper` and `emit`: from a reflected surface to wrappers, shim and skip report | runs `import`, `wrapper_casts` | `ImportProofs` |
| `Bundle`, `Deployment` | `BuildBundle`, `DryRun`; `Upload`, `PollUntilPublished` | run `release` | `ReleaseProofs` |
| `Lock` | `Encode`, `Decode`, `Check` | runs `release`, `lock_current`, `lock_inverse` | `ReleaseProofs` |
| `Program` | the nodes of `aotir/program.go` and the types of `types.go` | (data of the next four) | |
| `Verifier` | `aotir/verifier.go` on these nodes | run `compile` | `CompilerProofs` (expressions) |
| `Evaluation` | `lower/expr.go`, `lower/query.go` with `ListUtil`, `MapUtil`, `IntMath`: what an emitted expression computes | run `compile` | `CompilerProofs` |
| `Typing` | — (what a shape says of values and heaps: the terms of the theorem about expressions) | | `CompilerProofs` |
| `Meaning` | what a program means by the comments of `program.go` (reference) | run `compile` | |
| `Compiled` | `Verify`, then the Java of `lower/{lower,stmt,match,closure}.go` run step by step | runs `compile`, `append_aliases`, `break_in_match` | |
| `Datalog` | `datalogEval` and what it calls | runs `compile`, `datalog_negation` | `CompilerProofs` |
| `DataLemmas`, `Loops` | — (facts about queues, induction, finite images; loops as recursive functions) | | themselves |

`MC*` modules give the constants small values.

**Agent.**  `loop[a]` is where the agent's virtual thread is: in
`$$mailbox.take()`, in an arm (`run`), ended by `Stop` (`stopped`) or by a
`return` or an exception (`killed`).  An arm is a set of *paths*, a path the
sequence of the statements that matter: an assignment to the state, `return e`
(which `lowerIntentReturn` turns into `$$reply.complete(e)` and nothing else, so
that the arm goes on), a bare return, a throw.  The state object is abstracted to the set
of messages that have assigned to it: a reply that carries this set shows which
updates its caller has seen.  `Offer` is shared by void intents, value intents
and `stop()`; `Reply`, `AwaitInterrupted`, `JoinReturns` and `JoinInterrupted` are
the ways a blocked caller goes on.  `served`, `joined` and the numbers on
messages are history.

**Async.**  A task's body is the sequence of waits it performs; the value of a
task is the task itself, which is enough to tell whose value a wait returned.
`Get` is one `cf.get()` inside `await` or `runAll`, `Help` a helper thread of
`runAny`; `CancelInterrupts` and `CancelCompletes` are the two statements of
`cancel()`; the answer of the second, and what each wait has got, stay in `result`.

**Channel, Stream.**  A blocked `put` or `take` is a thread with `at = "in"`.
`Val(s)` numbers the sends of a thread, so that a value is told by who sent it
and when.  The `SubmissionPublisher` is external: a bounded buffer per
subscriber filled under one lock (`Emit`, `Submit`) and drained by one task per
subscriber (`OnSubscribe`, `OnNext`, `OnComplete`, whose bodies are the code's).

**FutureRuntime.**  `TakeId` and `StoreEntry` are the two halves of `Register`,
`InvokeTakes`/`InvokeMisses` the critical section of `Invoke`, `Dispatch` its
`go cb(result)`; the future and the pool thread are external.  A future that is
`due` waits in the pool's queue for its completion (`Fulfil`, `Reject`), which the one
thread gets to when it is idle: while it runs a stage, and `Invoke` in it, it is not.

**JarCache.**  `put[p].at` is the statement `Put` has reached; `Fails` is an
error return with its deferred calls, `Kill` the end of the process, `PowerLoss`
the end of the machine: unsynced data and directory entries may go, and where a
rename goes the temporary name may be back, so that of the files made before the
last loss (`lastLoss`) any may lie there under it.  A file's
content is the key it hashes to and how many blocks are written and synced.

**Pipeline.**  A JAR is the coordinate it was published as, or `Damaged`.
`JARFilename` and `WrapperDir` keep what the code's names keep of a coordinate:
artifact and version, or group and artifact.  A directory that `javaFilesInDir`
cannot read counts as empty, as in the code: the run is done with nothing compiled
(`unread`).

**Synthesis.**  A name is the sequence of its parts and separators, because
identifiers are made from it by replacing `.` and `$`; a Java type is its base
name and its arguments.  `MapType` is `typemap.Map`: its tables are sets of rows,
and `Maps`, a recursive function on the types of the instance (`JavaTypes`), stands
for the calls of `Map` on the arguments of a generic type.
`Synth` gathers the methods of one class; `EmitJavaSource`, `EmitShimMochi` and
`CollectSkips` each call it again, as the code does.  `WrapClass`, `ReportSkips`
and `WriteShim` are the rounds of the loops in `Pipeline.Run`, over a directory
that keeps one file per name.

**Bundle.**  A checksum is the version of the file it was computed from.
**Deployment.**  Time is a clock in ticks; a response takes up to `Slow` of them.

**Lock.**  A file is a sequence of lines; `Decode` takes one step per line and
`cur` is the package it is reading.  Quoting is modelled by what it does to a
value with special characters, because `Decode` does not undo it.

**Program, Verifier, Evaluation, Compiled.**  A type is a *shape*, the head and the
annotations that ride beside it in the IR; an expression is a record with its
operands and its shape.  `Verifier` is a walk with the code's context (scopes,
loop depth, return type), one operator per `verify...` function; it compares
what the code compares and no more (a union's name, an arm's guard, a variant's
fields, the captures of a function literal go unlooked at, as in the code).
`Compiled` runs the emitted Java: `todo` is the stack of blocks, loops, switches,
tries and calls, `scopes` the locals of the running method, `heap` the lists,
maps and sets (with `ArrayList`'s modification count).  There is one action per
kind of statement.  A function literal becomes a value that holds what it
captured, when it is made; its body is a method that reads the captures through
the environment, after the rewriting of `rewriteEnvRefs`, and is called through
the functional interface its signature selects.  A query is its scope, its loop
and the sort and slice after it.  Nodes that the verifier knows and the lowering
has no case for are refused.  What `javac` would refuse is noticed when the
statement is reached (`Refuse`, `why`) from the *values*, independently of the
shapes `Verifier` looked at; this is what makes `VerifiedIsWellTyped` say
something.  The expressions of the programs are given by height
(`Exprs[n]` holds those whose operands are in `Exprs[n - 1]`), and their blocks
likewise (`Blocks`), so that `VerifyExpr`, `Eval`, `LowersExpr` and `Visits` are loops over
levels and no recursive operators: TLC evaluates each once, and a proof can unfold
them.  `Meaning` evaluates the same program recursively over statements,
with the semantics the comments of `program.go` give (functional append,
half-open ranges, catchable misses, guards); the two share only how an
expression computes.

**Datalog.**  `rel` is the evaluator's state; `ApplyRule` is one `deriveRule` and
the loop that appends what is new; `NextPass` and `Answer` are the end of the
loop body.  A join is a fold over the body of sets of bindings.

## 3. What the runs check

| Run | Distinct states | What it shows |
|---|---|---|
| `agent` | 144 k | With arms that return early, throw and reply twice, and callers that are interrupted anywhere: answers are serial (`AnswersAreSerial`), Stop is last (`StopIsLast`), a joined agent is quiet (`QuietAfterStop`), the class implements `AgentService`, every call comes back or its agent ended first. `IInv` is the invariant the proofs use. |
| `concurrency` | 115 k | A task that races and awaits two others while main joins, races and cancels: `runAll` reports in list order, `runAny` returns one of its own, a thread with its flag set has a settled future (`InterruptedTasksAreSettled`), `cancel()` says it cancelled a task only if nobody has or gets a value of it (`CancelTellsTheTruth`), waits end (except a `runAny` with failures only). Two bridged calls: own value once, an unregistered callback stays silent and the registry holds exactly the calls still owed an answer (`RegistryInv`), a callback that never returns keeps no value queued behind it on the pool thread (`ValuesArrive`). Channel: order, nothing lost but by interrupts and then for good (`NoSilentLoss`), sleepers wake. Stream: every handle gets every later item once and in order, the limit drops only at the limit (`EveryItemInOrder`), the end is last, an idle handle holds nobody up. |
| `import` | 389 k | Cache: whole entries under kills and power loss, leftovers only of killed builds or from before the last power loss (`FilesInv`), and `Put`/`Get` implement an atomic store. Pipeline: only verified JARs are kept, a cached run reflects its own JAR, a run that succeeds has compiled every current wrapper, or none because the directory could not be read (`CompilesAllOrNothing`). Synthesis: every public method is in a wrapper or in the report, once, with a reason (`EveryMethodIsAccountedFor`), and the shim declares what the wrappers have (`ShimIsBacked`). |
| `release` | 850 k | Lock: for all packages of the instance and any one inserted line, Decode gives back the packages that have a kind and nothing to escape, refuses a missing kind and leaves escapes in, and does nothing else (`InverseOnPlainPackages`); Encode does not depend on order, Check reports exactly the changes. Bundle: sums are of the data in the ZIP, an accepted bundle is whole. Deployment: a verdict is the deployment's own, one that comes in time is seen. |
| `compile` | 28 k | Some five thousand programs, most of them ill formed: those `Verify` accepts meet no type check of `javac` they fail (`VerifiedIsWellTyped`), print what they mean, fail when it fails (`RunsAsWritten`), and end (`RunsEnd`). Beside them, for all 16 graphs on two nodes, rules in five orders and four queries, the Datalog answer is the least model's. |
| `streams_end`, `datalog_negation`, `lock_current`, `lock_inverse`, `append_aliases`, `break_in_match`, `wrapper_casts` | | Seven statements of the repository's comments that the code does not keep; see section 6. |

`MCConcurrency`, `MCImport`, `MCRelease` and `MCCompile` explore
components that share no state side by side: a behaviour moves one of them, so
their states add and do not multiply.  `import` takes keys, builds and runs as
symmetric: no definition tells one from another, and the run has no liveness property.

Every invariant is also a statement about what no step may do; `QuietAfterStop`
(`agent`) is a pure action property.

Deadlock is checked in `import` and `compile`; in `compile` it shows that a
running program always has a next step until it has ended.  The other systems may stop: a
program need not make another call, a stopped agent blocks its callers for good,
a checked lock file or a settled deployment is the end.

### Bounds, and why they are enough

* `agent`: one agent, two callers with two messages each, one void and one value
  intent, three paths for the latter.  Two callers are what interleaving needs; two
  messages each let a late answer meet a second call; four messages put some
  before and some after a Stop.  Agents share nothing, so a second one adds only
  products of states; the proofs hold for any number.
* `concurrency`, tasks: two tasks that compute and one that waits twice; main performs two
  operations, so that it can cancel while a wait is on and race twice, which is
  what leaves helper threads behind.  Bridged calls: two, so that a handle given up
  meets one that is still owed its value, and the completion of one is queued
  while the stage of the other has the pool thread and its callback blocks.
* `concurrency`, channel: capacity 2 and three sends each, so that the queue is
  empty, full and between; two senders and two receivers.  Streams: buffers of 2, three
  items, a handle without and one with a limit of 1, two readers that may share a
  handle.
* `import`, cache: two keys, two builds that put, one that gets, three files in all, so
  that a key is stored twice and a leftover coexists with both.  One block is
  enough: a file is then not written, written and not synced, or synced.
  Pipeline: two groups with an artifact of one name and version, a second
  version with a class less and another changed, a JAR with no class to wrap, three
  runs, every `Options`.
  Synthesis: some four thousand surfaces: one method of every signature over types
  of each row of the tables and each refusal, pairs of methods in one class, pairs
  of classes whose names do and do not give one identifier.
* `release`, lock: up to two packages, equal or different in each of group, version
  and hashes; one inserted line of each kind at every place.  Bundle: two versions of
  an artifact, two builds.  Deployment: a deadline of five ticks, an interval of
  two, an answer within one, so that a verdict may come before, in and after the
  last round; two uploads, so that one may be lost; the clock runs to 10, past
  every deadline.
* `compile`: families of programs.  *Typing*: each declaration of a name with each
  pair of uses, straight, under an `if` and in a `try` (what is checked and
  what is not).  *Control*: a range loop, a `foreach` and a `while` with each pair of
  eleven statements, among them inner loops, divisions that panic, `break`,
  `continue` and `return` (control flow two constructs deep).  *Calling*: functions
  that return early, panic or mutate, records, unions and matches.  *Closures*:
  nine bodies that read their capture in a condition, a loop, a `try`, a literal, a
  call or under a name that hides it; literals made in loops, passed, returned,
  mapped, filtered and folded with; a capture assigned to afterwards.  *Sets*,
  *Arranging* (queries, sort, slice with bounds outside the list), *Others* (strings,
  maps, nodes that are refused) and *MatchLoops* (a `continue` in an arm of a match
  in a loop).  All have a finite meaning.  Ints stay small.
* `lock_inverse`: one package whose source path has a character to escape.
* `append_aliases`: lists of two elements with two names.  `break_in_match`: the loops
  of *MatchLoops* with a `break`.
* Datalog (in `compile`): two nodes give cycles, self-loops and unreachable nodes; rules in
  several orders need one to four passes.

### Fairness

`Agent`, `Async`, `Channel`: weak fairness of the loop thread, of helper threads
and of a blocked thread that can go on: the JVM schedules every runnable virtual
thread, and `put`, `take`, `get` and `join` wake their waiter.  Starting threads,
making calls and interrupting are never assumed to happen.
`Stream`: weak fairness per subscriber of `submit` and of the delivery task, which
the common pool runs, and of a reader whose inbox is not empty.
`FutureRuntime`: weak fairness, per call, of the bridge that attaches its stage or
throws, of a stage that runs (`Invoke`), and of the idle pool thread, which takes the
next completion; it holds a thread up only while it is in a stage.  Callers, futures
and callbacks may take for ever, which is the point of `ValuesArrive`.
`Compiled`: a behaviour ends or takes steps for ever (`CompileFairness`): the JVM runs
`main` on.  It is weak fairness of the whole next-state relation, put without
ENABLED, which is always true before the end, as the deadlock check shows.
The other modules state no liveness and assume no fairness.

## 4. What is proved

The theorems hold for every value of the constants that satisfies the
assumptions named in the modules (TLC evaluates these on its instances).  Each
component has one inductive invariant; its module defines it after the
properties, as a conjunction of named parts that are not themselves worth a
run, and the proof module shows that the initial states satisfy it, that one
lemma per action (or group of actions) keeps it, and that it implies the
properties.

* **`AgentProofs`**, for any agents, callers, intents and paths of arms:
  `TypeCorrect`, `Invariant`, `SerialAnswers`, `CallersInOrder` (one caller's messages
  arrive once and in order), `StopEndsService`, `StoppedIsQuiet`,
  `AgentImplementsService` (initial states map to initial states of `AgentService`,
  every step to a step or a stutter).  `IInv` adds to the properties: the arm that
  runs belongs to the last message taken (`Running`), which ties a reply to its
  request; numbers on the log (`served \o mailbox`) are numbers already given out
  (`Numbered`) and grow per caller (`CallerOrder`), so that a reply is never taken for
  another; only a dispatched message has changed the state (`StateFromServed`), so
  that what an answer shows stays what it showed; joined agents have ended
  (`JoinedHaveEnded`).  The log is the key: an offer appends to it and a take leaves it
  as it is, which are the first two lemmas of `DataLemmas`.
  Assumptions: `IntentsAssumption`, `AgentsAssumption`.
* **`ChannelProofs`**, channels, for any capacity, threads and sends:
  `ChannelTypeCorrect` (the queue keeps its capacity), `ChannelKeepsOrder`
  (`SenderOrder`), `ChannelLosesKnowingly` (`NoSilentLoss`).  The log is `received \o queue`,
  with the same lemmas; `ChannelInv` adds that a sender that lost an item is in no
  `put` any more (`LosersAreOut`) and that numbers on the log are numbers sent
  (`Counted`).  Assumptions: `CapAssumption`, and that no thread is both sender
  and receiver (`RolesAssumption`), which only names roles.
* **`ChannelProofs`**, streams, for any handles, limits, buffers and items:
  `StreamEndsLast` (`EndIsLast`), `StreamsBroadcast` (`EveryItemInOrder`).  `StreamInv` says
  of each handle by itself that what it was given is older than what its buffer
  holds (`DeliveredFirst`), that what it was sent is delivered, on its way or dropped
  (`AccountedFor`), and that its end is queued once and after an empty buffer
  (`EndsOnce`); `HandleRests` shows that a step at one handle disturbs no other.
* **`FuturesProofs`**, JNI futures, for any finite set of calls: `CallbacksGetTheirOwn`
  (`OwnValueOnce`), `RegistryIsKept` (`RegistryInv`).  `BridgeInv` adds that handles given
  out are different (`HandlesAreOwn`: the atomic add), that an entry holds the
  callback that was stored under its handle (`EntriesAreOwn`), and the order of a
  call's stages (`StagesInTurn`).
* **`FuturesProofs`**, async tasks, for any tasks, bodies and operations of main: `CancelIsTrue`
  (`CancelTellsTheTruth`), `AllIsInListOrder`, `AnyIsOneOfItsOwn`, `InterruptsSettle`.  `AsyncInv`
  adds that a wait has got a prefix of its futures, all with values (`GetsInTurn`), and
  that a helper thread works for a call that was made, and only for its futures
  if the call is still on (`HelpsItsCall`), which is what keeps the helpers left
  behind by an earlier `runAny` away from a later one.  `CancelInv` adds that whatever
  a thread has got, in this wait or from the last, has a value for good (`GotValues`),
  so that it is none of a task `cancel()` completed between its two statements.
* **`ImportProofs`**, JAR cache, for any keys, builds and sizes: `NamedFilesAreWhole`
  (`EntriesAreWhole`), `FilesAreAccountedFor` (`FilesInv`), `CacheImplementsStore`.
  `CacheInv` says that a file that has, or may come back under, a name is written and
  synced (`NamedAreWhole`), so that power loss leaves it whole; that a `Put`'s file is
  as far as its program counter says (`Progress`); and that no two `Put`s share a
  temporary file (`PutsInOrder`).  A temporary file that no `Put` is writing is of one
  that was killed or from before the last power loss: `FilesInv` says no more of it,
  for a rename that the loss undoes brings a finished one back.  The refinement maps the store to the whole files
  under names (`storedBar`, `answerBar`): `Rename` is the abstract put, everything
  else a stutter, a read or a loss.
* **`ImportProofs`**, pipeline, for any coordinates, classes, runs and options:
  `KeepsOnlyVerified`, `CachedReflectsItsOwn`, `JavacGetsAllOrNothing`
  (`CompilesAllOrNothing`).  `PipelineInv` adds
  that what a run holds is what it asked for once the checksum was compared
  (`Honest`), that wrappers not to be written any more are written (`Wrote`), that
  nothing counts as compiled before the directory was listed or when it could not
  be (`Compiles`), and that no two runs at work share a wrapper directory (`Apart`, a guard of the model; see
  section 5).
* **`ReleaseProofs`**, publishing, for any timeouts, numbers of uploads, builds and versions:
  `VerdictsAreTrue`, `InTimeIsSeen` (`SettledInTimeIsSeen`), `FinishedSumsMatch`
  (`SumsAreOfTheData`), `AcceptedAreWhole`.  `DeploymentInv` adds that verdicts have a
  time and are for good (`VerdictsAreDated`), how long a request or a sleep may
  last (`InTime`), and that a verdict not yet seen is younger than the request that
  missed it (`MissedIsYoung`); the deadline argument is arithmetic on these.
  `BundleInv` adds that every entry written so far is of the data beside it
  (`WrittenMatch`), over the lemma that places in the ZIP and entry names
  correspond one to one.

* **`CompilerProofs`**, Datalog, for any rules in any order, facts and query: `NothingElse`
  (`NothingElseFollows`), `CompleteAnswer` (`AnswerIsComplete`), `NegationOfFacts`
  (`NegationIsFailure`, the statement that run `datalog_negation` violates, holds of
  every program that negates relations of facts only).  `EvaluationInv`: the relations hold
  the facts, no tuple twice, and only heads of rules, which are finitely many; in a
  pass that has added nothing the rules applied so far add nothing (`Evaluated`), so
  that the answer is given at a fixpoint; and every tuple is in every model and is a
  fact or derived (`FactsAreDerived`).  The bulk of the proof is that a join, a fold over the
  literals of a body, yields exactly the substitutions under which the body holds
  (of a literal that is negated, in the relations as they are then).  The theorems
  assume of the program that its facts are different, and that its rules bind the
  variables of heads, negations and inequalities (`IsProgram`); the first and the third
  that it negates facts only (`NegatesFactsOnly`): with more, the code's answer is not the
  least model's, as section 6 says.
* **`CompilerProofs`**, verifier and lowering, for any program, heap and locals:
  `ExpressionsAreSound`.  An expression that `VerifyExpr` accepts and the lowering has
  cases for, evaluated on the JVM in a heap whose objects hold what their shapes say
  (`IsHeap`) and with locals that are those of the verifier's scopes (`Sees`), ends in a
  value of the expression's own shape, in an exception, or in one of ten things that
  `Verify` leaves to `javac` (`MayEnd`): never for a name that is not there, never for a
  value of the wrong type; the heap after it is well typed again, and no object
  has changed its shape (`Sound`).  So of `VerifiedIsWellTyped` the theorem has all that
  happens inside expressions; that the statements keep `Sees` from one to the next is
  what TLC checks.  The proof has a lemma for each node that says what its operands
  have to be; an induction over the levels of `Exprs` then puts them together.  It
  showed three places where the verifier asks for less than the Java needs: the
  catch variable, `join`, and the sort of a list of records (section 6).
  Assumptions: expressions are made by the constructors of `Program` out of those of a
  lower level (`ExprsAssumption`), names are what words are (`WordsAssumption`); of the
  program, its records are verified.
* **`ReleaseProofs`**, lock file, for any packages and fields: `DecodeInvertsOnPlain`
  (`InverseOnPlainPackages`: the inverse on packages with a kind and nothing to
  escape, and exactly how far from it on the others, of which `lock_inverse` shows
  one), `EncodesCanonically` (`EncodeIsCanonical`), `ChecksWhatChanged`
  (`ReportsWhatChanged`).  `LockInv` says that the file is what `Encode` wrote and, with a
  harmless line added, is read as that is (`FileKept`), that `Decode` has got what the
  lines before `pos` say (`LinesRead`), and that the drifts are those of `Check`
  (`Compared`).  Its lemmas: the lines of one package, read from any state, flush the
  package before and leave this one half read; blank lines, comments and unknown
  keys change nothing at any place; the sorted order of a list of packages depends
  on its elements only.  Assumptions: what the resolver hands over has a package of a
  name and version once and hashes without special characters (`InputsAssumption`), and
  fields have names of their own (`FieldsAssumption`).
* **`ImportProofs`**, wrapper synthesis, for any surfaces and types:
  `MethodsAreAccountedFor` (`EveryMethodIsAccountedFor`), `ShimMatchesWrappers`
  (`ShimIsBacked`).  `SynthesisInv` says how far each pass has come: the file of a class
  already written is what `EmitJavaSource` makes of it alone, unless a later class has
  the same identifier (`WrappersAreOwn`); what the report says of a class is what
  `CollectSkips` says of it, once (`ReportsAreOwn`); the shim is `EmitShimMochi`'s.  The rest
  is about `Synth`, called three times on one class: a method has a reason to be
  skipped exactly if one of its types may not cross (`Bindable` is stated without
  `Map`), every reason that `Map` gives is one that `parseSkipReason` knows, and the JNI
  type of a mapping is the one its Mochi type crosses as.  Assumptions: types are made
  of base names and types (`JavaTypesAssumption`), and the classes of a JAR have
  different names (`SurfacesAssumption`).

Loops over data are written as recursive functions on an interval.  `Loops` proves once
that such an equation has a solution for every loop body, so that a proof may unfold
it; induction is stated for sets of numbers (`Climb`, `ClimbTo` in `DataLemmas`: a set
that holds zero, and with a number the next one), which the provers can instantiate
where a rule about formulas they cannot.

Only model-checked:

* liveness (`EveryCallComesBack`, `WaitsEnd`, `WaitersWake`, `NoReceiverHoldsUp`,
  `ValuesArrive`, `RunsEnd`), which needs fairness and ENABLED;
* `VerifiedIsWellTyped` and `RunsAsWritten`, the properties of whole runs of compiled
  programs.  `Meaning` and parts of `Compiled` recur over the syntax of statements,
  mutually and through RECURSIVE, with which the prover cannot work.

## 5. What is not modelled, and why

* Of the IR: float, JSON and file I/O nodes, nested containers, and the verifier's
  cases for channel, stream, agent, async, foreign and model-call nodes, which
  compare annotations and add no scopes; what these nodes do at run time is in
  `Agent`, `Async`, `Channel` and `Stream`.  Calls are statements or initialise a `let`.
  64-bit overflow, and `==` on two boxed `Long`s (which compares references), are
  not modelled: ints stay small.  Code that is never reached is not looked at by
  `Compiled`, though `javac` would.  A match in value position and guards are left
  out of `Compiled`, as `lower/match.go` leaves guards out.
* Java source printing, the runtime's JSON and I/O helpers, error wrapping and POM
  generation transform data with no order of steps to get wrong.
* Reflection runs a child process and parses its JSON, the JNI runtime calls into
  the JVM: `Synthesis` starts from a surface, `FutureRuntime` from a bridged call.
* `SignBundle` (attestation) signs one digest in one step.
* `maven/client.go` and `coord.go` are modelled as far as `Pipeline` uses them
  (fetch, checksum, file names), not their parsing.
* In `Pipeline`, runs that share a wrapper directory, and `Cleanup` during a
  run, are kept apart: the code has no exclusion there, so they are a caller's
  obligation.
* Temporary names in `JarCache` are never reused; in the code they are random.
* In `Synthesis` the text of Java and Mochi declarations is left out but for names
  and types; `javac` is external.

## 6. Disagreements between comments and code

Checked by runs (`findings`):

* `MochiSub.recv` "returns null when the stream has ended" (MochiSub.java:60), but
  the one DONE marker is taken out by the first `recv`; a second one blocks for
  ever (`streams_end`).
* "negation-as-failure" (program.go:1793): rules run in program order with no
  stratification, so a negated relation that a later rule derives has already
  been taken as empty (`datalog_negation`).
* "An empty result means the lock is current" (lock.go:88): `Check` looks at the
  fresh packages and their hashes only, so a removed package, or a changed version
  without hashes, goes unnoticed (`lock_current`).
* "the inverse Decode reads back the same shape" (lock.go:7-8): values are written
  with `%q` and only their quotes are cut off (lock.go:332), so a path with a
  backslash comes back with two, and with four the next time; nor does `Decode`
  read the source without a kind that `Encode` writes, although it "parses the TOML
  body produced by Encode" (lock.go:213) (`lock_inverse`).
* "the input is never mutated (functional append semantics)" (program.go:966):
  `x = append(e, v)` becomes `x.add(v)` (stmt.go:223), so another name of the list
  grows too, and a `foreach` over it throws (`append_aliases`).
* "BreakStmt exits the nearest enclosing WhileStmt" (program.go:668): a `break` in an
  arm of a match becomes a Java `break` (stmt.go:46), which leaves the `switch` only;
  the loop goes round again (`break_in_match`).
* `castArg` returns the argument "applying any needed cast" (emit.go:104), but casts
  handles only (emit.go:105): the `int` that stands for a `short`, `byte` or `char`, and
  the `String` that stands for a list, are passed on as they are, which `javac`
  refuses (`wrapper_casts`).

Met while modelling, and kept in the models as the code has them:

* program.go:1766 calls intent calls synchronous; a void intent returns once its
  message is queued.
* program.go:1652 says `emit` blocks on the slowest subscriber; each handle
  copies into an unbounded queue, so it does not (`NoReceiverHoldsUp`).
* `runAll` throws at the first failure in list order and does not wait for the
  rest; `runAny` hangs when all its futures fail; an interrupted `send` loses
  its value without a trace but the flag.
* A rejected Java future never reaches the Go callback (wrapper/future.go:23).
* `Cleanup` removes a caller's directory whose name starts with `mochi-java-`
  (driver.go:121).
* With `NoCache` the file name has no group (coord.go:84, pipeline.go:140);
  `resolveJAR` never reads the cache (pipeline.go:122); wrappers of an earlier
  version stay in the directory and are compiled (pipeline.go:148).
* "Compile the wrapper sources with javac" (pipeline.go:42): `javaFilesInDir` turns an
  error into an empty list (pipeline.go:171), and then `Run` skips `javac` and succeeds
  with nothing compiled and an empty `ClassDir`.
* A `Put` that succeeded may leave its temporary file behind when the power goes: the
  directory is not synced after the rename (cache.go:81).  Nothing removes such files.
* `PollTimeout` may be overrun by an interval and an answer, and one failed status
  request ends the poll (central.go).
* `DryRun` compares SHA-1 of the JAR and the POM only (bundle.go:114).
* In Datalog programs `_` is an ordinary variable (datalog.go:232), and repeated
  base facts are answered repeatedly.
* An arm's guard (program.go:1357) is neither verified nor lowered.  An arm of one
  statement is printed without braces, which `javac` refuses for a declaration, an
  `if`, a `return` or a `break`.
* A field of a variant is read from the union's interface, which has none
  (`VariantFieldAccess`); `reverse(s)` becomes a `StringBuilder` where a `String` is
  declared; `s[i]` out of bounds throws Java's exception (program.go:868).
* `add(s, x)` adds to the set itself; the code program.go:1127 names as its rendering
  elsewhere (`sets:add_element`) makes a new one.
* `keys(m)` is "sorted ascending by key" (program.go:1091); the emitted code lists
  them in the order they were first put in, that of a `LinkedHashMap`.
* Captures and the signature of a function literal are not compared with the
  lifted function, and `rewriteEnvRefs` knows only some kinds of nodes: in the others a
  captured variable keeps its name and `javac` refuses it.
* Many nodes are verified and have no case in the lowering (panic with a code, file
  writes, ordered maps, sums over lists).  `StrJoinExpr` is for lists of strings
  (program.go:944) and is accepted for any list (verifier.go:1932); a list of records is
  sorted, which throws as records are not `Comparable`.
* A missing index or key (program.go:1053) throws Java's own exceptions, which the
  emitted `catch (MochiPanicException e)` does not catch.  The catch variable is an
  `int` to the verifier (verifier.go:1689) and to program.go:645, and an exception in
  Java (stmt.go:371): wherever it is used as a number `javac` refuses it.
* `Verify` leaves to `javac`: shadowing in nested blocks, variables read before they
  are set, a `List` where an `ArrayList` is declared, matches that are not
  exhaustive or repeat a variant, missing returns (`LeftToJavac`).  It compares no
  names of unions, and of a variant neither its name nor its fields (verifier.go:2160),
  nor what an arm takes from it (verifier.go:1269); of the arguments of a call
  statement (verifier.go:728) and of an element set (verifier.go:1040) it compares
  the heads of their types, so that another record, or a list of something else,
  passes; of `map`, `filter` and `reduce` neither that there is a list nor that there is
  a function (verifier.go:2020).  A lifted function that is called by its name lacks its captures.  Programs
  of `MCCompile` show each of these refused by `javac` (`Alike`).
* The reflect tool reports erased `Class.getName()` names: an `int[]` is `"[I"`, which
  `typemap` takes for a class and makes a handle whose cast is no Java.
  A `List<?>` becomes an opaque handle, though generic.go:55 says that
  wildcards "cannot be safely bridged".
* A wrapper that returns a handle or a list returns the object itself where it
  declares `long` or `String`; overloads share a wrapper name and collide when their
  JNI types coincide; classes whose names differ in `.`, `_` and `$` only share a
  file, and the last wins; field getters are synthesised and never emitted;
  `MochiRuntime`, which wrappers call, is not on `javac`'s class path.
* `parseSkipReason` finds a reason by searching its text for the name of one.
* The header of an attestation carries the wall clock, so it is not "byte-stable
  across repeated runs" (sigstore.go:50).
* `Decode` fails on another table after a package;
  two locked versions of one artifact make `Check` compare with the last.

## 7. Plan

Done: `Agent` first (the runtime behaviour every actor program rests on, with
`AgentService` and the proofs), then the runtime parts that callers of agents
use (`Async`, `Channel`, `Stream`, `FutureRuntime`), then the toolchain's stateful
parts (`JarCache` with `CacheStore`, `Pipeline`, `Bundle`, `Deployment`, `Lock`,
`Datalog`), then the compiler's core (`Program`, `Verifier`, `Evaluation`,
`Meaning`, `Compiled`) with closures, queries, sets, ordered maps and strings, then
wrapper synthesis (`Synthesis`), then the proofs of every concurrent or
failure-prone component, then those of what `Datalog`, `Lock`, `Synthesis` and
expressions compute.

Left, in this order:

1. The verifier's cases for channel, stream, agent and async nodes in `Verifier`,
   and how `Compiled` would run a program that uses them (its values and the
   steps of `Channel` or `Agent` in one behaviour).
2. Overflow and boxed equality of ints, as a width in `Evaluation`.
3. `Workspace` and reflection, as far as they decide something.
4. `Compiled` as recursive functions on blocks, too, and a proof of `VerifiedIsWellTyped`:
   that the statements keep what `ExpressionsAreSound` starts from.

Runs of new modules take their place side by side, as in `MCConcurrency`.

## 8. Running it

    tlc -workers 2 -config MCAgent.cfg MCAgent            # agent
    tlc -workers 2 -config MCConcurrency.cfg MCConcurrency  # concurrency
    tlc -workers 2 -config MCImport.cfg MCImport          # import
    tlc -workers 2 -config MCRelease.cfg MCRelease        # release
    tlc -workers 2 -config MCCompile.cfg MCCompile        # compile
    tlc -workers 2 -config MCStreamsEnd.cfg MCStreams     # streams_end
    tlc -workers 2 -config MCDatalogNegation.cfg MCDatalog  # datalog_negation
    tlc -workers 2 -config MCLockCurrent.cfg MCLock       # lock_current
    tlc -workers 2 -config MCLockInverse.cfg MCLock       # lock_inverse
    tlc -workers 2 -config MCAliased.cfg MCCompile        # append_aliases
    tlc -workers 2 -config MCBreakInMatch.cfg MCCompile   # break_in_match
    tlc -workers 2 -config MCImportCasts.cfg MCImport     # wrapper_casts

    for m in DataLemmas Loops AgentProofs ChannelProofs FuturesProofs ImportProofs \
             ReleaseProofs CompilerProofs; do tlapm $m.tla; done
