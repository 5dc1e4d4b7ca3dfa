--------------------------- MODULE FutureRuntime ---------------------------
(***************************************************************************)
(* Async bridging between Go and the JVM: the callback registry of          *)
(* jni/future.go and the static bridge method wrapper/future.go emits.  A   *)
(* Go goroutine registers a callback, calls the bridge with its handle, and  *)
(* the bridge attaches a thenAccept stage to the Java future, which calls    *)
(* Invoke when the future has a value.  Futures, the pool thread that        *)
(* completes them and the callbacks' bodies are external.                   *)
(***************************************************************************)
EXTENDS Integers, FiniteSets, Sequences

CONSTANTS
  Calls,    \* the bridged calls, each made by a goroutine of its own
  NoCall    \* a thread that runs no call's stage

ASSUME CallsAssumption == IsFiniteSet(Calls) /\ NoCall \notin Calls

VARIABLES
  next,      \* FutureRuntime.next
  pending,   \* FutureRuntime.pending: handle -> the call whose callback it is
  handle,    \* the handle each call holds, 0 before Register
  pc,        \* where the goroutine of each call is
  future,    \* the CompletableFuture of each call
  stage,     \* the thenAccept stage of each call
  taken,     \* the call whose callback the Invoke for this call removed
  callback,  \* history: per callback, whose values it was started with
  body,      \* per callback, whether its goroutine is running
  gaveUp,    \* calls whose handle was passed to Unregister
  withdrawn, \* history: calls whose entry that Unregister removed
  pool       \* the call whose stage the pool thread is running

bridgeVars == <<next, pending, handle, pc, future, stage, taken, callback, body,
          gaveUp, withdrawn, pool>>

Handles == 1..Cardinality(Calls)

BridgeInit ==
  /\ next = 0
  /\ pending = [h \in {} |-> NoCall]
  /\ handle = [c \in Calls |-> 0]
  /\ pc = [c \in Calls |-> "start"]
  /\ future = [c \in Calls |-> "running"]
  /\ stage = [c \in Calls |-> "none"]
  /\ taken = [c \in Calls |-> NoCall]
  /\ callback = [c \in Calls |-> <<>>]
  /\ body = [c \in Calls |-> "none"]
  /\ gaveUp = {}
  /\ withdrawn = {}
  /\ pool = NoCall

Without(f, h) == [k \in DOMAIN f \ {h} |-> f[k]]
With(f, h, c) == [k \in DOMAIN f \cup {h} |-> IF k = h THEN c ELSE f[k]]

(***************************************************************************)
(* Register: the id is taken by an atomic add, the entry is stored under    *)
(* the mutex afterwards.                                                    *)
(***************************************************************************)

\* Wrong on purpose: an id computed from the size of the map is free now, not later.
TakeIdFromSize(c) ==
  /\ pc[c] = "start"
  /\ handle' = [handle EXCEPT ![c] = Cardinality(DOMAIN pending) + 1]
  /\ pc' = [pc EXCEPT ![c] = "numbered"]
  /\ UNCHANGED <<next, pending, future, stage, taken, callback, body,
                 gaveUp, withdrawn, pool>>

TakeId(c) ==
  /\ pc[c] = "start"
  /\ next' = next + 1
  /\ handle' = [handle EXCEPT ![c] = next + 1]
  /\ pc' = [pc EXCEPT ![c] = "numbered"]
  /\ UNCHANGED <<pending, future, stage, taken, callback, body,
                 gaveUp, withdrawn, pool>>

StoreEntry(c) ==
  /\ pc[c] = "numbered"
  /\ pending' = With(pending, handle[c], c)
  /\ pc' = [pc EXCEPT ![c] = "registered"]
  /\ UNCHANGED <<next, handle, future, stage, taken, callback, body,
                 gaveUp, withdrawn, pool>>

\* Unregister, from any goroutine that knows the handle: the caller gives up.
Unregister(c) ==
  /\ pc[c] \notin {"start", "numbered"} /\ c \notin gaveUp
  /\ gaveUp' = gaveUp \cup {c}
  /\ withdrawn' = withdrawn \cup {d \in {c} : handle[d] \in DOMAIN pending}
  /\ pending' = Without(pending, handle[c])
  /\ UNCHANGED <<next, handle, pc, future, stage, taken, callback, body, pool>>

(***************************************************************************)
(* The bridge: origMethod() then thenAccept(stage).  A future that has its   *)
(* value already runs the stage on the calling thread.                      *)
(***************************************************************************)

\* The bridge calls origMethod(), which returns its future at once.
Bridge(c) ==
  /\ pc[c] = "registered"
  /\ pc' = [pc EXCEPT ![c] = "inBridge"]
  /\ UNCHANGED <<next, pending, handle, future, stage, taken, callback, body,
                 gaveUp, withdrawn, pool>>

\* deref finds no object or origMethod() throws: no stage is attached.
BridgeThrows(c) ==
  /\ pc[c] = "inBridge" /\ stage[c] = "none" /\ future[c] = "running"
  /\ pc' = [pc EXCEPT ![c] = "returned"]
  /\ UNCHANGED <<next, pending, handle, future, stage, taken, callback, body,
                 gaveUp, withdrawn, pool>>

\* The work of the future is done and its completion is queued behind whatever
\* the one pool thread is doing; nothing makes this step happen.
Ready(c) ==
  /\ future[c] = "running"
  /\ pc[c] = "inBridge" \/ stage[c] = "waiting"
  /\ future' = [future EXCEPT ![c] = "due"]
  /\ UNCHANGED <<next, pending, handle, pc, stage, taken, callback, body,
                 gaveUp, withdrawn, pool>>

ThenAccept(c) ==
  /\ pc[c] = "inBridge" /\ stage[c] = "none"
  /\ \/ /\ future[c] = "value"
        /\ stage' = [stage EXCEPT ![c] = "running"]
        /\ UNCHANGED pc
     \/ /\ future[c] \in {"running", "due"}
        /\ stage' = [stage EXCEPT ![c] = "waiting"]
        /\ pc' = [pc EXCEPT ![c] = "returned"]
     \/ /\ future[c] = "failed"
        /\ stage' = [stage EXCEPT ![c] = "over"]
        /\ pc' = [pc EXCEPT ![c] = "returned"]
  /\ UNCHANGED <<next, pending, handle, future, taken, callback, body,
                 gaveUp, withdrawn, pool>>

\* The pool thread takes the next job.  complete() runs a stage that is waiting on
\* this thread, which is then busy until the stage is over.
Fulfil(c) ==
  /\ future[c] = "due" /\ pool = NoCall
  /\ future' = [future EXCEPT ![c] = "value"]
  /\ IF stage[c] = "waiting"
     THEN stage' = [stage EXCEPT ![c] = "running"] /\ pool' = c
     ELSE UNCHANGED <<stage, pool>>
  /\ UNCHANGED <<next, pending, handle, pc, taken, callback, body, gaveUp, withdrawn>>

\* completeExceptionally() skips a thenAccept stage.
Reject(c) ==
  /\ future[c] = "due" /\ pool = NoCall
  /\ future' = [future EXCEPT ![c] = "failed"]
  /\ stage' = [stage EXCEPT ![c] = IF @ = "waiting" THEN "over" ELSE @]
  /\ UNCHANGED <<next, pending, handle, pc, taken, callback, body,
                 gaveUp, withdrawn, pool>>

(***************************************************************************)
(* Invoke, called by the stage: look the handle up and delete it under the  *)
(* mutex, then start the callback in a goroutine of its own.                *)
(***************************************************************************)

\* The stage is over: whichever thread ran it goes on.
StageEnds(c) ==
  /\ stage' = [stage EXCEPT ![c] = "over"]
  /\ pool' = IF pool = c THEN NoCall ELSE pool
  /\ pc' = [pc EXCEPT ![c] = IF @ = "inBridge" THEN "returned" ELSE @]

InvokeMisses(c) ==
  /\ stage[c] = "running" /\ taken[c] = NoCall
  /\ handle[c] \notin DOMAIN pending
  /\ StageEnds(c)
  /\ UNCHANGED <<next, pending, handle, future, taken, callback, body, gaveUp, withdrawn>>

\* Wrong on purpose: the entry is looked up but stays in the map until someone unregisters it.
LooksUpOnly(c) ==
  /\ stage[c] = "running" /\ taken[c] = NoCall
  /\ handle[c] \in DOMAIN pending
  /\ taken' = [taken EXCEPT ![c] = pending[handle[c]]]
  /\ UNCHANGED <<next, pending, handle, pc, future, stage, callback, body,
                 gaveUp, withdrawn, pool>>

InvokeTakes(c) ==
  /\ stage[c] = "running" /\ taken[c] = NoCall
  /\ handle[c] \in DOMAIN pending
  /\ taken' = [taken EXCEPT ![c] = pending[handle[c]]]
  /\ pending' = Without(pending, handle[c])
  /\ UNCHANGED <<next, handle, pc, future, stage, callback, body, gaveUp, withdrawn, pool>>

Starts(c) ==
  /\ stage[c] = "running" /\ taken[c] # NoCall
  /\ callback' = [callback EXCEPT ![taken[c]] = Append(@, c)]
  /\ body' = [body EXCEPT ![taken[c]] = "running"]

\* Wrong on purpose: cb() instead of go cb(): the thread that called Invoke runs
\* the callback itself.
DispatchInline(c) ==
  /\ \/ /\ body[c] = "none"
        /\ Starts(c)
        /\ UNCHANGED <<stage, pool, pc>>
     \/ /\ stage[c] = "running" /\ body[c] = "returned"
        /\ StageEnds(c)
        /\ UNCHANGED <<callback, body>>
  /\ UNCHANGED <<next, pending, handle, future, taken, gaveUp, withdrawn>>

Dispatch(c) ==
  /\ Starts(c)
  /\ StageEnds(c)
  /\ UNCHANGED <<next, pending, handle, future, taken, gaveUp, withdrawn>>

\* A callback may also never return: nothing makes this step happen.
CallbackReturns(c) ==
  /\ body[c] = "running"
  /\ body' = [body EXCEPT ![c] = "returned"]
  /\ UNCHANGED <<next, pending, handle, pc, future, stage, taken, callback,
                 gaveUp, withdrawn, pool>>

Registers(c) == TakeId(c) \/ StoreEntry(c)
Stage(c) == InvokeMisses(c) \/ InvokeTakes(c) \/ Dispatch(c)
Settles(c) == Fulfil(c) \/ Reject(c)

BridgeNext ==
  \E c \in Calls :
    \/ Registers(c)
    \/ Unregister(c)
    \/ BridgeThrows(c)
    \/ Bridge(c)
    \/ ThenAccept(c)
    \/ Ready(c)
    \/ Settles(c)
    \/ Stage(c)
    \/ CallbackReturns(c)

BridgeSpec == BridgeInit /\ [][BridgeNext]_bridgeVars

\* Threads that are running get to run: the bridge attaches its stage or throws, a
\* stage goes on, an idle pool thread takes the next job.  Callers, futures and
\* callbacks may take their time for ever.
BridgeFairness ==
  \A c \in Calls :
    /\ WF_bridgeVars(ThenAccept(c) \/ BridgeThrows(c))
    /\ WF_bridgeVars(Stage(c))
    /\ WF_bridgeVars(Settles(c))

FairBridgeSpec == BridgeSpec /\ BridgeFairness

(***************************************************************************)
(* Properties                                                               *)
(***************************************************************************)

\* The type invariant: handles are numbers Register gave out, and the registry
\* maps them to calls.
TypeOK ==
  /\ next \in 0..Cardinality(Calls)
  /\ DOMAIN pending \subseteq Handles
  /\ \A h \in DOMAIN pending : pending[h] \in Calls
  /\ handle \in [Calls -> 0..Cardinality(Calls)]
  /\ pc \in [Calls -> {"start", "numbered", "registered", "inBridge", "returned"}]
  /\ future \in [Calls -> {"running", "due", "value", "failed"}]
  /\ stage \in [Calls -> {"none", "waiting", "running", "over"}]
  /\ taken \in [Calls -> Calls \cup {NoCall}]
  /\ callback \in [Calls -> Seq(Calls)]
  /\ body \in [Calls -> {"none", "running", "returned"}]
  /\ gaveUp \subseteq Calls /\ withdrawn \subseteq gaveUp
  /\ pool \in Calls \cup {NoCall}

\* Register, Invoke: with any number of concurrent registrations a callback is
\* started at most once, and with the value of its own future.
OwnValueOnce == \A c \in Calls : callback[c] \in {<<>>, <<c>>}

\* Unregister against Invoke: a callback whose entry was removed by Unregister
\* never starts, and a call that lost that race is not counted as withdrawn.
WithdrawnStaysSilent ==
  \A c \in withdrawn : callback[c] = <<>> /\ \A d \in Calls : taken[d] # c

\* The registry holds exactly the calls still owed an answer: an entry leaves
\* it only through the Invoke that took it or the Unregister that withdrew it.
RegistryIsExact ==
  \A c \in Calls :
    LET owed == /\ pc[c] \notin {"start", "numbered"}
                /\ c \notin withdrawn
                /\ \A d \in Calls : taken[d] # c
    IN owed <=> \E h \in DOMAIN pending : h = handle[c] /\ pending[h] = c

\* What Register, Unregister and Invoke keep of the registry between them, under
\* every interleaving of their atomic adds and locked sections.
RegistryInv == TypeOK /\ WithdrawnStaysSilent /\ RegistryIsExact

\* Handles are numbered as they are taken: no two calls hold the same one.
HandlesAreOwn ==
  /\ next = Cardinality({c \in Calls : pc[c] # "start"})
  /\ \A c \in Calls : IF pc[c] = "start" THEN handle[c] = 0 ELSE handle[c] \in 1..next
  /\ \A c, d \in Calls : handle[c] = handle[d] /\ pc[c] # "start" => c = d

\* An entry is its call's own and so is what an Invoke takes.
EntriesAreOwn ==
  /\ \A h \in DOMAIN pending :
       handle[pending[h]] = h /\ pc[pending[h]] \notin {"start", "numbered"}
  /\ \A c \in Calls : taken[c] \in {NoCall, c}

\* A call registers, attaches its stage, and its stage runs and is over, in turn.
StagesInTurn ==
  \A c \in Calls :
    /\ stage[c] # "none" => pc[c] \in {"inBridge", "returned"}
    /\ taken[c] # NoCall => stage[c] \in {"running", "over"}
    /\ callback[c] # <<>> => taken[c] = c /\ stage[c] = "over"
    /\ c \in gaveUp => pc[c] \notin {"start", "numbered"}

\* What every step of every goroutine and thread preserves.
BridgeInv == RegistryInv /\ OwnValueOnce /\ HandlesAreOwn /\ EntriesAreOwn /\ StagesInTurn

\* Invoke dispatches "in a new goroutine so the JNI thread is not blocked": a future
\* whose completion is queued on the pool thread brings its value to its callback,
\* though the callbacks served before it on that thread never return.  Only a
\* withdrawn call, or a future that failed, gets none.
ValuesArrive ==
  \A c \in Calls :
    future[c] = "due" ~>
      callback[c] # <<>> \/ c \in withdrawn \/ future[c] = "failed"

=============================================================================
