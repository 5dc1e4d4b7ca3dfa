------------------------------- MODULE Async -------------------------------
(***************************************************************************)
(* dev.mochi.runtime.async.Async, the backing of Mochi's future<T>, and the *)
(* lowering of `async e` and `await f` to it (transpiler/lower/async.go).   *)
(*                                                                         *)
(* A task is a virtual thread plus the CompletableFuture cf its body        *)
(* completes.  A body is abstracted to the sequence of waits it performs;   *)
(* the value of a task is the task itself.  Main stands for the program     *)
(* thread, which starts, awaits, joins, races and cancels tasks in any      *)
(* order.                                                                   *)
(***************************************************************************)
EXTENDS Integers, Sequences, FiniteSets

CONSTANTS
  Tasks,   \* the Async instances
  Main,    \* the program thread
  Body,    \* the waits each task's supplier performs, in order
  Lists,   \* the lists of tasks main passes to runAll and runAny
  MaxOps   \* bound: waits and cancels main performs

Threads == Tasks \cup {Main}
Waits == [kind : {"await", "all", "any"}, on : Seq(Tasks)]

ASSUME BodyAssumption ==
  /\ Main \notin Tasks
  /\ Body \in [Tasks -> Seq(Waits)]
  /\ Lists \subseteq Seq(Tasks)
  /\ MaxOps \in Nat

VARIABLES
  thread,    \* a task's virtual thread
  cf,        \* a task's future
  todo,      \* the waits left in a task's body
  wait,      \* what each thread is blocked in
  result,    \* how the last wait or cancel of a thread ended
  flag,      \* threads whose interrupt flag is set
  calls,     \* runAny calls made by each thread
  helpers,   \* the virtual threads runAny started
  combined,  \* the runAny futures that are complete
  ops        \* waits and cancels main has performed

vars == <<thread, cf, todo, wait, result, flag, calls, helpers, combined, ops>>

Idle == [kind |-> "no", on |-> <<>>, asked |-> <<>>, got |-> <<>>]

Init ==
  /\ thread = [t \in Tasks |-> "new"]
  /\ cf = [t \in Tasks |-> "pending"]
  /\ todo = Body
  /\ wait = [x \in Threads |-> Idle]
  /\ result = [x \in Threads |-> [kind |-> "no", res |-> "value", asked |-> <<>>, got |-> <<>>]]
  /\ flag = {}
  /\ calls = [x \in Threads |-> 0]
  /\ helpers = {}
  /\ combined = {}
  /\ ops = 0

Elements(s) == {s[i] : i \in 1..Len(s)}

\* cf.complete, cf.completeExceptionally and cf.cancel: the first one wins.
Complete(t, outcome) ==
  cf' = IF cf[t] = "pending" THEN [cf EXCEPT ![t] = outcome] ELSE cf

Free(x) == wait[x].kind = "no" /\ (x \in Tasks => thread[x] = "alive")

(***************************************************************************)
(* Waiting: await, runAll and runAny, by main or inside a task.             *)
(***************************************************************************)

\* Enter a wait; runAny starts one helper thread per future first.
Begin(x, w) ==
  /\ Free(x)
  /\ wait' = [wait EXCEPT ![x] = [kind |-> w.kind, on |-> w.on, asked |-> w.on, got |-> <<>>]]
  /\ IF w.kind = "any"
     THEN /\ calls' = [calls EXCEPT ![x] = @ + 1]
          /\ helpers' = helpers \cup
               {[by |-> x, n |-> calls[x] + 1, of |-> t] : t \in Elements(w.on)}
     ELSE UNCHANGED <<calls, helpers>>

\* The wait of x is over: its result, or the exception it ends with.
End(x, res, got) ==
  /\ wait' = [wait EXCEPT ![x] = Idle]
  /\ result' = [result EXCEPT ![x] =
       [kind |-> wait[x].kind, res |-> res, asked |-> wait[x].asked, got |-> got]]

\* Wrong on purpose: runAll passes over the failures.
GetSkipping(x) ==
  /\ wait[x].kind \in {"await", "all"}
  /\ IF wait[x].on = <<>>
     THEN End(x, "value", wait[x].got)
     ELSE LET t == Head(wait[x].on) IN
          /\ cf[t] # "pending"
          /\ IF cf[t] = "value"
             THEN wait' = [wait EXCEPT ![x].on = Tail(@), ![x].got = Append(@, t)]
             ELSE wait' = [wait EXCEPT ![x].on = Tail(@)]
          /\ UNCHANGED result
  /\ UNCHANGED <<thread, cf, todo, flag, calls, helpers, combined, ops>>

\* await() of the next future of the list; runAll awaits them in list order.
\* An exceptional completion ends the whole wait: MochiAsyncError, or
\* CancellationException, which await() does not wrap.
Get(x) ==
  /\ wait[x].kind \in {"await", "all"}
  /\ IF wait[x].on = <<>>
     THEN End(x, "value", wait[x].got)
     ELSE LET t == Head(wait[x].on) IN
          /\ cf[t] # "pending"
          /\ IF cf[t] = "value"
             THEN /\ wait' = [wait EXCEPT ![x].on = Tail(@), ![x].got = Append(@, t)]
                  /\ UNCHANGED result
             ELSE End(x, cf[t], wait[x].got)
  /\ UNCHANGED <<thread, cf, todo, flag, calls, helpers, combined, ops>>

\* cf.get() is interrupted: await() sets the flag again, so that the next
\* blocking await() of this thread fails too.
GetInterrupted(x) ==
  /\ wait[x].kind \in {"await", "all"}
  /\ wait[x].on # <<>> /\ cf[Head(wait[x].on)] = "pending"
  /\ x \in flag
  /\ End(x, "failed", wait[x].got)
  /\ UNCHANGED <<thread, cf, todo, flag, calls, helpers, combined, ops>>

\* A helper thread of runAny: f.await(), then combined.complete(); a failure is
\* ignored.  Only the first complete() of a call has an effect.
Help(h) ==
  /\ h \in helpers
  /\ cf[h.of] # "pending"
  /\ helpers' = helpers \ {h}
  /\ combined' =
       IF cf[h.of] = "value" /\ ~\E r \in combined : r.by = h.by /\ r.n = h.n
       THEN combined \cup {h} ELSE combined
  /\ UNCHANGED <<thread, cf, todo, wait, result, flag, calls, ops>>

\* Wrong on purpose: one combined future for all runAny calls of a thread.
WonEver(x) == {r \in combined : r.by = x}

Won(x) == {r \in combined : r.by = x /\ r.n = calls[x]}

AnyReturns(x) ==
  /\ wait[x].kind = "any"
  /\ \E r \in Won(x) : End(x, "value", <<r.of>>)
  /\ UNCHANGED <<thread, cf, todo, flag, calls, helpers, combined, ops>>

\* combined.get() is interrupted; runAny does not set the flag again.
AnyInterrupted(x) ==
  /\ wait[x].kind = "any"
  /\ Won(x) = {}
  /\ x \in flag
  /\ flag' = flag \ {x}
  /\ End(x, "failed", <<>>)
  /\ UNCHANGED <<thread, cf, todo, calls, helpers, combined, ops>>

(***************************************************************************)
(* Tasks.                                                                   *)
(***************************************************************************)

NeededBy(t) == UNION {Elements(Body[t][i].on) : i \in 1..Len(Body[t])}

\* Async.run(): the supplier captures handles that exist already.
Run(t) ==
  /\ Free(Main)
  /\ thread[t] = "new"
  /\ \A u \in NeededBy(t) : thread[u] # "new"
  /\ thread' = [thread EXCEPT ![t] = "alive"]
  /\ UNCHANGED <<cf, todo, wait, result, flag, calls, helpers, combined, ops>>

Failed(t) == result[t].res # "value"

\* The supplier reaches its next wait.
TaskWaits(t) ==
  /\ todo[t] # <<>>
  /\ ~Failed(t)
  /\ Begin(t, Head(todo[t]))
  /\ todo' = [todo EXCEPT ![t] = Tail(@)]
  /\ UNCHANGED <<thread, cf, result, flag, combined, ops>>

\* Wrong on purpose: no catch clause: a body that throws completes nothing.
TaskEndsSilently(t) ==
  /\ Free(t)
  /\ \/ /\ Failed(t)
        /\ UNCHANGED cf
     \/ /\ ~Failed(t) /\ todo[t] = <<>>
        /\ \/ Complete(t, "value")
           \/ UNCHANGED cf
  /\ thread' = [thread EXCEPT ![t] = "dead"]
  /\ UNCHANGED <<todo, wait, result, flag, calls, helpers, combined, ops>>

\* The supplier returns or throws, and the thread completes its future and ends.
\* CancellationException passed on by a wait makes the future a cancelled one.
TaskEnds(t) ==
  /\ Free(t)
  /\ \/ /\ Failed(t)
        /\ Complete(t, result[t].res)
     \/ /\ ~Failed(t) /\ todo[t] = <<>>
        /\ \E outcome \in {"value", "failed"} : Complete(t, outcome)
  /\ thread' = [thread EXCEPT ![t] = "dead"]
  /\ UNCHANGED <<todo, wait, result, flag, calls, helpers, combined, ops>>

(***************************************************************************)
(* Main.                                                                    *)
(***************************************************************************)

Started(s) == \A t \in Elements(s) : thread[t] # "new"

MainWaits ==
  /\ ops < MaxOps
  /\ ops' = ops + 1
  /\ \/ \E t \in Tasks : Started(<<t>>) /\ Begin(Main, [kind |-> "await", on |-> <<t>>])
     \/ \E s \in Lists, k \in {"all", "any"} :
          Started(s) /\ Begin(Main, [kind |-> k, on |-> s])
  /\ UNCHANGED <<thread, cf, todo, result, flag, combined>>

\* cancel(): first thread.interrupt() ...
CancelInterrupts(t) ==
  /\ Free(Main)
  /\ ops < MaxOps
  /\ ops' = ops + 1
  /\ thread[t] # "new"
  /\ flag' = IF thread[t] = "alive" THEN flag \cup {t} ELSE flag
  /\ wait' = [wait EXCEPT ![Main] =
       [kind |-> "cancel", on |-> <<t>>, asked |-> <<t>>, got |-> <<>>]]
  /\ UNCHANGED <<thread, cf, todo, result, calls, helpers, combined>>

\* Wrong on purpose: cancel() only interrupts, and answers as if it had cancelled.
CancelLeavesOpen ==
  /\ wait[Main].kind = "cancel"
  /\ End(Main, "cancelled", <<>>)
  /\ UNCHANGED <<thread, cf, todo, flag, calls, helpers, combined, ops>>

\* Wrong on purpose: cancel() answers for its interrupt, whatever the body did meanwhile.
CancelTrustsInterrupt ==
  /\ wait[Main].kind = "cancel"
  /\ LET t == Head(wait[Main].on) IN
     /\ Complete(t, "cancelled")
     /\ End(Main, IF t \in flag THEN "cancelled" ELSE "failed", <<>>)
  /\ UNCHANGED <<thread, todo, flag, calls, helpers, combined, ops>>

\* ... then cf.cancel(true), which tells whether the future is cancelled.
CancelCompletes ==
  /\ wait[Main].kind = "cancel"
  /\ LET t == Head(wait[Main].on) IN
     /\ Complete(t, "cancelled")
     /\ End(Main, IF cf[t] \in {"pending", "cancelled"} THEN "cancelled" ELSE "failed", <<>>)
  /\ UNCHANGED <<thread, todo, flag, calls, helpers, combined, ops>>

Unblock(x) == Get(x) \/ GetInterrupted(x) \/ AnyReturns(x) \/ AnyInterrupted(x)
TaskStep(t) == TaskWaits(t) \/ TaskEnds(t) \/ Unblock(t)

Next ==
  \/ \E t \in Tasks : Run(t) \/ TaskStep(t) \/ CancelInterrupts(t)
  \/ MainWaits \/ CancelCompletes \/ Unblock(Main)
  \/ \E h \in helpers : Help(h)

\* Every started thread runs: bodies terminate, and a thread whose future is
\* complete is woken.  Main need not start or cancel anything.
Fairness ==
  /\ \A t \in Tasks : WF_vars(TaskStep(t))
  /\ WF_vars(CancelCompletes \/ Unblock(Main))
  /\ WF_vars(\E h \in helpers : Help(h))

Spec == Init /\ [][Next]_vars
FairSpec == Spec /\ Fairness

-----------------------------------------------------------------------------

Ends == {"value", "failed", "cancelled"}
Reports == [kind : {"no", "await", "all", "any", "cancel"}, res : Ends,
            asked : Seq(Tasks), got : Seq(Tasks)]

TasksTyped ==
  /\ thread \in [Tasks -> {"new", "alive", "dead"}]
  /\ cf \in [Tasks -> {"pending"} \cup Ends]
  /\ todo \in [Tasks -> Seq(Waits)]
  /\ wait \in [Threads -> [kind : {"no", "await", "all", "any", "cancel"},
                          on : Seq(Tasks), asked : Seq(Tasks), got : Seq(Tasks)]]
  /\ result \in [Threads -> Reports]
  /\ flag \subseteq Tasks
  /\ calls \in [Threads -> Nat]
  /\ helpers \subseteq [by : Threads, n : Nat, of : Tasks]
  /\ combined \subseteq [by : Threads, n : Nat, of : Tasks]
  /\ ops \in 0..MaxOps

\* runAll returns the results of its futures in list order; when it throws, it
\* reports the first failure in list order, and everything before it succeeded,
\* unless the waiting thread itself was interrupted.
ReportsInListOrder(x) ==
  result[x].kind = "all" =>
    LET r == result[x] IN
    /\ \A k \in 1..Len(r.got) : r.got[k] = r.asked[k] /\ cf[r.got[k]] = "value"
    /\ r.res = "value" => r.got = r.asked
    /\ r.res # "value" /\ x \notin flag =>
         Len(r.got) < Len(r.asked) /\ cf[r.asked[Len(r.got) + 1]] = r.res
AllReportsInListOrder == \A x \in Threads : ReportsInListOrder(x)

\* runAny returns the value of one of its own futures, never that of an earlier
\* call whose helper threads are still running.
ReturnsOneOfItsOwn(x) ==
  result[x].kind = "any" /\ result[x].res = "value" =>
    LET t == result[x].got[1] IN
    t \in Elements(result[x].asked) /\ cf[t] = "value"
AnyReturnsOneOfItsOwn == \A x \in Threads : ReturnsOneOfItsOwn(x)

\* A thread that has been interrupted cannot settle its future any more once
\* cancel() is over: the interrupt and the cancellation come as a pair, so an
\* interrupt flag that await() sets again never spoils a live task.
Cancelling(t) == wait[Main].kind = "cancel" /\ wait[Main].on = <<t>>
InterruptedTasksAreSettled == \A t \in flag : cf[t] # "pending" \/ Cancelling(t)

\* cancel(): the body may end, and others may get its value, between the
\* interrupt and the completion.  When cancel() says it cancelled a task, no
\* thread has a value of it, from any await, runAll or runAny, and none will; when
\* it says it did not, the task has a value or a failure of its own.
CancelAnswered ==
  result[Main].kind = "cancel" =>
    \A t \in Elements(result[Main].asked) :
      cf[t] \in IF result[Main].res = "cancelled" THEN {"cancelled"} ELSE {"value", "failed"}

Got(x) == Elements(wait[x].got) \cup Elements(result[x].got)

CancelTellsTheTruth ==
  /\ CancelAnswered
  /\ result[Main].kind = "cancel" /\ result[Main].res = "cancelled" =>
       \A t \in Elements(result[Main].asked) :
         (\A x \in Threads : t \notin Got(x)) /\ (\A h \in combined : h.of # t)

(* What the four rest on, inductively.                                        *)

\* What a thread has got, in a wait or from the last one, has a value.
GotValues(x) == \A t \in Got(x) : cf[t] = "value"

\* A cancel() under way is about one task.
CancelsOne ==
  wait[Main].kind = "cancel" =>
    \E t \in Tasks : wait[Main].on = <<t>> /\ wait[Main].asked = <<t>>

\* A wait has got the first of its futures, all with a value, and awaits the rest.
GetsInTurn(x) ==
  wait[x].kind \in {"await", "all"} =>
    /\ wait[x].asked = wait[x].got \o wait[x].on
    /\ \A k \in 1..Len(wait[x].got) : cf[wait[x].got[k]] = "value"

\* A helper works for a call that was made, the current one only for its futures.
HelpsItsCall(h) ==
  /\ h.n <= calls[h.by]
  /\ wait[h.by].kind = "any" /\ h.n = calls[h.by] => h.of \in Elements(wait[h.by].asked)

AsyncInv ==
  /\ TasksTyped
  /\ AllReportsInListOrder /\ AnyReturnsOneOfItsOwn /\ InterruptedTasksAreSettled
  /\ \A x \in Threads : GetsInTurn(x)
  /\ \A h \in helpers \cup combined : HelpsItsCall(h)
  /\ \A h \in combined : cf[h.of] = "value"
  /\ wait[Main].kind = "cancel" => wait[Main].on # <<>>

\* What answers of cancel() rest on.
CancelInv == CancelAnswered /\ CancelsOne /\ \A x \in Threads : GotValues(x)

\* A runAny call none of whose futures has, or can still get, a value.
HopelessAny(x) ==
  /\ wait[x].kind = "any"
  /\ \A t \in Elements(wait[x].asked) : cf[t] \in {"failed", "cancelled"}

\* Every await and runAll comes back, whatever is cancelled meanwhile, and so
\* does every runAny, unless some thread is stuck in a runAny that has only
\* failures: no thread waits for ever.
WaitsEnd ==
  \A x \in Threads :
    []<>(wait[x].kind = "no" \/ \E y \in Threads : HopelessAny(y))

=============================================================================
