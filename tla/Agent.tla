------------------------------- MODULE Agent -------------------------------
(***************************************************************************)
(* The generated actor class MochiAgent_<Name> (transpiler/lower/agent.go). *)
(* A handle offers messages to an unbounded LinkedBlockingQueue; one        *)
(* virtual thread takes them, one at a time, and runs the switch arm of     *)
(* the intent.  A void intent returns to its caller at once, a value intent *)
(* blocks on a CompletableFuture, stop() joins the thread.                  *)
(*                                                                         *)
(* An arm is abstracted to its paths: a path is the sequence of lowered     *)
(* statements that matter, and an if statement of the body gives several    *)
(* paths.  The state object is abstracted to the set of messages whose arm  *)
(* has assigned to it, so that a reply shows which updates it has seen.     *)
(***************************************************************************)
EXTENDS Integers, Sequences

CONSTANTS
  Agents,        \* agent instances
  Callers,       \* threads that hold handles: main and async fibres
  Intents,       \* the intents of the agent declaration
  ValueIntents,  \* the intents with a return type other than unit
  Paths,         \* the paths of each intent's switch arm
  MaxSends       \* bound: messages a caller offers

Ops == {"assign", "complete", "return", "throw"}

ASSUME IntentsAssumption ==
  /\ ValueIntents \subseteq Intents
  /\ "Stop" \notin Intents
  /\ Paths \in [Intents -> SUBSET Seq(Ops)]
  /\ MaxSends \in Nat

ASSUME AgentsAssumption == Agents # {}

Message == [from : Callers, n : 1..MaxSends, intent : Intents \cup {"Stop"}]

VARIABLES
  loop,        \* where the agent's virtual thread is
  todo,        \* the rest of the path the agent is running
  mailbox,     \* $$mailbox, in take order
  served,      \* history: the messages taken so far
  state,       \* the messages whose arm has assigned to State
  answered,    \* the completed $$reply futures, with what they were given
  pc,          \* where a caller is
  waits,       \* the agent a blocked caller waits for
  sent,        \* messages offered by a caller
  interrupted, \* the interrupt flag of a caller thread
  joined       \* history: agents a stop() call has returned from normally

agentVars == <<loop, todo, served, state, answered>>
callerVars == <<pc, waits, sent, interrupted, joined>>
vars == <<loop, todo, mailbox, served, state, answered,
          pc, waits, sent, interrupted, joined>>

Init ==
  /\ loop = [a \in Agents |-> "new"]
  /\ todo = [a \in Agents |-> <<>>]
  /\ mailbox = [a \in Agents |-> <<>>]
  /\ served = [a \in Agents |-> <<>>]
  /\ state = [a \in Agents |-> {}]
  /\ answered = {}
  /\ pc = [c \in Callers |-> "idle"]
  /\ waits = [c \in Callers |-> CHOOSE a \in Agents : TRUE]
  /\ sent = [c \in Callers |-> 0]
  /\ interrupted = {}
  /\ joined = {}

Ended(a) == loop[a] \in {"stopped", "killed"}

Current(a) == served[a][Len(served[a])]

IsAnswered(m) == \E r \in answered : r.msg = m

(***************************************************************************)
(* Callers.                                                                 *)
(***************************************************************************)

\* start(): state, mailbox and virtual thread, then the handle.
Start(c, a) ==
  /\ pc[c] = "idle"
  /\ loop[a] = "new"
  /\ loop' = [loop EXCEPT ![a] = "take"]
  /\ UNCHANGED <<todo, mailbox, served, state, answered, callerVars>>

\* Wrong on purpose: a mailbox of capacity 1, whose offer() drops what does not fit.
OfferBounded(c, a, intent, next) ==
  /\ pc[c] = "idle"
  /\ loop[a] # "new"
  /\ sent[c] < MaxSends
  /\ sent' = [sent EXCEPT ![c] = @ + 1]
  /\ mailbox' = IF mailbox[a] # <<>> THEN mailbox ELSE [mailbox EXCEPT
       ![a] = Append(@, [from |-> c, n |-> sent[c] + 1, intent |-> intent])]
  /\ waits' = [waits EXCEPT ![c] = a]
  /\ pc' = [pc EXCEPT ![c] = next]
  /\ UNCHANGED <<agentVars, interrupted, joined>>

\* Wrong on purpose: the message carries the number of the call before it.
OfferStale(c, a, intent, next) ==
  /\ pc[c] = "idle"
  /\ loop[a] # "new"
  /\ sent[c] < MaxSends
  /\ sent' = [sent EXCEPT ![c] = @ + 1]
  /\ mailbox' = [mailbox EXCEPT
       ![a] = Append(@, [from |-> c, n |-> sent[c], intent |-> intent])]
  /\ waits' = [waits EXCEPT ![c] = a]
  /\ pc' = [pc EXCEPT ![c] = next]
  /\ UNCHANGED <<agentVars, interrupted, joined>>

\* $$mailbox.offer(new Message.X(...)); then the caller goes to `next`.
Offer(c, a, intent, next) ==
  /\ pc[c] = "idle"
  /\ loop[a] # "new"
  /\ sent[c] < MaxSends
  /\ sent' = [sent EXCEPT ![c] = @ + 1]
  /\ mailbox' = [mailbox EXCEPT
       ![a] = Append(@, [from |-> c, n |-> sent[c] + 1, intent |-> intent])]
  /\ waits' = [waits EXCEPT ![c] = a]
  /\ pc' = [pc EXCEPT ![c] = next]
  /\ UNCHANGED <<agentVars, interrupted, joined>>

\* A void intent: offer and return.
Tell(c, a, i) == i \notin ValueIntents /\ Offer(c, a, i, "idle")

\* A value intent: offer with a fresh future, then $$f.get().
Ask(c, a, i) == i \in ValueIntents /\ Offer(c, a, i, "await")

\* stop(): offer Stop, then $$thread.join().
Stop(c, a) == Offer(c, a, "Stop", "join")

\* A caller blocks, so the message it waits for is always its latest one.
Awaited(c) == {r \in answered : r.msg.from = c /\ r.msg.n = sent[c]}

\* $$f.get() returns, whatever the interrupt flag says.
Reply(c) ==
  /\ pc[c] = "await"
  /\ Awaited(c) # {}
  /\ pc' = [pc EXCEPT ![c] = "idle"]
  /\ UNCHANGED <<agentVars, mailbox, waits, sent, interrupted, joined>>

\* $$f.get() throws InterruptedException, rethrown as RuntimeException.
\* The message stays in the mailbox.
AwaitInterrupted(c) ==
  /\ pc[c] = "await"
  /\ Awaited(c) = {}
  /\ c \in interrupted
  /\ interrupted' = interrupted \ {c}
  /\ pc' = [pc EXCEPT ![c] = "idle"]
  /\ UNCHANGED <<agentVars, mailbox, waits, sent, joined>>

\* Wrong on purpose: a join() with a time limit.
JoinTimesOut(c) ==
  /\ pc[c] = "join"
  /\ pc' = [pc EXCEPT ![c] = "idle"]
  /\ joined' = joined \cup {waits[c]}
  /\ UNCHANGED <<agentVars, mailbox, waits, sent, interrupted>>

\* $$thread.join() returns.
JoinReturns(c) ==
  /\ pc[c] = "join"
  /\ Ended(waits[c])
  /\ pc' = [pc EXCEPT ![c] = "idle"]
  /\ joined' = joined \cup {waits[c]}
  /\ UNCHANGED <<agentVars, mailbox, waits, sent, interrupted>>

\* join() throws: the flag is set again and stop() returns all the same.
JoinInterrupted(c) ==
  /\ pc[c] = "join"
  /\ ~Ended(waits[c])
  /\ c \in interrupted
  /\ pc' = [pc EXCEPT ![c] = "idle"]
  /\ UNCHANGED <<agentVars, mailbox, waits, sent, interrupted, joined>>

\* Async.cancel() on the fibre the caller runs in.
Interrupt(c) ==
  /\ c \notin interrupted
  /\ interrupted' = interrupted \cup {c}
  /\ UNCHANGED <<agentVars, mailbox, pc, waits, sent, joined>>

(***************************************************************************)
(* The dispatch loop of an agent.                                           *)
(***************************************************************************)

\* Wrong on purpose: the Stop arm breaks out of the switch, not of the loop.
TakeBreaks(a) ==
  /\ loop[a] = "take"
  /\ mailbox[a] # <<>>
  /\ mailbox' = [mailbox EXCEPT ![a] = Tail(@)]
  /\ served' = [served EXCEPT ![a] = Append(@, Head(mailbox[a]))]
  /\ \/ /\ Head(mailbox[a]).intent = "Stop"
        /\ UNCHANGED <<loop, todo>>
     \/ /\ Head(mailbox[a]).intent # "Stop"
        /\ loop' = [loop EXCEPT ![a] = "run"]
        /\ \E p \in Paths[Head(mailbox[a]).intent] :
             todo' = [todo EXCEPT ![a] = p]
  /\ UNCHANGED <<state, answered, callerVars>>

\* Wrong on purpose: the mailbox is a stack.
TakeNewest(a) ==
  /\ loop[a] = "take"
  /\ mailbox[a] # <<>>
  /\ LET m == mailbox[a][Len(mailbox[a])] IN
     /\ mailbox' = [mailbox EXCEPT ![a] = SubSeq(@, 1, Len(@) - 1)]
     /\ served' = [served EXCEPT ![a] = Append(@, m)]
     /\ \/ /\ m.intent = "Stop"
           /\ loop' = [loop EXCEPT ![a] = "stopped"]
           /\ UNCHANGED todo
        \/ /\ m.intent # "Stop"
           /\ loop' = [loop EXCEPT ![a] = "run"]
           /\ \E p \in Paths[m.intent] : todo' = [todo EXCEPT ![a] = p]
  /\ UNCHANGED <<state, answered, callerVars>>

\* $$mailbox.take() and the switch: Stop leaves loop(), an intent enters one
\* path of its arm.
Take(a) ==
  /\ loop[a] = "take"
  /\ mailbox[a] # <<>>
  /\ mailbox' = [mailbox EXCEPT ![a] = Tail(@)]
  /\ served' = [served EXCEPT ![a] = Append(@, Head(mailbox[a]))]
  /\ \/ /\ Head(mailbox[a]).intent = "Stop"
        /\ loop' = [loop EXCEPT ![a] = "stopped"]
        /\ UNCHANGED todo
     \/ /\ Head(mailbox[a]).intent # "Stop"
        /\ loop' = [loop EXCEPT ![a] = "run"]
        /\ \E p \in Paths[Head(mailbox[a]).intent] :
             todo' = [todo EXCEPT ![a] = p]
  /\ UNCHANGED <<state, answered, callerVars>>

At(a, op) == loop[a] = "run" /\ todo[a] # <<>> /\ Head(todo[a]) = op

\* Wrong on purpose: an assignment builds a fresh State and loses the other fields.
AssignAfresh(a) ==
  /\ At(a, "assign")
  /\ state' = [state EXCEPT ![a] = {Current(a)}]
  /\ todo' = [todo EXCEPT ![a] = Tail(@)]
  /\ UNCHANGED <<loop, mailbox, served, answered, callerVars>>

\* s.field = expr
Assign(a) ==
  /\ At(a, "assign")
  /\ state' = [state EXCEPT ![a] = @ \cup {Current(a)}]
  /\ todo' = [todo EXCEPT ![a] = Tail(@)]
  /\ UNCHANGED <<loop, mailbox, served, answered, callerVars>>

\* `return expr` of a value intent: $$reply.complete(expr).  The arm goes on,
\* and only the first complete() of a future has an effect.
Complete(a) ==
  /\ At(a, "complete")
  /\ answered' = IF IsAnswered(Current(a)) THEN answered
                 ELSE answered \cup
                   {[agent |-> a, msg |-> Current(a), val |-> state[a]]}
  /\ todo' = [todo EXCEPT ![a] = Tail(@)]
  /\ UNCHANGED <<loop, mailbox, served, state, callerVars>>

\* A return without a value, or an exception other than InterruptedException,
\* leaves loop(): the thread ends.
LeaveLoop(a) ==
  /\ At(a, "return") \/ At(a, "throw")
  /\ loop' = [loop EXCEPT ![a] = "killed"]
  /\ todo' = [todo EXCEPT ![a] = <<>>]
  /\ UNCHANGED <<mailbox, served, state, answered, callerVars>>

\* The end of the arm: back to while (true).
EndArm(a) ==
  /\ loop[a] = "run"
  /\ todo[a] = <<>>
  /\ loop' = [loop EXCEPT ![a] = "take"]
  /\ UNCHANGED <<todo, mailbox, served, state, answered, callerVars>>

LoopStep(a) == Take(a) \/ Assign(a) \/ Complete(a) \/ LeaveLoop(a) \/ EndArm(a)

Resume(c) == Reply(c) \/ AwaitInterrupted(c) \/ JoinReturns(c) \/ JoinInterrupted(c)

Next ==
  \/ \E c \in Callers, a \in Agents :
       \/ Start(c, a)
       \/ \E i \in Intents : Tell(c, a, i) \/ Ask(c, a, i)
       \/ Stop(c, a)
  \/ \E c \in Callers : Resume(c) \/ Interrupt(c)
  \/ \E a \in Agents : LoopStep(a)

\* The JVM schedules every runnable virtual thread, and wakes a thread whose
\* future is complete or whose joined thread has ended.
Fairness ==
  /\ \A a \in Agents : WF_vars(LoopStep(a))
  /\ \A c \in Callers : WF_vars(Resume(c))

Spec == Init /\ [][Next]_vars
FairSpec == Spec /\ Fairness

-----------------------------------------------------------------------------

Answer == [agent : Agents, msg : Message, val : SUBSET Message]

\* The type invariant: every thread is at a statement of the generated code, and
\* messages and answers carry the numbers of calls that were made.
TypeOK ==
  /\ loop \in [Agents -> {"new", "take", "run", "stopped", "killed"}]
  /\ todo \in [Agents -> Seq(Ops)]
  /\ mailbox \in [Agents -> Seq(Message)]
  /\ served \in [Agents -> Seq(Message)]
  /\ state \in [Agents -> SUBSET Message]
  /\ answered \subseteq Answer
  /\ pc \in [Callers -> {"idle", "await", "join"}]
  /\ waits \in [Callers -> Agents]
  /\ sent \in [Callers -> 0..MaxSends]
  /\ interrupted \subseteq Callers
  /\ joined \subseteq Agents

\* Every message offered to agent a, in the order of the offers.
Log(a) == served[a] \o mailbox[a]

\* A reply reflects exactly the updates of the requests dispatched before its
\* own, whatever the callers interleave: calls on an agent are linearizable in
\* mailbox order.  (The answered request's own update may or may not show: the
\* code completes the future in the middle of the arm.)
AnswersAreSerial ==
  \A r \in answered :
    \E k \in 1..Len(served[r.agent]) :
      /\ served[r.agent][k] = r.msg
      /\ r.val \ {r.msg} =
           state[r.agent] \cap {served[r.agent][j] : j \in 1..(k - 1)}

\* The messages of one caller reach an agent in the order of its calls and each
\* of them once, although the mailbox is shared and an interrupted caller goes
\* on while its request is still queued.
CallerOrder ==
  \A a \in Agents : \A i, j \in 1..Len(Log(a)) :
    i < j /\ Log(a)[i].from = Log(a)[j].from => Log(a)[i].n < Log(a)[j].n

\* Stop is a poison pill: an agent that stopped has dispatched every message
\* offered before the first Stop and none offered after it, and an agent that
\* has not stopped has not passed a Stop.
StopIsLast ==
  \A a \in Agents :
    /\ loop[a] = "stopped" => served[a] # <<>> /\ Current(a).intent = "Stop"
    /\ \A k \in 1..Len(served[a]) :
         served[a][k].intent = "Stop" =>
           k = Len(served[a]) /\ loop[a] = "stopped"

(***************************************************************************)
(* The inductive invariant behind the properties above.                    *)
(***************************************************************************)

\* The arm being run belongs to the last message taken.
Running ==
  \A a \in Agents : loop[a] = "run" =>
    served[a] # <<>> /\ Current(a).intent # "Stop"

\* Numbers on the log are numbers already given out.
Numbered ==
  \A a \in Agents : \A k \in 1..Len(Log(a)) : Log(a)[k].n <= sent[Log(a)[k].from]

\* Only a dispatched message has changed the state.
StateFromServed ==
  \A a \in Agents : \A m \in state[a] : \E k \in 1..Len(served[a]) : served[a][k] = m

JoinedHaveEnded == \A a \in joined : Ended(a)

\* What every step of callers and loop keeps: the type invariant, the three
\* properties above, and the facts about the log they rest on.
IInv ==
  /\ TypeOK /\ Running /\ Numbered /\ CallerOrder
  /\ StateFromServed /\ AnswersAreSerial /\ StopIsLast /\ JoinedHaveEnded

\* Once stop() has returned normally the agent is quiescent: its state does not
\* change and it answers nobody any more.
QuietAfterStop ==
  [][\A a \in joined :
       /\ state'[a] = state[a]
       /\ served'[a] = served[a]
       /\ \A r \in answered' \ answered : r.agent # a]_vars

\* The request caller c waits for will never be answered.
Orphaned(c) ==
  /\ Awaited(c) = {}
  /\ \/ Ended(waits[c])
     \/ \E k \in 1..Len(served[waits[c]]) :
          /\ served[waits[c]][k].from = c
          /\ served[waits[c]][k].n = sent[c]
          /\ k < Len(served[waits[c]]) \/ loop[waits[c]] = "take"

\* A blocked value intent comes back, unless its agent ended first or its arm
\* finished without a reply, and stop() always does: a late answer, an interrupt
\* or another caller's Stop leaves nobody waiting for good.
EveryCallComesBack ==
  \A c \in Callers :
    /\ pc[c] = "await" ~> (pc[c] # "await" \/ Orphaned(c))
    /\ pc[c] = "join" ~> pc[c] # "join"
=============================================================================
