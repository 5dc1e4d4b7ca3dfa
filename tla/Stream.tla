------------------------------- MODULE Stream -------------------------------
(***************************************************************************)
(* Mochi's stream<T> and sub<T> on the JVM: MochiStream wraps a             *)
(* SubmissionPublisher, and each MochiSub copies what the publisher         *)
(* delivers into an unbounded LinkedBlockingQueue of its own.  The          *)
(* publisher is a library: modelled as one bounded buffer per subscriber,   *)
(* filled under the publisher's lock by submit(), which blocks while a      *)
(* buffer is full, and drained in order by one task per subscriber.         *)
(*                                                                         *)
(* Items are numbered in the order their emit() took the lock.              *)
(***************************************************************************)
EXTENDS Integers, Sequences

CONSTANTS
  Subs,       \* subscriber handles
  Readers,    \* threads that call recv()
  BufferCap,  \* the publisher's buffer capacity per subscriber
  NoLimit,    \* Integer.MAX_VALUE, the limit subscribe() passes
  Limit,      \* the limit each handle is created with
  MaxItems    \* bound: items emitted

ASSUME StreamAssumption ==
  /\ BufferCap \in Nat \ {0} /\ MaxItems \in Nat
  /\ Limit \in [Subs -> Nat \cup {NoLimit}]
  /\ NoLimit \notin Nat

DONE == 0
Items == 1..MaxItems

VARIABLES
  emitted,   \* items emitted so far
  unserved,  \* subscribers the submit() in progress has still to serve
  closed,    \* close() was called
  phase,     \* each handle: "none", "attached", "active", "ended"
  since,     \* history: items emitted when the handle subscribed
  buffer,    \* the publisher's buffer of a subscriber
  inbox,     \* the MochiSub's queue
  dropped,   \* history: items onNext dropped
  got,       \* history: what recv() returned, in order, DONE for null
  recv       \* the handle a blocked receiver waits on, or "no"

streamVars == <<emitted, unserved, closed, phase, since, buffer, inbox, dropped, got, recv>>

StreamInit ==
  /\ emitted = 0
  /\ unserved = {}
  /\ closed = FALSE
  /\ phase = [s \in Subs |-> "none"]
  /\ since = [s \in Subs |-> 0]
  /\ buffer = [s \in Subs |-> <<>>]
  /\ inbox = [s \in Subs |-> <<>>]
  /\ dropped = [s \in Subs |-> {}]
  /\ got = [s \in Subs |-> <<>>]
  /\ recv = [r \in Readers |-> "no"]

\* submit() holds the publisher's lock until every subscriber has the item.
Unlocked == unserved = {}
Attached == {s \in Subs : phase[s] # "none"}

\* subscribe() and subscribeWithLimit(): only later items reach the handle.  A
\* closed publisher completes it without delivering anything.
Subscribe(s) ==
  /\ Unlocked /\ phase[s] = "none"
  /\ phase' = [phase EXCEPT ![s] = "attached"]
  /\ since' = [since EXCEPT ![s] = emitted]
  /\ UNCHANGED <<emitted, unserved, closed, buffer, inbox, dropped, got, recv>>

\* emit(): submit() takes the lock.  After close() it throws instead.
Emit ==
  /\ Unlocked /\ ~closed /\ emitted < MaxItems
  /\ emitted' = emitted + 1
  /\ unserved' = Attached
  /\ UNCHANGED <<closed, phase, since, buffer, inbox, dropped, got, recv>>

\* submit() hands the item to a subscriber whose buffer has room.
Submit(s) ==
  /\ s \in unserved
  /\ Len(buffer[s]) < BufferCap
  /\ buffer' = [buffer EXCEPT ![s] = Append(@, emitted)]
  /\ unserved' = unserved \ {s}
  /\ UNCHANGED <<emitted, closed, phase, since, inbox, dropped, got, recv>>

Close ==
  /\ Unlocked /\ ~closed
  /\ closed' = TRUE
  /\ UNCHANGED <<emitted, unserved, phase, since, buffer, inbox, dropped, got, recv>>

\* onSubscribe() asks for Long.MAX_VALUE items.
OnSubscribe(s) ==
  /\ phase[s] = "attached"
  /\ phase' = [phase EXCEPT ![s] = "active"]
  /\ UNCHANGED <<emitted, unserved, closed, since, buffer, inbox, dropped, got, recv>>

\* Wrong on purpose: onNext() waits for room instead of dropping.
OnNextBlocks(s) ==
  /\ phase[s] = "active" /\ buffer[s] # <<>>
  /\ Limit[s] # NoLimit => Len(inbox[s]) < Limit[s]
  /\ buffer' = [buffer EXCEPT ![s] = Tail(@)]
  /\ inbox' = [inbox EXCEPT ![s] = Append(@, Head(buffer[s]))]
  /\ UNCHANGED <<emitted, unserved, closed, phase, since, dropped, got, recv>>

\* Wrong on purpose: one item more than the limit is queued.
OnNextOffByOne(s) ==
  /\ phase[s] = "active" /\ buffer[s] # <<>>
  /\ buffer' = [buffer EXCEPT ![s] = Tail(@)]
  /\ IF Limit[s] # NoLimit /\ Len(inbox[s]) > Limit[s]
     THEN /\ dropped' = [dropped EXCEPT ![s] = @ \cup {Head(buffer[s])}]
          /\ UNCHANGED inbox
     ELSE /\ inbox' = [inbox EXCEPT ![s] = Append(@, Head(buffer[s]))]
          /\ UNCHANGED dropped
  /\ UNCHANGED <<emitted, unserved, closed, phase, since, got, recv>>

\* onNext(): drop the item at the limit, or queue it.
OnNext(s) ==
  /\ phase[s] = "active" /\ buffer[s] # <<>>
  /\ buffer' = [buffer EXCEPT ![s] = Tail(@)]
  /\ IF Limit[s] # NoLimit /\ Len(inbox[s]) >= Limit[s]
     THEN /\ dropped' = [dropped EXCEPT ![s] = @ \cup {Head(buffer[s])}]
          /\ UNCHANGED inbox
     ELSE /\ inbox' = [inbox EXCEPT ![s] = Append(@, Head(buffer[s]))]
          /\ UNCHANGED dropped
  /\ UNCHANGED <<emitted, unserved, closed, phase, since, got, recv>>

\* Wrong on purpose: close() overtakes the items still in the buffer.
OnCompleteEarly(s) ==
  /\ phase[s] = "active" /\ closed
  /\ phase' = [phase EXCEPT ![s] = "ended"]
  /\ inbox' = [inbox EXCEPT ![s] = Append(@, DONE)]
  /\ UNCHANGED <<emitted, unserved, closed, since, buffer, dropped, got, recv>>

\* onComplete(), once the buffer is drained; onError() does the same.
OnComplete(s) ==
  /\ phase[s] = "active" /\ closed /\ buffer[s] = <<>>
  /\ phase' = [phase EXCEPT ![s] = "ended"]
  /\ inbox' = [inbox EXCEPT ![s] = Append(@, DONE)]
  /\ UNCHANGED <<emitted, unserved, closed, since, buffer, dropped, got, recv>>

\* recv() blocks in queue.take() ...
SubRecv(r, s) ==
  /\ recv[r] = "no" /\ phase[s] # "none"
  /\ recv' = [recv EXCEPT ![r] = s]
  /\ UNCHANGED <<emitted, unserved, closed, phase, since, buffer, inbox, dropped, got>>

\* ... and returns the item it takes, or null for DONE.
SubRecvReturns(r) ==
  /\ recv[r] # "no"
  /\ LET s == recv[r] IN
     /\ inbox[s] # <<>>
     /\ inbox' = [inbox EXCEPT ![s] = Tail(@)]
     /\ got' = [got EXCEPT ![s] = Append(@, Head(inbox[s]))]
  /\ recv' = [recv EXCEPT ![r] = "no"]
  /\ UNCHANGED <<emitted, unserved, closed, phase, since, buffer, dropped>>

\* take() is interrupted: recv() throws, and takes nothing.
SubRecvInterrupted(r) ==
  /\ recv[r] # "no"
  /\ recv' = [recv EXCEPT ![r] = "no"]
  /\ UNCHANGED <<emitted, unserved, closed, phase, since, buffer, inbox, dropped, got>>

Deliver(s) == OnSubscribe(s) \/ OnNext(s) \/ OnComplete(s)

StreamNext ==
  \/ Emit \/ Close
  \/ \E s \in Subs : Subscribe(s) \/ Submit(s) \/ Deliver(s)
  \/ \E r \in Readers :
       SubRecvReturns(r) \/ SubRecvInterrupted(r) \/ \E s \in Subs : SubRecv(r, s)

\* The executor runs every subscriber's task, submit() ends when it can, and a
\* receiver is woken when its inbox is not empty.
StreamFairness ==
  /\ \A s \in Subs : WF_streamVars(Submit(s)) /\ WF_streamVars(Deliver(s))
  /\ \A r \in Readers : WF_streamVars(SubRecvReturns(r))

StreamSpec == StreamInit /\ [][StreamNext]_streamVars

-----------------------------------------------------------------------------

\* What a handle has received, is about to receive, and what the publisher
\* still holds for it, oldest first.
Seen(s) == got[s] \o inbox[s] \o buffer[s]
Real(x) == x # DONE
LastOf(s) == IF s \in unserved THEN emitted - 1 ELSE emitted

Occurs(n, q) == \E i \in 1..Len(q) : q[i] = n
Increasing(q) == \A i, j \in 1..Len(q) : i < j /\ Real(q[i]) /\ Real(q[j]) => q[i] < q[j]
SentTo(s, n) == since[s] < n /\ n <= LastOf(s)

\* Only a handle with a limit misses items: onNext dropped those, and only while
\* as many were queued; the end of the stream is queued beside them.
WithinLimit(s) ==
  IF Limit[s] = NoLimit THEN dropped[s] = {}
  ELSE Len(inbox[s]) <= Limit[s] + (IF phase[s] = "ended" THEN 1 ELSE 0)

\* Broadcast: a handle that has subscribed is sent every later item, in the one
\* order of all emits, without a gap and without a repetition, whatever the
\* other handles, the receivers and their interrupts do.
EveryItemInOrder ==
  \A s \in Attached :
    /\ Increasing(Seen(s))
    /\ \A n \in Items : Occurs(n, Seen(s)) <=> SentTo(s, n) /\ n \notin dropped[s]
    /\ WithinLimit(s)

\* The end of the stream comes once, after everything emitted before close().
EndIsLast ==
  \A s \in Subs : \A i \in 1..Len(Seen(s)) :
    Seen(s)[i] = DONE => closed /\ i = Len(Seen(s)) /\ s \notin unserved

(* What the two rest on, inductively.                                        *)

StreamTyped ==
  /\ emitted \in 0..MaxItems /\ unserved \subseteq Attached
  /\ phase \in [Subs -> {"none", "attached", "active", "ended"}]
  /\ since \in [Subs -> 0..MaxItems]
  /\ buffer \in [Subs -> Seq(Items)]
  /\ inbox \in [Subs -> Seq(Items \cup {DONE})]
  /\ got \in [Subs -> Seq(Items \cup {DONE})]
  /\ dropped \in [Subs -> SUBSET Items]
  /\ recv \in [Readers -> Subs \cup {"no"}]

Delivered(s) == got[s] \o inbox[s]

\* What onNext has been given is older than what it will be given.
DeliveredFirst(s) ==
  /\ Increasing(Delivered(s)) /\ Increasing(buffer[s])
  /\ \A j \in 1..Len(buffer[s]) :
       /\ \A i \in 1..Len(Delivered(s)) : Delivered(s)[i] < buffer[s][j]
       /\ \A n \in dropped[s] : n < buffer[s][j]

\* An item sent to a handle is delivered, on its way or dropped.
AccountedFor(s) ==
  /\ since[s] <= LastOf(s)
  /\ \A n \in dropped[s] : SentTo(s, n)
  /\ \A n \in Items : Occurs(n, Delivered(s)) \/ Occurs(n, buffer[s]) <=>
                       SentTo(s, n) /\ n \notin dropped[s]

\* The end is queued when close() has been called and the buffer is empty.
EndsOnce(s) ==
  /\ phase[s] = "ended" => closed /\ buffer[s] = <<>>
  /\ \A i \in 1..Len(Delivered(s)) :
       Delivered(s)[i] = DONE => phase[s] = "ended" /\ i = Len(Delivered(s))

Unused(s) == got[s] = <<>> /\ inbox[s] = <<>> /\ buffer[s] = <<>> /\ dropped[s] = {}

HandleInv(s) ==
  /\ phase[s] = "none" => Unused(s)
  /\ DeliveredFirst(s) /\ EndsOnce(s) /\ WithinLimit(s)
  /\ phase[s] # "none" => AccountedFor(s)

StreamInv ==
  /\ StreamTyped
  /\ closed => unserved = {}
  /\ \A s \in Subs : HandleInv(s)

\* Handles copy what they are sent into queues of their own, so an emit() in
\* progress returns, and after close() every handle gets its end of stream, even
\* if nobody ever calls recv().
NoReceiverHoldsUp ==
  /\ []<>Unlocked
  /\ \A s \in Subs : []<>(closed /\ phase[s] # "none" => phase[s] = "ended")

\* "Returns null when the stream has ended" (MochiSub.java): a recv() on a
\* handle whose stream has ended returns.
RecvReturnsAtEnd ==
  \A r \in Readers, s \in Subs :
    (recv[r] = s /\ phase[s] = "ended") ~> recv[r] = "no"
=============================================================================
