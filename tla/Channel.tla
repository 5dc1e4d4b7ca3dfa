------------------------------ MODULE Channel ------------------------------
(***************************************************************************)
(* Mochi's chan<T> on the JVM (transpiler/lower/stream.go, ChanUtil.java):  *)
(* a LinkedBlockingQueue of fixed capacity.  A send is                      *)
(*   try { ch.put(v); } catch (InterruptedException e) { interrupt(); }     *)
(* and a receive is ChanUtil.take(ch), which rethrows.  put() and take()    *)
(* also throw when they are entered with the interrupt flag set.            *)
(***************************************************************************)
EXTENDS Integers, Sequences

CONSTANTS
  Senders, Receivers,
  Cap,       \* capacity of the queue
  MaxSends   \* bound: send statements a sender executes

\* new LinkedBlockingQueue(cap) throws unless cap > 0.
ASSUME CapAssumption == Cap \in Nat \ {0} /\ MaxSends \in Nat

\* A thread of the model sends or receives; what a thread is blocked in shows.
ASSUME RolesAssumption == Senders \cap Receivers = {}

Fibres == Senders \cup Receivers
Item == [from : Senders, n : 1..MaxSends]

VARIABLES
  queue,       \* the LinkedBlockingQueue
  received,    \* history: the items received
  lost,        \* history: the items whose send was swallowed
  sent,        \* send statements each sender has completed
  at,          \* "out", or "in" while blocked in put() or take()
  interrupted  \* threads whose interrupt flag is set

channelVars == <<queue, received, lost, sent, at, interrupted>>

ChannelInit ==
  /\ queue = <<>>
  /\ received = <<>>
  /\ lost = {}
  /\ sent = [s \in Senders |-> 0]
  /\ at = [t \in Fibres |-> "out"]
  /\ interrupted = {}

Val(s) == [from |-> s, n |-> sent[s] + 1]

\* The send statement is over; the program goes on either way.
SendDone(s) ==
  /\ sent' = [sent EXCEPT ![s] = @ + 1]
  /\ at' = [at EXCEPT ![s] = "out"]

\* The catch arm sets the flag again and the statement ends normally.
Swallow(s) ==
  /\ lost' = lost \cup {Val(s)}
  /\ SendDone(s)
  /\ UNCHANGED <<queue, received, interrupted>>

\* put() throws at once when the thread is already interrupted.
SendEnter(s) ==
  /\ at[s] = "out" /\ sent[s] < MaxSends
  /\ \/ s \in interrupted /\ Swallow(s)
     \/ /\ s \notin interrupted
        /\ at' = [at EXCEPT ![s] = "in"]
        /\ UNCHANGED <<queue, received, lost, sent, interrupted>>

\* Wrong on purpose: offer() instead of put(): a full channel drops the value.
PutOrDrop(s) ==
  /\ at[s] = "in"
  /\ queue' = IF Len(queue) < Cap THEN Append(queue, Val(s)) ELSE queue
  /\ SendDone(s)
  /\ UNCHANGED <<received, lost, interrupted>>

\* Wrong on purpose: a ring buffer that keeps one slot free.
PutShort(s) ==
  /\ at[s] = "in"
  /\ Len(queue) < Cap - 1
  /\ queue' = Append(queue, Val(s))
  /\ SendDone(s)
  /\ UNCHANGED <<received, lost, interrupted>>

\* put() of an uninterrupted or already admitted send: waits for room.
Put(s) ==
  /\ at[s] = "in"
  /\ Len(queue) < Cap
  /\ queue' = Append(queue, Val(s))
  /\ SendDone(s)
  /\ UNCHANGED <<received, lost, interrupted>>

PutInterrupted(s) == at[s] = "in" /\ s \in interrupted /\ Swallow(s)

\* take() throws at once when the thread is already interrupted: the receive
\* then raises RuntimeException and nothing is taken.
RecvEnter(r) ==
  /\ at[r] = "out" /\ r \notin interrupted
  /\ at' = [at EXCEPT ![r] = "in"]
  /\ UNCHANGED <<queue, received, lost, sent, interrupted>>

\* Wrong on purpose: the newest item first.
TakeNewest(r) ==
  /\ at[r] = "in"
  /\ queue # <<>>
  /\ queue' = SubSeq(queue, 1, Len(queue) - 1)
  /\ received' = Append(received, queue[Len(queue)])
  /\ at' = [at EXCEPT ![r] = "out"]
  /\ UNCHANGED <<lost, sent, interrupted>>

\* take() waits for an item.
Take(r) ==
  /\ at[r] = "in"
  /\ queue # <<>>
  /\ queue' = Tail(queue)
  /\ received' = Append(received, Head(queue))
  /\ at' = [at EXCEPT ![r] = "out"]
  /\ UNCHANGED <<lost, sent, interrupted>>

TakeInterrupted(r) ==
  /\ at[r] = "in" /\ r \in interrupted
  /\ at' = [at EXCEPT ![r] = "out"]
  /\ UNCHANGED <<queue, received, lost, sent, interrupted>>

\* Async.cancel() of the fibre.
Interrupt(t) ==
  /\ t \notin interrupted
  /\ interrupted' = interrupted \cup {t}
  /\ UNCHANGED <<queue, received, lost, sent, at>>

ChannelNext ==
  \/ \E s \in Senders : SendEnter(s) \/ Put(s) \/ PutInterrupted(s)
  \/ \E r \in Receivers : RecvEnter(r) \/ Take(r) \/ TakeInterrupted(r)
  \/ \E t \in Fibres : Interrupt(t)

\* A thread inside put() or take() is woken when it can go on.
ChannelFairness ==
  /\ \A s \in Senders : WF_channelVars(Put(s) \/ PutInterrupted(s))
  /\ \A r \in Receivers : WF_channelVars(Take(r) \/ TakeInterrupted(r))

ChannelSpec == ChannelInit /\ [][ChannelNext]_channelVars
FairChannelSpec == ChannelSpec /\ ChannelFairness

-----------------------------------------------------------------------------

\* The type invariant: the queue never exceeds the capacity it was made with, and
\* a blocked send is one of the sends the thread executes.
ChannelTypeOK ==
  /\ queue \in Seq(Item) /\ Len(queue) <= Cap
  /\ received \in Seq(Item)
  /\ lost \subseteq Item
  /\ sent \in [Senders -> 0..MaxSends]
  /\ at \in [Fibres -> {"out", "in"}]
  /\ interrupted \subseteq Fibres
  /\ \A s \in Senders : at[s] = "in" => sent[s] < MaxSends

Log == received \o queue

\* What one sender puts into the channel comes out once and in its order, with
\* any number of senders and receivers.
SenderOrder ==
  \A i, j \in 1..Len(Log) :
    i < j /\ Log[i].from = Log[j].from => Log[i].n < Log[j].n

\* A send statement that has ended either put its value into the channel or
\* swallowed an interrupt, and never both.
SentOrLost ==
  \A s \in Senders : \A n \in 1..sent[s] :
    LET it == [from |-> s, n |-> n] IN
    (\E i \in 1..Len(Log) : Log[i] = it) <=> it \notin lost

\* The first send a cancelled fibre loses is followed by no send that gets
\* through: the flag set again by the catch arm makes every later put() throw.
LossIsForGood ==
  \A it \in lost :
    /\ it.from \in interrupted
    /\ \A i \in 1..Len(Log) : Log[i].from = it.from => Log[i].n < it.n

\* Of what a sender sends, a first part comes out in order and the rest, from the
\* first interrupted send on, is lost.
NoSilentLoss == SentOrLost /\ LossIsForGood

\* A fibre that has lost a send is in no other, and what is logged or lost is one
\* of the sends that have ended.
LosersAreOut == \A it \in lost : at[it.from] = "out"
Counted ==
  /\ \A i \in 1..Len(Log) : Log[i].n <= sent[Log[i].from]
  /\ \A it \in lost : it.n <= sent[it.from]

\* What every step of every thread preserves.
ChannelInv == ChannelTypeOK /\ SenderOrder /\ NoSilentLoss /\ LosersAreOut /\ Counted

\* No thread stays in put() while the channel has room, or in take() while it has
\* an item: whoever can go on is woken, again and again.
WaitersWake ==
  /\ \A s \in Senders : []<>(at[s] = "out" \/ Len(queue) = Cap)
  /\ \A r \in Receivers : []<>(at[r] = "out" \/ queue = <<>>)

=============================================================================
