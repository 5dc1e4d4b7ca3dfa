--------------------------- MODULE ChannelProofs ---------------------------
(* Theorems about Channel, for any number of senders and receivers, any        *)
(* capacity and any number of sends, and about Stream, for any handles, limits, *)
(* buffers and readers.                                                       *)
EXTENDS Channel, Stream, DataLemmas

(***************************************************************************)
(* What the actions do to the log.                                         *)
(***************************************************************************)

\* The log is a sequence of items.
LEMMA LogTyped ==
  ASSUME ChannelTypeOK
  PROVE  /\ Log \in Seq(Item) /\ Len(Log) \in Nat
         /\ \A i \in 1..Len(Log) : Log[i] \in Item
  <1>1. Log \in Seq(Item)
    BY ConcatProperties DEF ChannelTypeOK, Log
  <1> QED
    BY <1>1, LenProperties, ElementOfSeq

\* The item of a send that is under way.
LEMMA ValTyped ==
  ASSUME ChannelTypeOK, NEW s \in Senders, sent[s] < MaxSends
  PROVE  Val(s) \in Item /\ Val(s).from = s /\ Val(s).n = sent[s] + 1
  <1>1. sent[s] + 1 \in 1..MaxSends
    BY CapAssumption DEF ChannelTypeOK
  <1> QED
    BY <1>1 DEF Val, Item

\* A send appends its item.
LEMMA PutLog ==
  ASSUME ChannelTypeOK, NEW s \in Senders, Put(s)
  PROVE  /\ sent[s] < MaxSends
         /\ Log' = Append(Log, Val(s))
         /\ Len(Log') = Len(Log) + 1
         /\ Log'[Len(Log) + 1] = Val(s)
         /\ \A i \in 1..Len(Log) : Log'[i] = Log[i]
  <1>1. sent[s] < MaxSends
    BY DEF ChannelTypeOK, Put, Fibres
  <1>2. Val(s) \in Item
    BY <1>1, ValTyped
  <1>3. received \in Seq(Item) /\ queue \in Seq(Item)
    BY DEF ChannelTypeOK
  <1>4. Log' = received \o Append(queue, Val(s))
    BY DEF Log, Put
  <1>5. Log' = Append(Log, Val(s))
    BY <1>2, <1>3, <1>4, ConcatAppend DEF Log
  <1>6. Log \in Seq(Item)
    BY LogTyped
  <1> QED
    BY <1>1, <1>2, <1>5, <1>6, AppendProperties

\* A receive moves an item within the log.
LEMMA TakeLog ==
  ASSUME ChannelTypeOK, NEW r \in Receivers, Take(r)
  PROVE  Log' = Log
  BY ConcatShift DEF ChannelTypeOK, Take, Log

(***************************************************************************)
(* The inductive invariant.                                                *)
(***************************************************************************)

LEMMA InitChannelInv == ChannelInit => ChannelInv
  <1> SUFFICES ASSUME ChannelInit PROVE ChannelInv
    OBVIOUS
  <1>1. received = <<>> /\ queue = <<>> /\ lost = {} /\ Len(<<>>) = 0
    BY DEF ChannelInit
  <1>2. Log = <<>> /\ 1..Len(Log) = {}
    BY <1>1, ConcatEmptySeq DEF Log
  <1>3. ChannelTypeOK
    <2>1. <<>> \in Seq(Item) /\ Len(<<>>) <= Cap
      BY CapAssumption, EmptySeq
    <2>2. sent \in [Senders -> 0..MaxSends] /\ at \in [Fibres -> {"out", "in"}]
      BY CapAssumption DEF ChannelInit
    <2>3. \A s \in Senders : at[s] = "out"
      BY DEF ChannelInit, Fibres
    <2> QED
      BY <2>1, <2>2, <2>3 DEF ChannelInit, ChannelTypeOK
  <1>4. \A s \in Senders : 1..sent[s] = {}
    <2> SUFFICES ASSUME NEW s \in Senders PROVE 1..sent[s] = {}
      OBVIOUS
    <2>1. sent[s] = 0
      BY DEF ChannelInit
    <2>2. 1..0 = {}
      OBVIOUS
    <2> QED
      BY <2>1, <2>2
  <1> QED
    BY <1>1, <1>2, <1>3, <1>4
       DEF ChannelInv, SenderOrder, NoSilentLoss, SentOrLost, LossIsForGood,
           LosersAreOut, Counted

\* A step that ends no send and leaves the log as it is.
LEMMA QuietStep ==
  ASSUME ChannelInv, ChannelTypeOK', Log' = Log, lost' = lost, sent' = sent,
         interrupted \subseteq interrupted',
         \A s \in Senders : at[s] = "out" /\ s \in interrupted => at'[s] = "out"
  PROVE  ChannelInv'
  <1>1. SenderOrder' /\ SentOrLost' /\ LossIsForGood' /\ Counted'
    BY DEF ChannelInv, SenderOrder, NoSilentLoss, SentOrLost, LossIsForGood, Counted
  <1>2. LosersAreOut'
    BY DEF ChannelInv, LosersAreOut, NoSilentLoss, LossIsForGood, ChannelTypeOK, Item
  <1> QED
    BY <1>1, <1>2 DEF ChannelInv, NoSilentLoss

\* An interrupted send loses its item, the next of its sender.
LEMMA SwallowKeeps ==
  ASSUME ChannelInv, NEW s \in Senders, s \in interrupted, sent[s] < MaxSends, Swallow(s)
  PROVE  ChannelInv'
  <1>0. ChannelTypeOK /\ Val(s) \in Item /\ Val(s).from = s /\ Val(s).n = sent[s] + 1
    BY ValTyped DEF ChannelInv
  <1>1. ChannelTypeOK'
    BY <1>0, CapAssumption DEF ChannelTypeOK, Swallow, SendDone, Fibres
  <1>2. Log' = Log
    BY DEF Log, Swallow
  <1>3. \A i \in 1..Len(Log) : Log[i] \in Item /\ Log[i].n <= sent[Log[i].from]
    BY <1>0, LogTyped DEF ChannelInv, Counted
  <1>4. /\ lost' = lost \cup {Val(s)} /\ interrupted' = interrupted
        /\ sent' = [sent EXCEPT ![s] = @ + 1]
        /\ at' = [at EXCEPT ![s] = "out"]
        /\ lost \subseteq Item
    BY <1>0 DEF Swallow, SendDone, ChannelTypeOK
  <1>5. SenderOrder'
    BY <1>2 DEF ChannelInv, SenderOrder
  <1>6. SentOrLost'
    <2> SUFFICES ASSUME NEW t \in Senders, NEW n \in 1..sent'[t]
                 PROVE  LET it == [from |-> t, n |-> n] IN
                        (\E i \in 1..Len(Log) : Log[i] = it) <=> it \notin lost'
      BY <1>2 DEF SentOrLost
    <2>1. CASE t = s /\ n = sent[s] + 1
      <3>1. [from |-> t, n |-> n] = Val(s)
        BY <2>1 DEF Val
      <3>2. \A i \in 1..Len(Log) : Log[i] # Val(s)
        BY <1>0, <1>3 DEF ChannelTypeOK
      <3> QED
        BY <1>4, <3>1, <3>2
    <2>2. CASE ~(t = s /\ n = sent[s] + 1)
      <3>1. n \in 1..sent[t]
        BY <1>0, <1>4, <2>2 DEF ChannelTypeOK
      <3>2. [from |-> t, n |-> n] # Val(s)
        BY <2>2 DEF Val
      <3> QED
        BY <1>4, <3>1, <3>2 DEF ChannelInv, NoSilentLoss, SentOrLost
    <2> QED
      BY <2>1, <2>2
  <1>7. LossIsForGood'
    <2> SUFFICES ASSUME NEW it \in lost'
                 PROVE  /\ it.from \in interrupted
                        /\ \A i \in 1..Len(Log) : Log[i].from = it.from => Log[i].n < it.n
      BY <1>2, <1>4 DEF LossIsForGood
    <2>1. CASE it \in lost
      BY <2>1 DEF ChannelInv, NoSilentLoss, LossIsForGood
    <2>2. CASE it = Val(s)
      BY <1>0, <1>3, <2>2 DEF ChannelTypeOK, Item
    <2> QED
      BY <1>4, <2>1, <2>2
  <1>8. LosersAreOut'
    BY <1>0, <1>4 DEF ChannelInv, LosersAreOut, ChannelTypeOK, Item, Fibres
  <1>9. Counted'
    <2>1. \A t \in Senders : sent'[t] \in Nat /\ sent[t] \in Nat /\ sent[t] <= sent'[t]
      BY <1>0, <1>4 DEF ChannelTypeOK
    <2>2. \A i \in 1..Len(Log) : Log[i].n <= sent'[Log[i].from]
      BY <1>3, <2>1 DEF Item
    <2>3. \A it \in lost : it.n <= sent'[it.from]
      BY <1>4, <2>1 DEF ChannelInv, Counted, Item
    <2>4. Val(s).n <= sent'[s]
      BY <1>0, <1>4 DEF ChannelTypeOK
    <2> QED
      BY <1>0, <1>2, <1>4, <2>2, <2>3, <2>4 DEF Counted
  <1> QED
    BY <1>1, <1>5, <1>6, <1>7, <1>8, <1>9 DEF ChannelInv, NoSilentLoss

\* A send that gets through: its sender has lost none, and its item is the
\* sender's newest.
LEMMA PutKeeps ==
  ASSUME ChannelInv, NEW s \in Senders, Put(s)
  PROVE  ChannelInv'
  <1>0. /\ ChannelTypeOK /\ sent[s] < MaxSends
        /\ Val(s) \in Item /\ Val(s).from = s /\ Val(s).n = sent[s] + 1
    BY PutLog, ValTyped DEF ChannelInv
  <1>1. /\ queue' = Append(queue, Val(s)) /\ Len(queue) < Cap /\ at[s] = "in"
        /\ lost' = lost /\ interrupted' = interrupted /\ received' = received
        /\ sent' = [sent EXCEPT ![s] = @ + 1]
        /\ at' = [at EXCEPT ![s] = "out"]
    BY DEF Put, SendDone
  <1>2. ChannelTypeOK'
    <2>1. queue' \in Seq(Item) /\ Len(queue') <= Cap
      BY <1>0, <1>1, AppendProperties, CapAssumption, LenProperties DEF ChannelTypeOK
    <2> QED
      BY <1>0, <1>1, <2>1, CapAssumption DEF ChannelTypeOK, Fibres
  <1>3. /\ Len(Log') = Len(Log) + 1 /\ Len(Log) \in Nat
        /\ Log'[Len(Log) + 1] = Val(s)
        /\ \A i \in 1..Len(Log) : /\ Log'[i] = Log[i] /\ Log[i] \in Item
                                  /\ Log[i].n <= sent[Log[i].from]
    BY <1>0, PutLog, LogTyped DEF ChannelInv, Counted
  <1>4. \A it \in lost : it \in Item /\ it.from # s
    BY <1>0, <1>1 DEF ChannelInv, LosersAreOut, ChannelTypeOK
  <1>5. SenderOrder'
    <2> SUFFICES ASSUME NEW i \in 1..Len(Log'), NEW j \in 1..Len(Log'),
                        i < j, Log'[i].from = Log'[j].from
                 PROVE  Log'[i].n < Log'[j].n
      BY DEF SenderOrder
    <2>1. i \in 1..Len(Log)
      BY <1>3
    <2>2. CASE j \in 1..Len(Log)
      BY <1>3, <2>1, <2>2 DEF ChannelInv, SenderOrder
    <2>3. CASE j = Len(Log) + 1
      <3>1. Log'[j] = Val(s) /\ Log'[i] = Log[i] /\ Log[i].from = s
        BY <1>0, <1>3, <2>1, <2>3
      <3>2. Log[i] \in Item /\ Log[i].n <= sent[s]
        BY <1>3, <2>1, <3>1
      <3> QED
        BY <1>0, <3>1, <3>2 DEF ChannelTypeOK, Item
    <2> QED
      BY <1>3, <2>2, <2>3
  <1>6. SentOrLost'
    <2> SUFFICES ASSUME NEW t \in Senders, NEW n \in 1..sent'[t]
                 PROVE  LET it == [from |-> t, n |-> n] IN
                        (\E i \in 1..Len(Log') : Log'[i] = it) <=> it \notin lost
      BY <1>1 DEF SentOrLost
    <2>1. CASE t = s /\ n = sent[s] + 1
      <3>1. [from |-> t, n |-> n] = Val(s)
        BY <2>1 DEF Val
      <3>2. Len(Log) + 1 \in 1..Len(Log')
        BY <1>3
      <3> QED
        BY <1>0, <1>3, <1>4, <3>1, <3>2
    <2>2. CASE ~(t = s /\ n = sent[s] + 1)
      <3>1. n \in 1..sent[t]
        BY <1>0, <1>1, <2>2 DEF ChannelTypeOK
      <3>2. [from |-> t, n |-> n] # Val(s)
        BY <2>2 DEF Val
      <3>3. (\E i \in 1..Len(Log') : Log'[i] = [from |-> t, n |-> n])
            <=> (\E i \in 1..Len(Log) : Log[i] = [from |-> t, n |-> n])
        BY <1>3, <3>2
      <3> QED
        BY <3>1, <3>3 DEF ChannelInv, NoSilentLoss, SentOrLost
    <2> QED
      BY <2>1, <2>2
  <1>7. LossIsForGood'
    <2> SUFFICES ASSUME NEW it \in lost, NEW i \in 1..Len(Log'), Log'[i].from = it.from
                 PROVE  Log'[i].n < it.n
      BY <1>1 DEF ChannelInv, NoSilentLoss, LossIsForGood
    <2>1. i # Len(Log) + 1
      BY <1>0, <1>3, <1>4
    <2>2. i \in 1..Len(Log)
      BY <1>3, <2>1
    <2> QED
      BY <1>3, <2>2 DEF ChannelInv, NoSilentLoss, LossIsForGood
  <1>8. LosersAreOut'
    BY <1>0, <1>1, <1>4 DEF ChannelInv, LosersAreOut, ChannelTypeOK, Item, Fibres
  <1>9. Counted'
    <2>1. \A t \in Senders : sent'[t] \in Nat /\ sent[t] \in Nat /\ sent[t] <= sent'[t]
      BY <1>0, <1>1 DEF ChannelTypeOK
    <2>2. \A i \in 1..Len(Log') : Log'[i].n <= sent'[Log'[i].from]
      <3> SUFFICES ASSUME NEW i \in 1..Len(Log') PROVE Log'[i].n <= sent'[Log'[i].from]
        OBVIOUS
      <3>1. CASE i \in 1..Len(Log)
        BY <1>3, <2>1, <3>1 DEF Item
      <3>2. CASE i = Len(Log) + 1
        BY <1>0, <1>1, <1>3, <3>2 DEF ChannelTypeOK
      <3> QED
        BY <1>3, <3>1, <3>2
    <2>3. \A it \in lost : it.n <= sent'[it.from]
      BY <1>4, <2>1 DEF ChannelInv, Counted, Item
    <2> QED
      BY <1>1, <2>2, <2>3 DEF Counted
  <1> QED
    BY <1>2, <1>5, <1>6, <1>7, <1>8, <1>9 DEF ChannelInv, NoSilentLoss

LEMMA StepChannelInv == ChannelInv /\ [ChannelNext]_channelVars => ChannelInv'
  <1> SUFFICES ASSUME ChannelInv, [ChannelNext]_channelVars PROVE ChannelInv'
    OBVIOUS
  <1>0. ChannelTypeOK
    BY DEF ChannelInv
  <1>1. ASSUME NEW s \in Senders, SendEnter(s)
        PROVE  ChannelInv'
    <2>1. CASE s \in interrupted /\ Swallow(s)
      BY <1>1, <2>1, SwallowKeeps DEF SendEnter
    <2>2. CASE s \notin interrupted /\ at' = [at EXCEPT ![s] = "in"]
               /\ UNCHANGED <<queue, received, lost, sent, interrupted>>
      <3>1. ChannelTypeOK'
        BY <1>0, <1>1, <2>2 DEF ChannelTypeOK, Fibres, SendEnter
      <3> QED
        BY <1>0, <2>2, <3>1, QuietStep DEF Log, ChannelTypeOK, Fibres
    <2> QED
      BY <1>1, <2>1, <2>2 DEF SendEnter
  <1>2. ASSUME NEW s \in Senders, Put(s)
        PROVE  ChannelInv'
    BY <1>2, PutKeeps
  <1>3. ASSUME NEW s \in Senders, PutInterrupted(s)
        PROVE  ChannelInv'
    BY <1>0, <1>3, SwallowKeeps DEF PutInterrupted, ChannelTypeOK, Fibres
  <1>4. ASSUME NEW r \in Receivers, RecvEnter(r)
        PROVE  ChannelInv'
    <2>1. ChannelTypeOK' /\ (r \in Senders => sent[r] < MaxSends)
      BY <1>0, <1>4, RolesAssumption DEF ChannelTypeOK, Fibres, RecvEnter
    <2> QED
      BY <1>0, <1>4, <2>1, QuietStep DEF Log, ChannelTypeOK, Fibres, RecvEnter
  <1>5. ASSUME NEW r \in Receivers, Take(r)
        PROVE  ChannelInv'
    <2>1. ChannelTypeOK'
      BY <1>0, <1>5, HeadTailProperties, AppendProperties, CapAssumption, LenProperties
         DEF ChannelTypeOK, Fibres, Take
    <2> QED
      BY <1>0, <1>5, <2>1, QuietStep, TakeLog DEF ChannelTypeOK, Fibres, Take
  <1>6. ASSUME NEW r \in Receivers, TakeInterrupted(r)
        PROVE  ChannelInv'
    <2>1. ChannelTypeOK'
      BY <1>0, <1>6 DEF ChannelTypeOK, Fibres, TakeInterrupted
    <2> QED
      BY <1>0, <1>6, <2>1, QuietStep DEF Log, ChannelTypeOK, Fibres, TakeInterrupted
  <1>7. ASSUME NEW t \in Fibres, Interrupt(t)
        PROVE  ChannelInv'
    <2>1. ChannelTypeOK'
      BY <1>0, <1>7 DEF ChannelTypeOK, Interrupt
    <2> QED
      BY <1>0, <1>7, <2>1, QuietStep DEF Log, Interrupt
  <1>8. CASE UNCHANGED channelVars
    <2>1. ChannelTypeOK'
      BY <1>0, <1>8 DEF ChannelTypeOK, channelVars
    <2> QED
      BY <1>0, <1>8, <2>1, QuietStep DEF Log, channelVars
  <1> QED
    BY <1>1, <1>2, <1>3, <1>4, <1>5, <1>6, <1>7, <1>8 DEF ChannelNext

(***************************************************************************)
(* The theorems.                                                           *)
(***************************************************************************)

\* The channel never holds more than it was made for, and its history is made of
\* sends.
THEOREM ChannelTypeCorrect == ChannelSpec => []ChannelTypeOK
  <1>1. ChannelInv => ChannelTypeOK
    BY DEF ChannelInv
  <1> QED
    BY <1>1, InitChannelInv, StepChannelInv, PTL DEF ChannelSpec

\* What one sender puts in comes out once and in its order, whatever other senders
\* and receivers and interrupts do.
THEOREM ChannelKeepsOrder == ChannelSpec => []SenderOrder
  <1>1. ChannelInv => SenderOrder
    BY DEF ChannelInv
  <1> QED
    BY <1>1, InitChannelInv, StepChannelInv, PTL DEF ChannelSpec

\* A send that has ended was put in or swallowed, and after the first one that
\* was swallowed nothing of that sender gets through.
THEOREM ChannelLosesKnowingly == ChannelSpec => []NoSilentLoss
  <1>1. ChannelInv => NoSilentLoss
    BY DEF ChannelInv
  <1> QED
    BY <1>1, InitChannelInv, StepChannelInv, PTL DEF ChannelSpec

(***************************************************************************)
(* Streams.                                                                *)
(***************************************************************************)

Marks == Items \cup {DONE}

LEMMA ItemsAreNumbers == Items \subseteq Nat \ {0} /\ Marks \subseteq Nat /\ DONE \notin Items
  BY StreamAssumption DEF Items, Marks, DONE

LEMMA LaterMark ==
  \A p, q \in Seq(Marks), x \in Marks : p \o Append(q, x) = Append(p \o q, x)
  BY ConcatAppend

\* A queue one item longer.
LEMMA AppendGrows ==
  ASSUME NEW q \in Seq(Marks), NEW x \in Marks
  PROVE  /\ Append(q, x) \in Seq(Marks) /\ Len(Append(q, x)) = Len(q) + 1
         /\ Append(q, x)[Len(q) + 1] = x
         /\ \A i \in 1..Len(q) : Append(q, x)[i] = q[i]
         /\ \A n : Occurs(n, Append(q, x)) <=> Occurs(n, q) \/ n = x
         /\ Increasing(q) /\ (\A i \in 1..Len(q) : q[i] < x) => Increasing(Append(q, x))
  <1> DEFINE u == Append(q, x)
  <1>1. /\ u \in Seq(Marks) /\ Len(u) = Len(q) + 1 /\ u[Len(q) + 1] = x /\ Len(q) \in Nat
        /\ \A i \in 1..Len(q) : u[i] = q[i]
    BY AppendProperties, LenProperties
  <1>2. Len(q) + 1 \in 1..Len(u) /\ \A i \in 1..Len(u) : i \in 1..Len(q) \/ i = Len(q) + 1
    BY <1>1
  <1>3. \A i \in 1..Len(q) : i \in 1..Len(u) /\ q[i] \in Nat
    <2>1. \A i \in 1..Len(q) : q[i] \in Marks
      BY ElementOfSeq
    <2>2. \A i \in 1..Len(q) : q[i] \in Nat
      BY <2>1, ItemsAreNumbers
    <2> QED
      BY <1>1, <2>2
  <1> HIDE DEF u
  <1>4. \A n : Occurs(n, u) <=> Occurs(n, q) \/ n = x
    BY <1>1, <1>2, <1>3 DEF Occurs
  <1>5. ASSUME Increasing(q), \A i \in 1..Len(q) : q[i] < x,
               NEW i \in 1..Len(u), NEW j \in 1..Len(u), i < j, Real(u[i]), Real(u[j])
        PROVE  u[i] < u[j]
    <2>1. i \in 1..Len(q)
      BY <1>1, <1>5
    <2>2. CASE j \in 1..Len(q)
      BY <1>1, <1>5, <2>1, <2>2 DEF Increasing
    <2>3. CASE j = Len(q) + 1
      BY <1>1, <1>5, <2>1, <2>3
    <2> QED
      BY <1>2, <2>2, <2>3
  <1> QED
    BY <1>1, <1>4, <1>5 DEF Increasing, u

\* A queue without its head.
LEMMA TailShrinks ==
  ASSUME NEW q \in Seq(Marks), q # <<>>
  PROVE  /\ Head(q) \in Marks /\ Tail(q) \in Seq(Marks) /\ Len(Tail(q)) = Len(q) - 1
         /\ Head(q) = q[1] /\ Len(q) \in Nat \ {0}
         /\ \A i \in 1..Len(Tail(q)) : i + 1 \in 1..Len(q) /\ Tail(q)[i] = q[i + 1]
         /\ \A n : Occurs(n, q) <=> Occurs(n, Tail(q)) \/ n = Head(q)
         /\ Increasing(q) => Increasing(Tail(q))
  <1> DEFINE u == Tail(q)
  <1>1. /\ Head(q) \in Marks /\ u \in Seq(Marks) /\ Len(u) = Len(q) - 1
        /\ Head(q) = q[1] /\ Len(q) \in Nat \ {0}
        /\ \A i \in 1..Len(u) : u[i] = q[i + 1]
    BY HeadTailProperties, LenProperties, EmptySeq
  <1>2. /\ \A i \in 1..Len(u) : i + 1 \in 1..Len(q)
        /\ \A i \in 1..Len(q) : i = 1 \/ (i - 1 \in 1..Len(u) /\ (i - 1) + 1 = i)
        /\ 1 \in 1..Len(q)
    BY <1>1
  <1> HIDE DEF u
  <1>3. \A n : Occurs(n, q) <=> Occurs(n, u) \/ n = Head(q)
    <2>1. ASSUME NEW n, NEW i \in 1..Len(q), q[i] = n PROVE Occurs(n, u) \/ n = Head(q)
      BY <1>1, <1>2, <2>1 DEF Occurs
    <2>2. ASSUME NEW n, NEW i \in 1..Len(u), u[i] = n PROVE Occurs(n, q)
      BY <1>1, <1>2, <2>2 DEF Occurs
    <2>3. Occurs(Head(q), q)
      BY <1>1, <1>2 DEF Occurs
    <2> QED
      BY <2>1, <2>2, <2>3 DEF Occurs
  <1>4. Increasing(q) => Increasing(u)
    <2> SUFFICES ASSUME Increasing(q), NEW i \in 1..Len(u), NEW j \in 1..Len(u), i < j,
                        Real(u[i]), Real(u[j])
                 PROVE  u[i] < u[j]
      BY DEF Increasing
    <2>1. i + 1 < j + 1 /\ u[i] = q[i + 1] /\ u[j] = q[j + 1]
      BY <1>1
    <2> QED
      BY <1>2, <2>1 DEF Increasing
  <1> QED
    BY <1>1, <1>2, <1>3, <1>4 DEF u

\* The queues of a handle.
LEMMA QueuesTyped ==
  ASSUME StreamTyped, NEW s \in Subs
  PROVE  /\ got[s] \in Seq(Marks) /\ inbox[s] \in Seq(Marks) /\ buffer[s] \in Seq(Items)
         /\ Delivered(s) \in Seq(Marks)
         /\ Len(Delivered(s)) = Len(got[s]) + Len(inbox[s])
         /\ Len(Delivered(s)) \in Nat /\ Len(buffer[s]) \in Nat /\ Len(inbox[s]) \in Nat
         /\ \A i \in 1..Len(Delivered(s)) : Delivered(s)[i] \in Marks
         /\ \A i \in 1..Len(buffer[s]) : buffer[s][i] \in Items
  <1>1. got[s] \in Seq(Marks) /\ inbox[s] \in Seq(Marks) /\ buffer[s] \in Seq(Items)
    BY DEF StreamTyped, Marks
  <1>2. Delivered(s) \in Seq(Marks) /\ Len(Delivered(s)) = Len(got[s]) + Len(inbox[s])
    BY <1>1, ConcatProperties DEF Delivered
  <1> QED
    BY <1>1, <1>2, LenProperties, ElementOfSeq

\* A handle for which nothing is new, but that a reader may take from its inbox.
LEMMA HandleRests ==
  ASSUME StreamInv, StreamTyped', NEW s \in Subs,
         phase'[s] = phase[s], since'[s] = since[s], buffer'[s] = buffer[s],
         dropped'[s] = dropped[s], closed => closed',
         phase[s] # "none" => LastOf(s)' = LastOf(s),
         Delivered(s)' = Delivered(s), Len(inbox'[s]) <= Len(inbox[s]),
         phase[s] = "none" => got'[s] = got[s] /\ inbox'[s] = inbox[s]
  PROVE  HandleInv(s)'
  <1>1. HandleInv(s) /\ StreamTyped
    BY DEF StreamInv
  <1>2. phase'[s] = "none" => Unused(s)'
    BY <1>1 DEF HandleInv, Unused
  <1>3. DeliveredFirst(s)' /\ EndsOnce(s)'
    BY <1>1 DEF HandleInv, DeliveredFirst, EndsOnce
  <1>4. Len(inbox[s]) \in Nat /\ Len(inbox'[s]) \in Nat /\ Limit[s] \in Nat \cup {NoLimit}
    BY <1>1, QueuesTyped, StreamAssumption, LenProperties DEF StreamTyped
  <1>5. WithinLimit(s)'
    BY <1>1, <1>4 DEF HandleInv, WithinLimit
  <1>6. phase'[s] # "none" => AccountedFor(s)'
    BY <1>1 DEF HandleInv, AccountedFor, SentTo
  <1> QED
    BY <1>2, <1>3, <1>5, <1>6 DEF HandleInv

\* The item being submitted is younger than all the handle was sent.
LEMMA SubmitKeeps ==
  ASSUME StreamInv, StreamTyped', NEW s \in Subs, Submit(s)
  PROVE  HandleInv(s)'
  <1> DEFINE d == Delivered(s)  b == buffer[s]
  <1>1. HandleInv(s) /\ StreamTyped /\ s \in unserved /\ phase[s] # "none"
    BY DEF StreamInv, StreamTyped, Submit, Attached
  <1>2. /\ d \in Seq(Marks) /\ b \in Seq(Items) /\ Len(b) \in Nat /\ Len(d) \in Nat
        /\ \A i \in 1..Len(d) : d[i] \in Marks
        /\ \A i \in 1..Len(b) : b[i] \in Items
    BY <1>1, QueuesTyped
  <1>3. emitted \in Nat /\ since[s] \in Nat /\ Items \subseteq Nat \ {0} /\ Marks \subseteq Nat
    BY <1>1, ItemsAreNumbers, StreamAssumption DEF StreamTyped
  <1>4. /\ buffer'[s] = Append(b, emitted) /\ Delivered(s)' = d
        /\ UNCHANGED <<emitted, closed, phase, since, inbox, got, dropped>>
        /\ LastOf(s) = emitted - 1 /\ LastOf(s)' = emitted
    BY <1>1 DEF Submit, StreamTyped, Delivered, LastOf
  <1>5. emitted \in Items /\ since[s] < emitted /\ AccountedFor(s)
    BY <1>1, <1>3, <1>4 DEF HandleInv, AccountedFor, StreamTyped, Items
  <1>6. /\ Len(buffer'[s]) = Len(b) + 1 /\ buffer'[s][Len(b) + 1] = emitted
        /\ \A i \in 1..Len(b) : buffer'[s][i] = b[i]
        /\ \A n : Occurs(n, buffer'[s]) <=> Occurs(n, b) \/ n = emitted
        /\ Increasing(b) /\ (\A i \in 1..Len(b) : b[i] < emitted) => Increasing(buffer'[s])
    <2>1. b \in Seq(Marks) /\ emitted \in Marks
      BY <1>2, <1>5, SeqMonotonic DEF Marks
    <2> QED
      BY <1>4, <2>1, AppendGrows
  <1>7. \A n \in Items : Occurs(n, d) \/ Occurs(n, b) \/ n \in dropped[s] => n < emitted
    <2> SUFFICES ASSUME NEW n \in Items, Occurs(n, d) \/ Occurs(n, b) \/ n \in dropped[s]
                 PROVE  n < emitted
      OBVIOUS
    <2>1. SentTo(s, n)
      BY <1>5 DEF AccountedFor
    <2>2. n \in Nat /\ n <= emitted - 1
      BY <1>3, <1>4, <2>1 DEF SentTo
    <2> QED
      BY <1>3, <2>2
  <1>8. \A i \in 1..Len(d) : d[i] < emitted
    <2> SUFFICES ASSUME NEW i \in 1..Len(d) PROVE d[i] < emitted
      OBVIOUS
    <2>1. CASE d[i] = DONE
      BY <1>3, <1>5, <2>1 DEF DONE
    <2>2. CASE d[i] \in Items
      <3>1. Occurs(d[i], d)
        BY DEF Occurs
      <3> QED
        BY <1>7, <2>2, <3>1
    <2> QED
      BY <1>2, <2>1, <2>2 DEF Marks
  <1>9. \A i \in 1..Len(b) : b[i] < emitted
    BY <1>2, <1>7 DEF Occurs
  <1>10. \A n \in dropped[s] : n < emitted
    BY <1>1, <1>7 DEF StreamTyped
  <1>11. DeliveredFirst(s)'
    <2>1. Increasing(buffer'[s])
      BY <1>1, <1>6, <1>9 DEF HandleInv, DeliveredFirst
    <2>2. ASSUME NEW j \in 1..(Len(b) + 1)
          PROVE  /\ \A i \in 1..Len(d) : d[i] < buffer'[s][j]
                 /\ \A n \in dropped[s] : n < buffer'[s][j]
      <3>1. CASE j = Len(b) + 1
        BY <1>6, <1>8, <1>10, <3>1
      <3>2. CASE j \in 1..Len(b)
        <4>1. DeliveredFirst(s) /\ buffer'[s][j] = b[j]
          BY <1>1, <1>6, <3>2 DEF HandleInv
        <4> QED
          BY <4>1, <3>2 DEF DeliveredFirst
      <3> QED
        BY <1>2, <3>1, <3>2
    <2> QED
      BY <1>1, <1>4, <1>6, <2>1, <2>2 DEF HandleInv, DeliveredFirst
  <1>13. AccountedFor(s)'
    <2>1. ASSUME NEW n \in Items PROVE SentTo(s, n)' <=> SentTo(s, n) \/ n = emitted
      <3>1. n \in Nat /\ since'[s] = since[s]
        BY <1>3, <1>4
      <3> QED
        BY <1>3, <1>4, <1>5, <3>1 DEF SentTo
    <2>2. \A n \in dropped'[s] : SentTo(s, n)'
      BY <1>1, <1>4, <1>5, <2>1 DEF AccountedFor, StreamTyped
    <2>3. emitted \notin dropped[s] /\ UNCHANGED dropped[s]
      BY <1>3, <1>4, <1>10
    <2> QED
      BY <1>3, <1>4, <1>5, <1>6, <2>1, <2>2, <2>3 DEF AccountedFor
  <1>14. EndsOnce(s)' /\ WithinLimit(s)'
    BY <1>1, <1>4 DEF HandleInv, EndsOnce, WithinLimit, StreamInv, Submit
  <1> QED
    BY <1>1, <1>4, <1>11, <1>13, <1>14 DEF HandleInv

\* onNext() takes the oldest item of the buffer, which is younger than all that
\* was delivered or dropped.
LEMMA OnNextKeeps ==
  ASSUME StreamInv, StreamTyped', NEW s \in Subs, OnNext(s)
  PROVE  HandleInv(s)'
  <1> DEFINE d == Delivered(s)  b == buffer[s]  x == Head(b)
  <1>1. HandleInv(s) /\ StreamTyped /\ phase[s] = "active" /\ b # <<>>
    BY DEF StreamInv, OnNext
  <1>2. /\ d \in Seq(Marks) /\ b \in Seq(Items) /\ b \in Seq(Marks) /\ inbox[s] \in Seq(Marks)
        /\ got[s] \in Seq(Marks) /\ Len(d) \in Nat /\ Len(inbox[s]) \in Nat
        /\ \A i \in 1..Len(d) : d[i] \in Marks
        /\ \A i \in 1..Len(b) : b[i] \in Items
    BY <1>1, QueuesTyped, SeqMonotonic DEF Marks
  <1>3. Items \subseteq Nat \ {0} /\ Marks \subseteq Nat /\ Items \subseteq Marks
    BY ItemsAreNumbers DEF Marks
  <1>4. /\ buffer'[s] = Tail(b) /\ LastOf(s)' = LastOf(s)
        /\ UNCHANGED <<emitted, closed, phase, since, got>>
    BY <1>1 DEF OnNext, StreamTyped, LastOf
  <1>5. /\ x = b[1] /\ Len(b) \in Nat \ {0} /\ Len(Tail(b)) = Len(b) - 1 /\ Increasing(Tail(b))
        /\ \A i \in 1..Len(Tail(b)) : i + 1 \in 1..Len(b) /\ Tail(b)[i] = b[i + 1]
        /\ \A n : Occurs(n, b) <=> Occurs(n, Tail(b)) \/ n = x
    BY <1>1, <1>2, TailShrinks DEF HandleInv, DeliveredFirst
  <1>6. x \in Items /\ 1 \in 1..Len(b)
    BY <1>2, <1>5
  <1>7. \A i \in 1..Len(Tail(b)) : x < Tail(b)[i] /\ Tail(b)[i] \in Items
    <2> SUFFICES ASSUME NEW i \in 1..Len(Tail(b)) PROVE x < Tail(b)[i] /\ Tail(b)[i] \in Items
      OBVIOUS
    <2>1. i + 1 \in 1..Len(b) /\ 1 < i + 1 /\ Tail(b)[i] = b[i + 1] /\ Len(Tail(b)) = Len(b) - 1
      BY <1>5
    <2>2. b[i + 1] \in Items /\ Real(b[1]) /\ Real(b[i + 1])
      BY <1>2, <1>3, <1>6, <1>5, <2>1 DEF Real, DONE
    <2> QED
      BY <1>1, <1>5, <1>6, <2>1, <2>2 DEF HandleInv, DeliveredFirst, Increasing
  <1>8. /\ \A i \in 1..Len(d) : d[i] < x
        /\ \A n \in dropped[s] : n < x
    BY <1>1, <1>5, <1>6 DEF HandleInv, DeliveredFirst
  <1>9. AccountedFor(s) /\ DeliveredFirst(s) /\ EndsOnce(s) /\ WithinLimit(s)
    BY <1>1 DEF HandleInv
  <1>10. SentTo(s, x) /\ x \notin dropped[s]
    BY <1>3, <1>5, <1>6, <1>8, <1>9 DEF AccountedFor
  <1>11. CASE dropped' = [dropped EXCEPT ![s] = @ \cup {x}] /\ UNCHANGED inbox
              /\ Limit[s] # NoLimit
    <2>1. dropped'[s] = dropped[s] \cup {x} /\ Delivered(s)' = d
      BY <1>1, <1>4, <1>11 DEF StreamTyped, Delivered
    <2>2. ~Occurs(x, d) /\ ~Occurs(x, Tail(b))
      <3>0. \A n \in Nat : ~(n < n)
        OBVIOUS
      <3>1. ~(x < x)
        BY <1>3, <1>6, <3>0, Zenon
      <3> QED
        BY <1>7, <1>8, <3>1 DEF Occurs
    <2>3. DeliveredFirst(s)'
      BY <1>4, <1>5, <1>7, <1>9, <2>1 DEF DeliveredFirst
    <2>4. AccountedFor(s)'
      BY <1>4, <1>5, <1>6, <1>9, <1>10, <2>1, <2>2 DEF AccountedFor, SentTo
    <2>5. EndsOnce(s)' /\ WithinLimit(s)'
      BY <1>1, <1>4, <1>9, <1>11, <2>1 DEF EndsOnce, WithinLimit
    <2> QED
      BY <1>1, <1>4, <2>3, <2>4, <2>5 DEF HandleInv
  <1>12. CASE inbox' = [inbox EXCEPT ![s] = Append(@, x)] /\ UNCHANGED dropped
              /\ (Limit[s] = NoLimit \/ Len(inbox[s]) < Limit[s])
    <2>1. inbox'[s] = Append(inbox[s], x) /\ Len(inbox'[s]) = Len(inbox[s]) + 1
      BY <1>1, <1>2, <1>3, <1>6, <1>12, AppendGrows DEF StreamTyped
    <2>2. Delivered(s)' = Append(d, x)
      <3>1. x \in Marks
        BY <1>3, <1>6
      <3>2. got[s] \o Append(inbox[s], x) = Append(got[s] \o inbox[s], x)
        BY <1>2, <3>1, LaterMark
      <3> QED
        BY <1>4, <2>1, <3>2 DEF Delivered
    <2>3. /\ Len(Append(d, x)) = Len(d) + 1 /\ Append(d, x)[Len(d) + 1] = x
          /\ \A i \in 1..Len(d) : Append(d, x)[i] = d[i]
          /\ \A n : Occurs(n, Append(d, x)) <=> Occurs(n, d) \/ n = x
          /\ Increasing(Append(d, x))
      BY <1>2, <1>3, <1>6, <1>8, <1>9, AppendGrows DEF DeliveredFirst
    <2>4. \A i \in 1..(Len(d) + 1) : i \in 1..Len(d) \/ i = Len(d) + 1
      BY <1>2
    <2>5. DeliveredFirst(s)'
      <3>1. ASSUME NEW j \in 1..Len(Tail(b))
            PROVE  /\ \A i \in 1..(Len(d) + 1) : Append(d, x)[i] < Tail(b)[j]
                   /\ \A n \in dropped[s] : n < Tail(b)[j]
        BY <1>5, <1>7, <1>9, <2>3, <2>4 DEF DeliveredFirst
      <3> QED
        BY <1>4, <1>5, <1>12, <2>2, <2>3, <3>1 DEF DeliveredFirst
    <2>6. AccountedFor(s)'
      BY <1>4, <1>5, <1>9, <1>10, <1>12, <2>2, <2>3 DEF AccountedFor, SentTo
    <2>7. EndsOnce(s)'
      BY <1>1, <1>2, <1>3, <1>4, <1>6, <1>9, <2>2, <2>3, <2>4 DEF EndsOnce, DONE
    <2>8. WithinLimit(s)'
      BY <1>1, <1>2, <1>4, <1>9, <1>12, <2>1, StreamAssumption DEF WithinLimit
    <2> QED
      BY <1>1, <1>4, <2>5, <2>6, <2>7, <2>8 DEF HandleInv
  <1> QED
    BY <1>1, <1>2, <1>11, <1>12, StreamAssumption DEF OnNext

\* The end of the stream is queued when nothing is left to deliver.
LEMMA OnCompleteKeeps ==
  ASSUME StreamInv, StreamTyped', NEW s \in Subs, OnComplete(s)
  PROVE  HandleInv(s)'
  <1> DEFINE d == Delivered(s)
  <1>1. HandleInv(s) /\ StreamTyped /\ phase[s] = "active" /\ closed /\ buffer[s] = <<>>
    BY DEF StreamInv, OnComplete
  <1>2. /\ d \in Seq(Marks) /\ inbox[s] \in Seq(Marks) /\ got[s] \in Seq(Marks)
        /\ Len(d) \in Nat /\ Len(inbox[s]) \in Nat /\ \A i \in 1..Len(d) : d[i] \in Marks
    BY <1>1, QueuesTyped
  <1>3. /\ phase'[s] = "ended" /\ inbox'[s] = Append(inbox[s], DONE) /\ LastOf(s)' = LastOf(s)
        /\ UNCHANGED <<emitted, closed, since, buffer, dropped, got>>
    BY <1>1 DEF OnComplete, StreamTyped, LastOf
  <1>4. DONE \in Marks /\ DONE \notin Items
    BY ItemsAreNumbers DEF Marks
  <1>5. Delivered(s)' = Append(d, DONE) /\ Len(inbox'[s]) = Len(inbox[s]) + 1
    <2>1. got[s] \o Append(inbox[s], DONE) = Append(got[s] \o inbox[s], DONE)
      BY <1>2, <1>4, LaterMark
    <2> QED
      BY <1>2, <1>3, <1>4, <2>1, AppendGrows DEF Delivered
  <1>6. /\ Len(Append(d, DONE)) = Len(d) + 1 /\ Append(d, DONE)[Len(d) + 1] = DONE
        /\ \A i \in 1..Len(d) : Append(d, DONE)[i] = d[i]
        /\ \A n : Occurs(n, Append(d, DONE)) <=> Occurs(n, d) \/ n = DONE
    BY <1>2, <1>4, AppendGrows
  <1>7. \A i \in 1..(Len(d) + 1) : i \in 1..Len(d) \/ i = Len(d) + 1
    BY <1>2
  <1>8. DeliveredFirst(s) /\ AccountedFor(s) /\ EndsOnce(s) /\ WithinLimit(s)
    BY <1>1 DEF HandleInv
  <1>9. Increasing(Append(d, DONE))
    <2> SUFFICES ASSUME NEW i \in 1..(Len(d) + 1), NEW j \in 1..(Len(d) + 1), i < j,
                        Real(Append(d, DONE)[i]), Real(Append(d, DONE)[j])
                 PROVE  Append(d, DONE)[i] < Append(d, DONE)[j]
      BY <1>6 DEF Increasing
    <2>1. i \in 1..Len(d) /\ j \in 1..Len(d)
      BY <1>6, <1>7 DEF Real
    <2> QED
      BY <1>6, <1>8, <2>1 DEF DeliveredFirst, Increasing
  <1>10. DeliveredFirst(s)'
    <2>1. Len(buffer'[s]) = 0
      BY <1>1, <1>3
    <2> QED
      BY <1>3, <1>5, <1>8, <1>9, <2>1 DEF DeliveredFirst
  <1>11. AccountedFor(s)'
    BY <1>3, <1>4, <1>5, <1>6, <1>8 DEF AccountedFor, SentTo
  <1>12. EndsOnce(s)'
    BY <1>1, <1>3, <1>5, <1>6, <1>7, <1>8 DEF EndsOnce
  <1>13. WithinLimit(s)'
    BY <1>1, <1>2, <1>3, <1>5, <1>8, StreamAssumption DEF WithinLimit
  <1> QED
    BY <1>3, <1>10, <1>11, <1>12, <1>13 DEF HandleInv

\* recv() moves the oldest mark of the inbox to what was received.
LEMMA RecvKeeps ==
  ASSUME StreamInv, StreamTyped', NEW r \in Readers, SubRecvReturns(r), NEW s \in Subs
  PROVE  HandleInv(s)'
  <1>1. StreamTyped /\ UNCHANGED <<emitted, unserved, closed, phase, since, buffer, dropped>>
    BY DEF StreamInv, SubRecvReturns
  <1>2. LastOf(s)' = LastOf(s)
    BY <1>1 DEF LastOf
  <1>3. CASE recv[r] # s
    <2>1. inbox'[s] = inbox[s] /\ got'[s] = got[s] /\ Len(inbox[s]) \in Nat
      BY <1>1, <1>3, QueuesTyped DEF SubRecvReturns, StreamTyped
    <2>2. Delivered(s)' = Delivered(s) /\ Len(inbox'[s]) <= Len(inbox[s])
      BY <2>1 DEF Delivered
    <2> QED
      BY <1>1, <1>2, <2>1, <2>2, HandleRests
  <1>4. CASE recv[r] = s
    <2>1. /\ inbox[s] # <<>> /\ inbox'[s] = Tail(inbox[s])
          /\ got'[s] = Append(got[s], Head(inbox[s]))
      BY <1>1, <1>4 DEF SubRecvReturns, StreamTyped
    <2>2. got[s] \in Seq(Marks) /\ inbox[s] \in Seq(Marks) /\ Len(inbox[s]) \in Nat
      BY <1>1, QueuesTyped
    <2>3. Append(got[s], Head(inbox[s])) \o Tail(inbox[s]) = got[s] \o inbox[s]
      BY <2>1, <2>2, ConcatShift
    <2>4. Len(inbox'[s]) <= Len(inbox[s])
      BY <2>1, <2>2, TailShrinks
    <2>5. phase[s] # "none"
      BY <2>1 DEF StreamInv, HandleInv, Unused
    <2> QED
      BY <1>1, <1>2, <2>1, <2>3, <2>4, <2>5, HandleRests DEF Delivered
  <1> QED
    BY <1>3, <1>4

\* A new handle has been sent nothing.
LEMMA SubscribeKeeps ==
  ASSUME StreamInv, StreamTyped', NEW s \in Subs, Subscribe(s)
  PROVE  HandleInv(s)'
  <1>1. /\ StreamTyped /\ phase[s] = "none" /\ Unused(s) /\ unserved = {} /\ emitted \in Nat
        /\ WithinLimit(s)
    BY StreamAssumption DEF StreamInv, Subscribe, Unlocked, HandleInv, StreamTyped
  <1>2. /\ phase'[s] = "attached" /\ since'[s] = emitted
        /\ UNCHANGED <<emitted, unserved, closed, buffer, inbox, dropped, got>>
    BY <1>1 DEF Subscribe, StreamTyped
  <1>3. LastOf(s)' = emitted
    BY <1>1, <1>2 DEF LastOf
  <1>4. Delivered(s)' = <<>> /\ buffer'[s] = <<>> /\ dropped'[s] = {}
    BY <1>1, <1>2 DEF Unused, Delivered
  <1>5. \A n : ~Occurs(n, <<>>)
    BY DEF Occurs
  <1>6. DeliveredFirst(s)' /\ EndsOnce(s)'
    BY <1>2, <1>4 DEF DeliveredFirst, EndsOnce, Increasing
  <1>7. AccountedFor(s)'
    <2>1. \A n \in Items : n \in Nat
      BY ItemsAreNumbers
    <2> QED
      BY <1>1, <1>2, <1>3, <1>4, <1>5, <2>1 DEF AccountedFor, SentTo
  <1>8. WithinLimit(s)'
    BY <1>1, <1>2 DEF WithinLimit
  <1> QED
    BY <1>2, <1>6, <1>7, <1>8 DEF HandleInv

LEMMA InitStreamInv == StreamInit => StreamInv
  <1> SUFFICES ASSUME StreamInit PROVE StreamInv
    OBVIOUS
  <1>1. StreamTyped
    BY StreamAssumption, EmptySeq DEF StreamInit, StreamTyped, Attached
  <1>2. ASSUME NEW s \in Subs PROVE HandleInv(s)
    <2>1. /\ phase[s] = "none" /\ Unused(s) /\ Limit[s] \in Nat \cup {NoLimit}
      BY StreamAssumption DEF StreamInit, Unused
    <2>2. Delivered(s) = <<>>
      BY <2>1 DEF Unused, Delivered
    <2>3. DeliveredFirst(s) /\ EndsOnce(s)
      BY <2>1, <2>2 DEF Unused, DeliveredFirst, EndsOnce, Increasing
    <2>4. WithinLimit(s)
      BY <2>1, StreamAssumption DEF Unused, WithinLimit
    <2> QED
      BY <2>1, <2>3, <2>4 DEF HandleInv
  <1> QED
    BY <1>1, <1>2 DEF StreamInit, StreamInv

LEMMA StreamStepTyped ==
  ASSUME StreamInv, [StreamNext]_streamVars
  PROVE  StreamTyped' /\ (closed' => unserved' = {})
  <1>1. /\ emitted \in 0..MaxItems /\ unserved \subseteq Attached
        /\ phase \in [Subs -> {"none", "attached", "active", "ended"}]
        /\ since \in [Subs -> 0..MaxItems] /\ buffer \in [Subs -> Seq(Items)]
        /\ inbox \in [Subs -> Seq(Marks)] /\ got \in [Subs -> Seq(Marks)]
        /\ dropped \in [Subs -> SUBSET Items] /\ recv \in [Readers -> Subs \cup {"no"}]
        /\ (closed => unserved = {}) /\ MaxItems \in Nat
    BY StreamAssumption DEF StreamInv, StreamTyped, Marks
  <1> DEFINE Typed == /\ emitted \in 0..MaxItems /\ unserved \subseteq Attached
        /\ phase \in [Subs -> {"none", "attached", "active", "ended"}]
        /\ since \in [Subs -> 0..MaxItems] /\ buffer \in [Subs -> Seq(Items)]
        /\ inbox \in [Subs -> Seq(Marks)] /\ got \in [Subs -> Seq(Marks)]
        /\ dropped \in [Subs -> SUBSET Items] /\ recv \in [Readers -> Subs \cup {"no"}]
        /\ (closed => unserved = {})
  <1>2. ASSUME Emit \/ Close \/ UNCHANGED streamVars
        PROVE  Typed'
    <2>1. /\ UNCHANGED <<phase, since, buffer, inbox, dropped, got, recv>>
          /\ emitted' \in 0..MaxItems
      BY <1>1, <1>2 DEF Emit, Close, streamVars
    <2>2. Attached' = Attached
      BY <2>1 DEF Attached
    <2>3. unserved' \subseteq Attached /\ (closed' => unserved' = {})
      BY <1>1, <1>2 DEF Emit, Close, streamVars, Unlocked
    <2> QED
      BY <1>1, <2>1, <2>2, <2>3
  <1>3. ASSUME NEW s \in Subs, Subscribe(s) \/ OnSubscribe(s)
        PROVE  Typed'
    <2>1. /\ UNCHANGED <<emitted, unserved, closed, buffer, inbox, dropped, got, recv>>
          /\ \E p \in {"attached", "active"} : phase' = [phase EXCEPT ![s] = p]
          /\ since' \in [Subs -> 0..MaxItems]
      BY <1>1, <1>3 DEF Subscribe, OnSubscribe
    <2>2. phase' \in [Subs -> {"none", "attached", "active", "ended"}]
      BY <1>1, <2>1
    <2>3. Attached \subseteq Attached'
      BY <1>1, <2>1 DEF Attached
    <2> QED
      BY <1>1, <2>1, <2>2, <2>3
  <1>4. ASSUME NEW s \in Subs, Submit(s)
        PROVE  Typed'
    <2>1. AccountedFor(s) /\ s \in unserved
      BY <1>1, <1>4 DEF Submit, StreamInv, HandleInv, Attached
    <2>2. emitted \in Items
      BY <1>1, <2>1 DEF AccountedFor, LastOf, Items
    <2>3. Append(buffer[s], emitted) \in Seq(Items)
      BY <1>1, <2>2, AppendProperties
    <2> QED
      BY <1>1, <1>4, <2>3 DEF Submit, Attached
  <1>5. ASSUME NEW s \in Subs, OnNext(s)
        PROVE  Typed'
    <2>1. Head(buffer[s]) \in Items /\ Tail(buffer[s]) \in Seq(Items)
      BY <1>1, <1>5, HeadTailProperties DEF OnNext
    <2>2. Append(inbox[s], Head(buffer[s])) \in Seq(Marks)
      BY <1>1, <2>1, AppendProperties DEF Marks
    <2>3. /\ UNCHANGED <<emitted, unserved, closed, phase, since, got, recv>>
          /\ buffer' = [buffer EXCEPT ![s] = Tail(@)]
      BY <1>5 DEF OnNext
    <2>4. dropped' \in [Subs -> SUBSET Items] /\ inbox' \in [Subs -> Seq(Marks)]
      <3>1. CASE UNCHANGED inbox
                 /\ dropped' = [dropped EXCEPT ![s] = @ \cup {Head(buffer[s])}]
        BY <1>1, <2>1, <3>1
      <3>2. CASE UNCHANGED dropped
                 /\ inbox' = [inbox EXCEPT ![s] = Append(@, Head(buffer[s]))]
        BY <1>1, <2>2, <3>2
      <3> QED
        BY <1>5, <3>1, <3>2 DEF OnNext
    <2> QED
      BY <1>1, <2>1, <2>3, <2>4 DEF Attached
  <1>6. ASSUME NEW s \in Subs, OnComplete(s)
        PROVE  Typed'
    <2>1. Append(inbox[s], DONE) \in Seq(Marks)
      BY <1>1, AppendProperties DEF Marks
    <2> QED
      BY <1>1, <1>6, <2>1 DEF OnComplete, Attached
  <1>7. ASSUME NEW r \in Readers, SubRecvReturns(r)
        PROVE  Typed'
    <2>1. recv[r] \in Subs /\ inbox[recv[r]] # <<>>
      BY <1>1, <1>7 DEF SubRecvReturns
    <2>2. Append(got[recv[r]], Head(inbox[recv[r]])) \in Seq(Marks) /\ Tail(inbox[recv[r]]) \in Seq(Marks)
      BY <1>1, <2>1, HeadTailProperties, AppendProperties
    <2> QED
      BY <1>1, <1>7, <2>1, <2>2 DEF SubRecvReturns, Attached
  <1>8. ASSUME NEW r \in Readers, SubRecvInterrupted(r) \/ \E s \in Subs : SubRecv(r, s)
        PROVE  Typed'
    <2>1. /\ UNCHANGED <<emitted, unserved, closed, phase, since, buffer, inbox, dropped, got>>
          /\ \E w \in Subs \cup {"no"} : recv' = [recv EXCEPT ![r] = w]
      BY <1>8 DEF SubRecvInterrupted, SubRecv
    <2> QED
      BY <1>1, <2>1 DEF Attached
  <1>9. CASE Typed'
    BY <1>9 DEF StreamTyped, Marks
  <1> QED
    BY <1>2, <1>3, <1>4, <1>5, <1>6, <1>7, <1>8, <1>9 DEF StreamNext, Deliver

LEMMA StepStreamInv == StreamInv /\ [StreamNext]_streamVars => StreamInv'
  <1> SUFFICES ASSUME StreamInv, [StreamNext]_streamVars PROVE StreamInv'
    OBVIOUS
  <1>1. StreamTyped /\ StreamTyped' /\ (closed' => unserved' = {}) /\ (closed => unserved = {})
    BY StreamStepTyped DEF StreamInv
  <1> SUFFICES ASSUME NEW s \in Subs PROVE HandleInv(s)'
    BY <1>1 DEF StreamInv
  <1>2. Len(inbox[s]) \in Nat
    BY <1>1, QueuesTyped
  <1>3. ASSUME /\ phase'[s] = phase[s] /\ since'[s] = since[s] /\ buffer'[s] = buffer[s]
               /\ dropped'[s] = dropped[s] /\ inbox'[s] = inbox[s] /\ got'[s] = got[s]
               /\ closed => closed'
               /\ phase[s] # "none" => LastOf(s)' = LastOf(s)
        PROVE  HandleInv(s)'
    <2>1. Delivered(s)' = Delivered(s) /\ Len(inbox'[s]) <= Len(inbox[s])
      BY <1>2, <1>3 DEF Delivered
    <2> QED
      BY <1>1, <1>3, <2>1, HandleRests
  <1>4. CASE Emit
    <2>1. phase[s] # "none" => LastOf(s)' = LastOf(s)
      BY <1>1, <1>4 DEF Emit, Unlocked, Attached, LastOf, StreamTyped
    <2> QED
      BY <1>3, <1>4, <2>1 DEF Emit
  <1>5. CASE Close \/ UNCHANGED streamVars
    BY <1>3, <1>5 DEF Close, streamVars, LastOf
  <1>6. ASSUME NEW u \in Subs, Subscribe(u)
        PROVE  HandleInv(s)'
    <2>1. CASE u = s
      BY <1>1, <1>6, <2>1, SubscribeKeeps
    <2>2. CASE u # s
      BY <1>1, <1>3, <1>6, <2>2 DEF Subscribe, StreamTyped, LastOf
    <2> QED
      BY <2>1, <2>2
  <1>7. ASSUME NEW u \in Subs, Submit(u)
        PROVE  HandleInv(s)'
    <2>1. CASE u = s
      BY <1>1, <1>7, <2>1, SubmitKeeps
    <2>2. CASE u # s
      BY <1>1, <1>3, <1>7, <2>2 DEF Submit, StreamTyped, LastOf
    <2> QED
      BY <2>1, <2>2
  <1>8. ASSUME NEW u \in Subs, OnSubscribe(u)
        PROVE  HandleInv(s)'
    <2>1. CASE u # s
      BY <1>1, <1>3, <1>8, <2>1 DEF OnSubscribe, StreamTyped, LastOf
    <2>2. CASE u = s
      <3>1. /\ phase[s] = "attached" /\ phase'[s] = "active" /\ LastOf(s)' = LastOf(s)
            /\ UNCHANGED <<closed, since, buffer, dropped, inbox, got>>
        BY <1>1, <1>8, <2>2 DEF OnSubscribe, StreamTyped, LastOf
      <3>2. HandleInv(s) /\ Delivered(s)' = Delivered(s)
        BY <3>1 DEF StreamInv, Delivered
      <3> QED
        BY <3>1, <3>2
           DEF HandleInv, DeliveredFirst, EndsOnce, WithinLimit, AccountedFor, SentTo
    <2> QED
      BY <2>1, <2>2
  <1>9. ASSUME NEW u \in Subs, OnNext(u)
        PROVE  HandleInv(s)'
    <2>1. CASE u = s
      BY <1>1, <1>9, <2>1, OnNextKeeps
    <2>2. CASE u # s
      BY <1>1, <1>3, <1>9, <2>2 DEF OnNext, StreamTyped, LastOf
    <2> QED
      BY <2>1, <2>2
  <1>10. ASSUME NEW u \in Subs, OnComplete(u)
         PROVE  HandleInv(s)'
    <2>1. CASE u = s
      BY <1>1, <1>10, <2>1, OnCompleteKeeps
    <2>2. CASE u # s
      BY <1>1, <1>3, <1>10, <2>2 DEF OnComplete, StreamTyped, LastOf
    <2> QED
      BY <2>1, <2>2
  <1>11. ASSUME NEW r \in Readers,
                SubRecvReturns(r) \/ SubRecvInterrupted(r) \/ \E u \in Subs : SubRecv(r, u)
         PROVE  HandleInv(s)'
    <2>1. CASE SubRecvReturns(r)
      BY <1>1, <2>1, RecvKeeps
    <2>2. CASE SubRecvInterrupted(r) \/ \E u \in Subs : SubRecv(r, u)
      BY <1>3, <2>2 DEF SubRecvInterrupted, SubRecv, LastOf
    <2> QED
      BY <1>11, <2>1, <2>2
  <1> QED
    BY <1>4, <1>5, <1>6, <1>7, <1>8, <1>9, <1>10, <1>11 DEF StreamNext, Deliver

\* What a handle has received and will receive is what was delivered and what is
\* on its way.
LEMMA SeenIs ==
  ASSUME StreamTyped, NEW s \in Subs
  PROVE  /\ Seen(s) = Delivered(s) \o buffer[s]
         /\ Len(Seen(s)) = Len(Delivered(s)) + Len(buffer[s])
         /\ \A i \in 1..Len(Seen(s)) :
              IF i <= Len(Delivered(s)) THEN Seen(s)[i] = Delivered(s)[i]
              ELSE /\ i - Len(Delivered(s)) \in 1..Len(buffer[s])
                   /\ Seen(s)[i] = buffer[s][i - Len(Delivered(s))]
  <1>1. /\ Delivered(s) \in Seq(Marks) /\ buffer[s] \in Seq(Marks)
        /\ Len(Delivered(s)) \in Nat /\ Len(buffer[s]) \in Nat
    BY QueuesTyped, SeqMonotonic DEF Marks
  <1>2. Seen(s) = Delivered(s) \o buffer[s]
    BY DEF Seen, Delivered
  <1> QED
    BY <1>1, <1>2, ConcatProperties

\* The end of a stream comes to a handle once, after all that was emitted before
\* close().
THEOREM StreamEndsLast == StreamSpec => []EndIsLast
  <1>1. ASSUME StreamInv, NEW s \in Subs, NEW i \in 1..Len(Seen(s)), Seen(s)[i] = DONE
        PROVE  closed /\ i = Len(Seen(s)) /\ s \notin unserved
    <2>1. HandleInv(s) /\ StreamTyped /\ (closed => unserved = {})
      BY <1>1 DEF StreamInv
    <2>2. /\ Len(Delivered(s)) \in Nat /\ Len(buffer[s]) \in Nat
          /\ \A j \in 1..Len(buffer[s]) : buffer[s][j] \in Items
      BY <2>1, QueuesTyped
    <2>3. i \in 1..Len(Delivered(s)) /\ Delivered(s)[i] = DONE
      <3>1. CASE i \in 1..Len(Delivered(s))
        BY <1>1, <2>1, <3>1, SeenIs
      <3>2. CASE i \notin 1..Len(Delivered(s))
        <4>1. Seen(s)[i] \in Items
          BY <2>1, <2>2, <3>2, SeenIs
        <4> QED
          BY <1>1, <4>1, ItemsAreNumbers
      <3> QED
        BY <3>1, <3>2
    <2>4. phase[s] = "ended" /\ i = Len(Delivered(s)) /\ closed /\ buffer[s] = <<>>
      BY <2>1, <2>3 DEF HandleInv, EndsOnce
    <2> QED
      BY <2>1, <2>2, <2>4, SeenIs
  <1>2. StreamInv => EndIsLast
    BY <1>1 DEF EndIsLast
  <1> QED
    BY <1>2, InitStreamInv, StepStreamInv, PTL DEF StreamSpec

\* A handle is sent every later item once and in the order of all emits; it
\* misses none but those dropped at its limit.
THEOREM StreamsBroadcast == StreamSpec => []EveryItemInOrder
  <1>1. ASSUME StreamInv, NEW s \in Attached
        PROVE  /\ Increasing(Seen(s))
               /\ \A n \in Items : Occurs(n, Seen(s)) <=> SentTo(s, n) /\ n \notin dropped[s]
               /\ WithinLimit(s)
    <2> DEFINE d == Delivered(s)  b == buffer[s]
    <2>1. s \in Subs /\ HandleInv(s) /\ StreamTyped /\ phase[s] # "none"
      BY <1>1 DEF StreamInv, Attached
    <2>2. DeliveredFirst(s) /\ AccountedFor(s) /\ WithinLimit(s)
      BY <2>1 DEF HandleInv
    <2>3. Len(d) \in Nat /\ Len(b) \in Nat
      BY <2>1, QueuesTyped
    <2>4. /\ Len(Seen(s)) = Len(d) + Len(b)
          /\ \A i \in 1..(Len(d) + Len(b)) :
               IF i <= Len(d) THEN Seen(s)[i] = d[i]
               ELSE i - Len(d) \in 1..Len(b) /\ Seen(s)[i] = b[i - Len(d)]
      BY <2>1, SeenIs
    <2> HIDE DEF d, b
    <2>5. /\ Increasing(d) /\ Increasing(b)
          /\ \A i \in 1..Len(d), j \in 1..Len(b) : d[i] < b[j]
      BY <2>2 DEF DeliveredFirst, d, b
    <2>6. Increasing(Seen(s))
      <3> SUFFICES ASSUME NEW i \in 1..Len(Seen(s)), NEW j \in 1..Len(Seen(s)), i < j,
                          Real(Seen(s)[i]), Real(Seen(s)[j])
                   PROVE  Seen(s)[i] < Seen(s)[j]
        BY DEF Increasing
      <3>1. CASE j <= Len(d)
        <4>1. i \in 1..Len(d) /\ j \in 1..Len(d) /\ Seen(s)[i] = d[i] /\ Seen(s)[j] = d[j]
          BY <2>3, <2>4, <3>1
        <4> QED
          BY <2>5, <4>1 DEF Increasing
      <3>2. CASE i <= Len(d) /\ j > Len(d)
        <4>1. i \in 1..Len(d) /\ Seen(s)[i] = d[i]
              /\ j - Len(d) \in 1..Len(b) /\ Seen(s)[j] = b[j - Len(d)]
          BY <2>3, <2>4, <3>2
        <4> QED
          BY <2>5, <4>1
      <3>3. CASE i > Len(d)
        <4>1. /\ i - Len(d) \in 1..Len(b) /\ Seen(s)[i] = b[i - Len(d)]
              /\ j - Len(d) \in 1..Len(b) /\ Seen(s)[j] = b[j - Len(d)]
              /\ i - Len(d) < j - Len(d)
          BY <2>3, <2>4, <3>3
        <4> QED
          BY <2>5, <4>1 DEF Increasing
      <3> QED
        BY <2>3, <2>4, <3>1, <3>2, <3>3
    <2>7. ASSUME NEW n PROVE Occurs(n, Seen(s)) <=> Occurs(n, d) \/ Occurs(n, b)
      <3>1. ASSUME NEW i \in 1..Len(Seen(s)), Seen(s)[i] = n PROVE Occurs(n, d) \/ Occurs(n, b)
        <4>1. CASE i <= Len(d)
          BY <2>3, <2>4, <3>1, <4>1 DEF Occurs
        <4>2. CASE i > Len(d)
          BY <2>3, <2>4, <3>1, <4>2 DEF Occurs
        <4> QED
          BY <2>3, <2>4, <4>1, <4>2
      <3>2. ASSUME NEW i \in 1..Len(d), d[i] = n PROVE Occurs(n, Seen(s))
        <4>1. i \in 1..Len(Seen(s)) /\ Seen(s)[i] = n
          BY <2>3, <2>4, <3>2
        <4> QED
          BY <4>1 DEF Occurs
      <3>3. ASSUME NEW i \in 1..Len(b), b[i] = n PROVE Occurs(n, Seen(s))
        <4>1. i + Len(d) \in 1..Len(Seen(s)) /\ ~(i + Len(d) <= Len(d)) /\ (i + Len(d)) - Len(d) = i
          BY <2>3, <2>4
        <4>2. Seen(s)[i + Len(d)] = n
          BY <2>4, <3>3, <4>1
        <4> QED
          BY <4>1, <4>2 DEF Occurs
      <3> QED
        BY <3>1, <3>2, <3>3 DEF Occurs
    <2> QED
      BY <2>2, <2>6, <2>7 DEF AccountedFor, d, b
  <1>2. StreamInv => EveryItemInOrder
    BY <1>1 DEF EveryItemInOrder
  <1> QED
    BY <1>2, InitStreamInv, StepStreamInv, PTL DEF StreamSpec
=============================================================================
