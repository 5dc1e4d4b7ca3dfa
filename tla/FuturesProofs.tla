---------------------------- MODULE FuturesProofs ---------------------------
(***************************************************************************)
(* Theorems about Async, for any number of tasks, any bodies and any lists,  *)
(* and about FutureRuntime, for any finite number of concurrent calls.       *)
(***************************************************************************)
EXTENDS Async, FutureRuntime, FiniteSetTheorems, SequenceTheorems, TLAPS

(***************************************************************************)
(* Sequences of tasks.                                                     *)
(***************************************************************************)

\* The first element of a sequence, and what comes after it.
LEMMA HeadOfSeq ==
  ASSUME NEW S, NEW s \in Seq(S), s # <<>>
  PROVE  /\ Head(s) \in S /\ Tail(s) \in Seq(S)
         /\ s = <<Head(s)>> \o Tail(s)
         /\ Head(s) = s[1] /\ Len(s) \in Nat /\ Len(s) >= 1
  <1>1. Head(s) \in S /\ Tail(s) \in Seq(S) /\ Len(s) \in Nat /\ Len(s) >= 1 /\ Head(s) = s[1]
    BY HeadTailProperties, EmptySeq, LenProperties
  <1>2. <<Head(s)>> \in Seq(S)
    BY <1>1
  <1>3. <<Head(s)>> \o Tail(s) \in Seq(S) /\ Len(<<Head(s)>> \o Tail(s)) = Len(s)
    BY <1>1, <1>2, ConcatProperties, HeadTailProperties
  <1>4. \A i \in 1..Len(s) : (<<Head(s)>> \o Tail(s))[i] = s[i]
    BY <1>1, <1>2, ConcatProperties, HeadTailProperties
  <1>5. s = <<Head(s)>> \o Tail(s)
    BY <1>3, <1>4, SeqEqual
  <1> QED
    BY <1>1, <1>5

\* Moving the first of what is left to the end of what is there.
LEMMA MoveOver ==
  ASSUME NEW S, NEW s \in Seq(S), NEW r \in Seq(S), r # <<>>
  PROVE  s \o r = Append(s, Head(r)) \o Tail(r)
  <1>1. Head(r) \in S /\ Tail(r) \in Seq(S) /\ r = <<Head(r)>> \o Tail(r) /\ <<Head(r)>> \in Seq(S)
    BY HeadOfSeq
  <1>2. s \o (<<Head(r)>> \o Tail(r)) = (s \o <<Head(r)>>) \o Tail(r)
    BY <1>1, ConcatAssociative
  <1>3. s \o <<Head(r)>> = Append(s, Head(r))
    BY <1>1, AppendIsConcat
  <1> QED
    BY <1>1, <1>2, <1>3

\* What a sequence begins with.
LEMMA Beginning ==
  ASSUME NEW S, NEW s \in Seq(S), NEW r \in Seq(S)
  PROVE  /\ Len(s) \in Nat /\ Len(s \o r) = Len(s) + Len(r)
         /\ \A k \in 1..Len(s) : (s \o r)[k] = s[k] /\ s[k] \in S
         /\ r # <<>> => /\ Len(s) < Len(s \o r)
                        /\ (s \o r)[Len(s) + 1] = Head(r)
  BY ConcatProperties, LenProperties, ElementOfSeq, HeadTailProperties, EmptySeq

(***************************************************************************)
(* A future settles once.                                                  *)
(***************************************************************************)
Monotone == \A t \in Tasks : cf[t] # "pending" => cf'[t] = cf[t]

LEMMA CompletesOnce ==
  ASSUME TasksTyped, NEW t \in Tasks, NEW outcome \in Ends, Complete(t, outcome)
  PROVE  /\ cf' \in [Tasks -> {"pending"} \cup Ends]
         /\ Monotone /\ cf'[t] # "pending"
  <1>1. outcome # "pending"
    BY DEF Ends
  <1>2. CASE cf[t] = "pending"
    BY <1>1, <1>2 DEF Complete, TasksTyped, Monotone
  <1>3. CASE cf[t] # "pending"
    BY <1>3 DEF TasksTyped, Complete, Monotone
  <1> QED
    BY <1>2, <1>3

(***************************************************************************)
(* The inductive invariant.                                                *)
(***************************************************************************)

LEMMA InitAsyncInv == Init => AsyncInv
  <1> SUFFICES ASSUME Init PROVE AsyncInv
    OBVIOUS
  <1>1. <<>> \in Seq(Tasks) /\ Idle = [kind |-> "no", on |-> <<>>, asked |-> <<>>, got |-> <<>>]
    BY EmptySeq DEF Idle
  <1>2. TasksTyped
    BY <1>1, BodyAssumption DEF Init, TasksTyped, Reports, Ends
  <1>3. \A x \in Threads : wait[x].kind = "no" /\ result[x].kind = "no"
    BY <1>1 DEF Init
  <1>4. flag = {} /\ helpers = {} /\ combined = {} /\ Main \in Threads
    BY DEF Init, Threads
  <1> QED
    BY <1>2, <1>3, <1>4
       DEF AsyncInv, AllReportsInListOrder, ReportsInListOrder, AnyReturnsOneOfItsOwn,
           ReturnsOneOfItsOwn, InterruptedTasksAreSettled, GetsInTurn

\* A thread that does not move keeps what it has got and has reported.
LEMMA Rests ==
  ASSUME AsyncInv, Monotone, NEW x \in Threads,
         result'[x] = result[x], x \in flag => x \in flag'
  PROVE  ReportsInListOrder(x)' /\ ReturnsOneOfItsOwn(x)'
  <1> DEFINE r == result[x]
  <1>1. r \in Reports /\ Threads = Tasks \cup {Main}
    BY DEF AsyncInv, TasksTyped, Threads
  <1>2. ReportsInListOrder(x) /\ ReturnsOneOfItsOwn(x)
    BY DEF AsyncInv, AllReportsInListOrder, AnyReturnsOneOfItsOwn
  <1>3. ReportsInListOrder(x)'
    <2> SUFFICES ASSUME r.kind = "all"
                 PROVE  /\ \A k \in 1..Len(r.got) : r.got[k] = r.asked[k] /\ cf'[r.got[k]] = "value"
                        /\ r.res = "value" => r.got = r.asked
                        /\ r.res # "value" /\ x \notin flag' =>
                             Len(r.got) < Len(r.asked) /\ cf'[r.asked[Len(r.got) + 1]] = r.res
      BY DEF ReportsInListOrder
    <2>1. \A k \in 1..Len(r.got) : r.got[k] \in Tasks /\ r.got[k] = r.asked[k] /\ cf[r.got[k]] = "value"
      BY <1>1, <1>2, ElementOfSeq DEF ReportsInListOrder, Reports
    <2>2. ASSUME r.res # "value", x \notin flag'
          PROVE  Len(r.got) < Len(r.asked) /\ cf'[r.asked[Len(r.got) + 1]] = r.res
      <3>1. Len(r.got) < Len(r.asked) /\ cf[r.asked[Len(r.got) + 1]] = r.res
        BY <1>2, <2>2 DEF ReportsInListOrder
      <3>2. Len(r.got) \in Nat /\ Len(r.asked) \in Nat /\ r.res # "pending"
        BY <1>1, LenProperties DEF Reports, Ends
      <3>3. r.asked[Len(r.got) + 1] \in Tasks
        BY <1>1, <3>1, <3>2, ElementOfSeq DEF Reports
      <3> QED
        BY <3>1, <3>2, <3>3 DEF Monotone
    <2> QED
      BY <1>2, <2>1, <2>2 DEF Monotone, ReportsInListOrder
  <1>4. ReturnsOneOfItsOwn(x)'
    <2> SUFFICES ASSUME r.kind = "any", r.res = "value"
                 PROVE  r.got[1] \in Elements(r.asked) /\ cf'[r.got[1]] = "value"
      BY DEF ReturnsOneOfItsOwn
    <2>1. r.got[1] \in Elements(r.asked) /\ cf[r.got[1]] = "value"
      BY <1>2 DEF ReturnsOneOfItsOwn
    <2>2. r.got[1] \in Tasks
      BY <1>1, <2>1, ElementOfSeq DEF Elements, Reports
    <2> QED
      BY <2>1, <2>2 DEF Monotone
  <1> QED
    BY <1>3, <1>4

LEMMA StillGets ==
  ASSUME AsyncInv, Monotone, NEW x \in Threads, wait'[x] = wait[x]
  PROVE  GetsInTurn(x)'
  <1> SUFFICES ASSUME wait[x].kind \in {"await", "all"}
               PROVE  /\ wait[x].asked = wait[x].got \o wait[x].on
                      /\ \A k \in 1..Len(wait[x].got) : cf'[wait[x].got[k]] = "value"
    BY DEF GetsInTurn
  <1>1. wait[x].got \in Seq(Tasks) /\ GetsInTurn(x)
    BY DEF AsyncInv, TasksTyped
  <1>2. \A k \in 1..Len(wait[x].got) : wait[x].got[k] \in Tasks /\ cf[wait[x].got[k]] = "value"
    BY <1>1, ElementOfSeq DEF GetsInTurn
  <1> QED
    BY <1>1, <1>2 DEF Monotone, GetsInTurn

\* A step in which no thread but x moves, and x begins no runAny.
LEMMA OneThread ==
  ASSUME AsyncInv, Monotone, TasksTyped', NEW x \in Threads,
         \A y \in Threads \ {x} : wait'[y] = wait[y] /\ result'[y] = result[y] /\ (y \in flag => y \in flag'),
         GetsInTurn(x)', ReportsInListOrder(x)', ReturnsOneOfItsOwn(x)',
         wait'[x] = wait[x] \/ wait'[x].kind # "any",
         calls' = calls, helpers' \subseteq helpers, combined' \subseteq combined,
         InterruptedTasksAreSettled',
         wait'[Main].kind = "cancel" => wait'[Main].on # <<>>
  PROVE  AsyncInv'
  <1>1. \A y \in Threads : GetsInTurn(y)' /\ ReportsInListOrder(y)' /\ ReturnsOneOfItsOwn(y)'
    BY Rests, StillGets
  <1>2. \A h \in helpers' \cup combined' : HelpsItsCall(h)'
    <2> SUFFICES ASSUME NEW h \in helpers' \cup combined' PROVE HelpsItsCall(h)'
      OBVIOUS
    <2>1. h \in helpers \cup combined /\ h.by \in Threads
      BY DEF AsyncInv, TasksTyped
    <2>2. HelpsItsCall(h)
      BY <2>1 DEF AsyncInv
    <2> QED
      BY <2>1, <2>2 DEF HelpsItsCall
  <1>3. \A h \in combined' : cf'[h.of] = "value"
    BY DEF AsyncInv, TasksTyped, Monotone
  <1> QED
    BY <1>1, <1>2, <1>3 DEF AsyncInv, AllReportsInListOrder, AnyReturnsOneOfItsOwn

(***************************************************************************)
(* The actions.                                                            *)
(***************************************************************************)

LEMMA RunKeeps ==
  ASSUME AsyncInv, NEW t \in Tasks, Run(t)
  PROVE  AsyncInv'
  <1>1. TasksTyped' /\ Monotone /\ Main \in Threads
    BY DEF AsyncInv, TasksTyped, Run, Monotone, Threads
  <1>2. InterruptedTasksAreSettled' /\ (wait'[Main].kind = "cancel" => wait'[Main].on # <<>>)
    BY DEF AsyncInv, InterruptedTasksAreSettled, Cancelling, Run
  <1>3. GetsInTurn(Main)' /\ ReportsInListOrder(Main)' /\ ReturnsOneOfItsOwn(Main)'
    BY <1>1, Rests, StillGets DEF Run
  <1> QED
    BY <1>1, <1>2, <1>3, OneThread DEF Run

\* The future, the asked list and the helpers of a wait that begins.
LEMMA BeginKeeps ==
  ASSUME AsyncInv, NEW x \in Threads, NEW w \in Waits, Begin(x, w),
         TasksTyped', UNCHANGED <<cf, result, flag, combined>>
  PROVE  AsyncInv'
  <1>1. Monotone /\ wait[x].kind = "no"
    BY DEF Monotone, Begin, Free
  <1>2. /\ wait' = [wait EXCEPT ![x] = [kind |-> w.kind, on |-> w.on, asked |-> w.on, got |-> <<>>]]
        /\ w.on \in Seq(Tasks) /\ w.kind \in {"await", "all", "any"}
        /\ wait \in [Threads -> [kind : {"no", "await", "all", "any", "cancel"},
                                 on : Seq(Tasks), asked : Seq(Tasks), got : Seq(Tasks)]]
    BY DEF Begin, Waits, AsyncInv, TasksTyped
  <1>3. \A y \in Threads : ReportsInListOrder(y)' /\ ReturnsOneOfItsOwn(y)'
    BY <1>1, Rests
  <1>4. \A y \in Threads : GetsInTurn(y)'
    <2>1. GetsInTurn(x)'
      <3>1. wait'[x].asked = w.on /\ wait'[x].on = w.on /\ wait'[x].got = <<>>
        BY <1>2
      <3>2. <<>> \o w.on = w.on /\ Len(<<>>) = 0
        BY <1>2, ConcatEmptySeq
      <3> QED
        BY <3>1, <3>2 DEF GetsInTurn
    <2>2. \A y \in Threads \ {x} : wait'[y] = wait[y]
      BY <1>2
    <2> QED
      BY <1>1, <2>1, <2>2, StillGets
  <1>5. \A h \in helpers' \cup combined' : HelpsItsCall(h)'
    <2> SUFFICES ASSUME NEW h \in helpers' \cup combined' PROVE HelpsItsCall(h)'
      OBVIOUS
    <2>0. h.by \in Threads /\ h.n \in Nat /\ calls \in [Threads -> Nat] /\ calls' \in [Threads -> Nat]
      BY DEF AsyncInv, TasksTyped
    <2>1. CASE w.kind = "any"
      <3>1. /\ calls' = [calls EXCEPT ![x] = @ + 1]
            /\ helpers' = helpers \cup
                 {[by |-> x, n |-> calls[x] + 1, of |-> t] : t \in Elements(w.on)}
        BY <2>1 DEF Begin
      <3>2. CASE h \in helpers \cup combined
        <4>1. HelpsItsCall(h)
          BY <3>2 DEF AsyncInv
        <4>2. CASE h.by = x
          BY <2>0, <3>1, <4>1, <4>2 DEF HelpsItsCall
        <4>3. CASE h.by # x
          BY <1>2, <2>0, <3>1, <4>1, <4>3 DEF HelpsItsCall
        <4> QED
          BY <4>2, <4>3
      <3>3. CASE h \notin helpers \cup combined
        <4>1. PICK t \in Elements(w.on) : h = [by |-> x, n |-> calls[x] + 1, of |-> t]
          BY <3>1, <3>3
        <4> QED
          BY <1>2, <2>0, <3>1, <4>1 DEF HelpsItsCall
      <3> QED
        BY <3>2, <3>3
    <2>2. CASE w.kind # "any"
      <3>1. calls' = calls /\ helpers' = helpers
        BY <2>2 DEF Begin
      <3>2. HelpsItsCall(h)
        BY <3>1 DEF AsyncInv
      <3> QED
        BY <1>2, <2>0, <2>2, <3>1, <3>2 DEF HelpsItsCall
    <2> QED
      BY <2>1, <2>2
  <1>6. InterruptedTasksAreSettled'
    <2> SUFFICES ASSUME NEW t \in flag PROVE cf[t] # "pending" \/ Cancelling(t)'
      BY DEF InterruptedTasksAreSettled
    <2>1. CASE cf[t] # "pending"
      BY <2>1
    <2>2. CASE Cancelling(t)
      <3>1. wait[Main].kind = "cancel" /\ Main \in Threads
        BY <2>2 DEF Cancelling, Idle, Threads
      <3>2. wait'[Main] = wait[Main]
        BY <1>1, <1>2, <3>1
      <3> QED
        BY <2>2, <3>2 DEF Cancelling
    <2> QED
      BY <2>1, <2>2 DEF AsyncInv, InterruptedTasksAreSettled
  <1>7. wait'[Main].kind = "cancel" => wait'[Main].on # <<>>
    BY <1>2 DEF AsyncInv, Threads
  <1>8. \A h \in combined' : cf'[h.of] = "value"
    BY DEF AsyncInv
  <1> QED
    BY <1>3, <1>4, <1>5, <1>6, <1>7, <1>8
       DEF AsyncInv, AllReportsInListOrder, AnyReturnsOneOfItsOwn

\* Begin keeps the types.
LEMMA BeginTyped ==
  ASSUME TasksTyped, NEW x \in Threads, NEW w \in Waits, Begin(x, w)
  PROVE  /\ wait' \in [Threads -> [kind : {"no", "await", "all", "any", "cancel"},
                                   on : Seq(Tasks), asked : Seq(Tasks), got : Seq(Tasks)]]
         /\ calls' \in [Threads -> Nat]
         /\ helpers' \subseteq [by : Threads, n : Nat, of : Tasks]
  <1>1. w.on \in Seq(Tasks) /\ w.kind \in {"await", "all", "any"} /\ <<>> \in Seq(Tasks)
    BY EmptySeq DEF Waits
  <1>2. Elements(w.on) \subseteq Tasks
    BY <1>1, ElementOfSeq DEF Elements
  <1>3. wait' \in [Threads -> [kind : {"no", "await", "all", "any", "cancel"},
                               on : Seq(Tasks), asked : Seq(Tasks), got : Seq(Tasks)]]
    <2> DEFINE Wait == [kind : {"no", "await", "all", "any", "cancel"},
                        on : Seq(Tasks), asked : Seq(Tasks), got : Seq(Tasks)]
               asked == [kind |-> w.kind, on |-> w.on, asked |-> w.on, got |-> <<>>]
    <2>1. wait \in [Threads -> Wait] /\ wait' = [wait EXCEPT ![x] = asked]
      BY DEF TasksTyped, Begin
    <2>2. asked \in Wait
      BY <1>1
    <2> QED
      BY <2>1, <2>2
  <1>4. calls \in [Threads -> Nat] /\ helpers \subseteq [by : Threads, n : Nat, of : Tasks]
    BY DEF TasksTyped
  <1>5. CASE w.kind = "any"
    <2>1. /\ calls' = [calls EXCEPT ![x] = @ + 1]
          /\ helpers' = helpers \cup
               {[by |-> x, n |-> calls[x] + 1, of |-> t] : t \in Elements(w.on)}
      BY <1>5 DEF Begin
    <2> QED
      BY <1>2, <1>3, <1>4, <2>1
  <1>6. CASE w.kind # "any"
    BY <1>3, <1>4, <1>6 DEF Begin
  <1> QED
    BY <1>5, <1>6

LEMMA TaskWaitsKeeps ==
  ASSUME AsyncInv, NEW t \in Tasks, TaskWaits(t)
  PROVE  AsyncInv'
  <1>1. Head(todo[t]) \in Waits /\ Tail(todo[t]) \in Seq(Waits) /\ t \in Threads
    BY HeadOfSeq DEF TaskWaits, AsyncInv, TasksTyped, Threads
  <1>2. TasksTyped'
    BY <1>1, BeginTyped DEF TaskWaits, AsyncInv, TasksTyped
  <1> QED
    BY <1>1, <1>2, BeginKeeps DEF TaskWaits

LEMMA MainWaitsKeeps ==
  ASSUME AsyncInv, MainWaits
  PROVE  AsyncInv'
  <1>1. PICK w \in Waits : Begin(Main, w)
    <2>1. CASE \E t \in Tasks : Started(<<t>>) /\ Begin(Main, [kind |-> "await", on |-> <<t>>])
      <3>1. PICK t \in Tasks : Begin(Main, [kind |-> "await", on |-> <<t>>])
        BY <2>1
      <3>2. <<t>> \in Seq(Tasks)
        OBVIOUS
      <3> QED
        BY <3>1, <3>2 DEF Waits
    <2>2. CASE \E s \in Lists, k \in {"all", "any"} : Started(s) /\ Begin(Main, [kind |-> k, on |-> s])
      BY <2>2, BodyAssumption DEF Waits
    <2> QED
      BY <2>1, <2>2 DEF MainWaits
  <1>2. Main \in Threads
    BY DEF Threads
  <1>3. TasksTyped'
    <2>1. ops' \in 0..MaxOps
      BY BodyAssumption DEF MainWaits, AsyncInv, TasksTyped
    <2>2. TasksTyped
      BY DEF AsyncInv
    <2>3. UNCHANGED <<thread, cf, todo, result, flag, combined>>
      BY DEF MainWaits
    <2> QED
      BY <1>1, <1>2, <2>1, <2>2, <2>3, BeginTyped DEF TasksTyped
  <1> QED
    BY <1>1, <1>2, <1>3, BeginKeeps DEF MainWaits

\* The wait of x ends: what x reports has to be shown, the rest goes on.
LEMMA EndKeeps ==
  ASSUME AsyncInv, NEW x \in Threads, NEW res \in Ends, NEW got \in Seq(Tasks),
         End(x, res, got), Monotone, cf' \in [Tasks -> {"pending"} \cup Ends],
         flag' \subseteq flag, flag \subseteq flag' \cup {x},
         UNCHANGED <<thread, todo, calls, helpers, combined, ops>>,
         ReportsInListOrder(x)', ReturnsOneOfItsOwn(x)',
         \A t \in flag : cf'[t] # "pending" \/ (x # Main /\ Cancelling(t))
  PROVE  AsyncInv'
  <1>0. <<>> \in Seq(Tasks)
    BY EmptySeq
  <1>1. TasksTyped'
    BY <1>0 DEF AsyncInv, TasksTyped, End, Idle, Reports
  <1>2. wait'[x].kind = "no" /\ \A y \in Threads \ {x} : wait'[y] = wait[y] /\ result'[y] = result[y]
    BY DEF End, Idle, AsyncInv, TasksTyped
  <1>3. GetsInTurn(x)'
    BY <1>2 DEF GetsInTurn
  <1>4. InterruptedTasksAreSettled'
    BY <1>2 DEF InterruptedTasksAreSettled, Cancelling, Threads
  <1>5. wait'[Main].kind = "cancel" => wait'[Main].on # <<>>
    BY <1>2 DEF AsyncInv, Threads
  <1> QED
    BY <1>1, <1>2, <1>3, <1>4, <1>5, OneThread

LEMMA GetKeeps ==
  ASSUME AsyncInv, NEW x \in Threads, Get(x)
  PROVE  AsyncInv'
  <1> DEFINE w == wait[x]
  <1>1. /\ w.on \in Seq(Tasks) /\ w.got \in Seq(Tasks) /\ w.asked \in Seq(Tasks)
        /\ w.kind \in {"await", "all"} /\ GetsInTurn(x)
    BY DEF Get, AsyncInv, TasksTyped
  <1>2. Monotone /\ cf' = cf /\ flag' = flag
    BY DEF Get, Monotone
  <1>3. \A t \in flag : cf[t] # "pending" \/ (x # Main /\ Cancelling(t))
    <2>1. \A t \in flag : cf[t] # "pending" \/ Cancelling(t)
      BY DEF AsyncInv, InterruptedTasksAreSettled
    <2>2. \A t : Cancelling(t) => x # Main
      BY <1>1 DEF Cancelling
    <2> QED
      BY <2>1, <2>2
  <1>4. /\ w.asked = w.got \o w.on
        /\ \A k \in 1..Len(w.got) : w.asked[k] = w.got[k] /\ cf[w.got[k]] = "value"
    <2>1. w.asked = w.got \o w.on /\ \A k \in 1..Len(w.got) : cf[w.got[k]] = "value"
      BY <1>1 DEF GetsInTurn
    <2>2. \A k \in 1..Len(w.got) : (w.got \o w.on)[k] = w.got[k]
      <3>1. w.got \in Seq(Tasks) /\ w.on \in Seq(Tasks)
        BY <1>1
      <3> QED
        BY ONLY <3>1, Beginning
    <2> QED
      BY <2>1, <2>2
  <1>5. CASE w.on = <<>>
    <2>1. End(x, "value", w.got)
      BY <1>5 DEF Get
    <2>2. w.asked = w.got
      BY <1>1, <1>4, <1>5, ConcatEmptySeq
    <2>3. result'[x] = [kind |-> w.kind, res |-> "value", asked |-> w.asked, got |-> w.got]
      BY <2>1 DEF End, AsyncInv, TasksTyped
    <2>4. ReportsInListOrder(x)' /\ ReturnsOneOfItsOwn(x)'
      BY <1>1, <1>2, <1>4, <2>2, <2>3 DEF ReportsInListOrder, ReturnsOneOfItsOwn
    <2>5. "value" \in Ends /\ cf' \in [Tasks -> {"pending"} \cup Ends]
      BY <1>2 DEF Ends, AsyncInv, TasksTyped
    <2>6. UNCHANGED <<thread, todo, calls, helpers, combined, ops>>
      BY DEF Get
    <2> QED
      BY <1>1, <1>2, <1>3, <2>1, <2>4, <2>5, <2>6, EndKeeps
  <1>6. CASE w.on # <<>>
    <2> DEFINE t == Head(w.on)
    <2>1. /\ t \in Tasks /\ Tail(w.on) \in Seq(Tasks) /\ cf[t] # "pending"
          /\ Append(w.got, t) \in Seq(Tasks) /\ Len(Append(w.got, t)) = Len(w.got) + 1
          /\ \A k \in 1..Len(w.got) + 1 : Append(w.got, t)[k] = IF k <= Len(w.got) THEN w.got[k] ELSE t
          /\ Len(w.got) \in Nat
      BY <1>1, <1>6, HeadOfSeq, AppendProperties, LenProperties DEF Get
    <2>2. CASE cf[t] = "value"
      <3>1. /\ wait' = [wait EXCEPT ![x].on = Tail(@), ![x].got = Append(@, t)]
            /\ result' = result
        BY <1>6, <2>2 DEF Get
      <3>2. /\ wait'[x] = [w EXCEPT !.on = Tail(@), !.got = Append(@, t)]
            /\ \A y \in Threads \ {x} : wait'[y] = wait[y]
        BY <3>1 DEF AsyncInv, TasksTyped
      <3>9. /\ wait'[x].on = Tail(w.on) /\ wait'[x].got = Append(w.got, t)
            /\ wait'[x].kind = w.kind /\ wait'[x].asked = w.asked
            /\ wait' \in [Threads -> [kind : {"no", "await", "all", "any", "cancel"},
                                      on : Seq(Tasks), asked : Seq(Tasks), got : Seq(Tasks)]]
        <4>1. w \in [kind : {"no", "await", "all", "any", "cancel"},
                     on : Seq(Tasks), asked : Seq(Tasks), got : Seq(Tasks)]
          BY DEF AsyncInv, TasksTyped
        <4>2. /\ wait'[x].on = Tail(w.on) /\ wait'[x].got = Append(w.got, t)
              /\ wait'[x].kind = w.kind /\ wait'[x].asked = w.asked
          BY <3>2, <4>1
        <4>3. wait'[x] \in [kind : {"no", "await", "all", "any", "cancel"},
                            on : Seq(Tasks), asked : Seq(Tasks), got : Seq(Tasks)]
          BY <2>1, <3>2, <4>1
        <4> QED
          BY <3>1, <3>2, <4>2, <4>3 DEF AsyncInv, TasksTyped
      <3>3. TasksTyped'
        BY <3>1, <3>9 DEF Get, AsyncInv, TasksTyped
      <3>4. GetsInTurn(x)'
        <4>1. w.asked = Append(w.got, t) \o Tail(w.on)
          BY <1>1, <1>4, <1>6, MoveOver
        <4>2. \A k \in 1..Len(Append(w.got, t)) : cf[Append(w.got, t)[k]] = "value"
          <5> SUFFICES ASSUME NEW k \in 1..Len(w.got) + 1 PROVE cf[Append(w.got, t)[k]] = "value"
            BY <2>1
          <5>1. CASE k <= Len(w.got)
            <6>1. k \in 1..Len(w.got) /\ Append(w.got, t)[k] = w.got[k]
              BY <2>1, <5>1
            <6> QED
              BY <1>4, <6>1
          <5>2. CASE ~(k <= Len(w.got))
            BY <2>1, <2>2, <5>2
          <5> QED
            BY <5>1, <5>2
        <4> QED
          BY <1>2, <3>9, <4>1, <4>2 DEF GetsInTurn
      <3>5. InterruptedTasksAreSettled'
        BY <1>2, <1>3, <3>2 DEF InterruptedTasksAreSettled, Cancelling, Threads
      <3>6. wait'[Main].kind = "cancel" => wait'[Main].on # <<>>
        BY <1>1, <3>2, <3>9 DEF AsyncInv, Threads
      <3>7. ReportsInListOrder(x)' /\ ReturnsOneOfItsOwn(x)'
        BY <1>2, <3>1, Rests
      <3>8. wait'[x].kind # "any"
        BY <1>1, <3>9
      <3> QED
        BY <1>2, <3>1, <3>2, <3>3, <3>4, <3>5, <3>6, <3>7, <3>8, OneThread DEF Get
    <2>3. CASE cf[t] # "value"
      <3>1. End(x, cf[t], w.got)
        BY <1>6, <2>3 DEF Get
      <3>2. result'[x] = [kind |-> w.kind, res |-> cf[t], asked |-> w.asked, got |-> w.got]
        BY <3>1 DEF End, AsyncInv, TasksTyped
      <3>3. Len(w.got) < Len(w.asked) /\ w.asked[Len(w.got) + 1] = t /\ cf[t] \in Ends
        <4>1. Len(w.got) < Len(w.got \o w.on) /\ (w.got \o w.on)[Len(w.got) + 1] = t
          <5>1. w.got \in Seq(Tasks) /\ w.on \in Seq(Tasks) /\ w.on # <<>>
            BY <1>1, <1>6
          <5> QED
            BY ONLY <5>1, Beginning
        <4> QED
          BY <1>4, <2>1, <4>1 DEF AsyncInv, TasksTyped
      <3>4. ReportsInListOrder(x)' /\ ReturnsOneOfItsOwn(x)'
        <4>1. /\ result'[x].kind = w.kind /\ result'[x].res = cf[t]
              /\ result'[x].asked = w.asked /\ result'[x].got = w.got
          BY <3>2
        <4> QED
          BY <1>1, <1>2, <1>4, <2>3, <3>3, <4>1 DEF ReportsInListOrder, ReturnsOneOfItsOwn
      <3>5. cf' \in [Tasks -> {"pending"} \cup Ends]
        BY <1>2 DEF AsyncInv, TasksTyped
      <3>6. UNCHANGED <<thread, todo, calls, helpers, combined, ops>>
        BY DEF Get
      <3> QED
        BY <1>1, <1>2, <1>3, <3>1, <3>3, <3>4, <3>5, <3>6, EndKeeps
    <2> QED
      BY <2>2, <2>3
  <1> QED
    BY <1>5, <1>6

LEMMA GetInterruptedKeeps ==
  ASSUME AsyncInv, NEW x \in Threads, GetInterrupted(x)
  PROVE  AsyncInv'
  <1> DEFINE w == wait[x]
  <1>1. /\ w.on \in Seq(Tasks) /\ w.got \in Seq(Tasks) /\ w.asked \in Seq(Tasks)
        /\ w.kind \in {"await", "all"} /\ GetsInTurn(x) /\ x \in flag
        /\ End(x, "failed", w.got)
    BY DEF GetInterrupted, AsyncInv, TasksTyped
  <1>2. Monotone /\ cf' = cf /\ flag' = flag
    BY DEF GetInterrupted, Monotone
  <1>3. \A t \in flag : cf[t] # "pending" \/ (x # Main /\ Cancelling(t))
    <2>1. \A t \in flag : cf[t] # "pending" \/ Cancelling(t)
      BY DEF AsyncInv, InterruptedTasksAreSettled
    <2>2. \A t : Cancelling(t) => x # Main
      BY <1>1 DEF Cancelling
    <2> QED
      BY <2>1, <2>2
  <1>4. \A k \in 1..Len(w.got) : w.asked[k] = w.got[k] /\ cf[w.got[k]] = "value"
    <2>1. w.asked = w.got \o w.on /\ \A k \in 1..Len(w.got) : cf[w.got[k]] = "value"
      BY <1>1 DEF GetsInTurn
    <2>2. \A k \in 1..Len(w.got) : (w.got \o w.on)[k] = w.got[k]
      <3>1. w.got \in Seq(Tasks) /\ w.on \in Seq(Tasks)
        BY <1>1
      <3> QED
        BY ONLY <3>1, Beginning
    <2> QED
      BY <2>1, <2>2
  <1>5. result'[x] = [kind |-> w.kind, res |-> "failed", asked |-> w.asked, got |-> w.got]
    BY <1>1 DEF End, AsyncInv, TasksTyped
  <1>6. ReportsInListOrder(x)' /\ ReturnsOneOfItsOwn(x)'
    BY <1>1, <1>2, <1>4, <1>5 DEF ReportsInListOrder, ReturnsOneOfItsOwn
  <1>7. "failed" \in Ends /\ cf' \in [Tasks -> {"pending"} \cup Ends]
    BY <1>2 DEF Ends, AsyncInv, TasksTyped
  <1>8. UNCHANGED <<thread, todo, calls, helpers, combined, ops>>
    BY DEF GetInterrupted
  <1> QED
    BY <1>1, <1>2, <1>3, <1>6, <1>7, <1>8, EndKeeps

LEMMA AnyReturnsKeeps ==
  ASSUME AsyncInv, NEW x \in Threads, AnyReturns(x)
  PROVE  AsyncInv'
  <1>1. PICK r \in Won(x) : End(x, "value", <<r.of>>)
    BY DEF AnyReturns
  <1>2. /\ r \in combined /\ r.by = x /\ r.n = calls[x] /\ r.of \in Tasks
        /\ cf[r.of] = "value" /\ wait[x].kind = "any" /\ wait[x].asked \in Seq(Tasks)
        /\ HelpsItsCall(r)
    BY <1>1 DEF Won, AnyReturns, AsyncInv, TasksTyped
  <1>3. Monotone /\ cf' = cf /\ flag' = flag
    BY DEF AnyReturns, Monotone
  <1>4. \A t \in flag : cf[t] # "pending" \/ (x # Main /\ Cancelling(t))
    BY <1>2 DEF AsyncInv, InterruptedTasksAreSettled, Cancelling, Idle
  <1>5. result'[x] = [kind |-> "any", res |-> "value", asked |-> wait[x].asked, got |-> <<r.of>>]
    BY <1>1, <1>2 DEF End, AsyncInv, TasksTyped
  <1>6. r.of \in Elements(wait[x].asked) /\ <<r.of>> \in Seq(Tasks) /\ <<r.of>>[1] = r.of
    BY <1>2 DEF HelpsItsCall
  <1>7. ReportsInListOrder(x)' /\ ReturnsOneOfItsOwn(x)'
    BY <1>2, <1>3, <1>5, <1>6 DEF ReportsInListOrder, ReturnsOneOfItsOwn
  <1>8. "value" \in Ends /\ cf' \in [Tasks -> {"pending"} \cup Ends]
    BY <1>3 DEF Ends, AsyncInv, TasksTyped
  <1>9. UNCHANGED <<thread, todo, calls, helpers, combined, ops>>
    BY DEF AnyReturns
  <1> QED
    BY <1>1, <1>3, <1>4, <1>6, <1>7, <1>8, <1>9, EndKeeps

LEMMA AnyInterruptedKeeps ==
  ASSUME AsyncInv, NEW x \in Threads, AnyInterrupted(x)
  PROVE  AsyncInv'
  <1>1. wait[x].kind = "any" /\ End(x, "failed", <<>>) /\ flag' = flag \ {x} /\ <<>> \in Seq(Tasks)
    BY EmptySeq DEF AnyInterrupted
  <1>2. Monotone /\ cf' = cf
    BY DEF AnyInterrupted, Monotone
  <1>3. \A t \in flag : cf[t] # "pending" \/ (x # Main /\ Cancelling(t))
    <2>1. \A t \in flag : cf[t] # "pending" \/ Cancelling(t)
      BY DEF AsyncInv, InterruptedTasksAreSettled
    <2>2. \A t : Cancelling(t) => x # Main
      BY <1>1 DEF Cancelling
    <2> QED
      BY <2>1, <2>2
  <1>4. result'[x] = [kind |-> "any", res |-> "failed", asked |-> wait[x].asked, got |-> <<>>]
    BY <1>1 DEF End, AsyncInv, TasksTyped
  <1>5. ReportsInListOrder(x)' /\ ReturnsOneOfItsOwn(x)'
    BY <1>4 DEF ReportsInListOrder, ReturnsOneOfItsOwn
  <1>6. "failed" \in Ends /\ cf' \in [Tasks -> {"pending"} \cup Ends]
    BY <1>2 DEF Ends, AsyncInv, TasksTyped
  <1>7. UNCHANGED <<thread, todo, calls, helpers, combined, ops>>
    BY DEF AnyInterrupted
  <1>8. flag' \subseteq flag /\ flag \subseteq flag' \cup {x}
    BY <1>1
  <1> QED
    BY <1>1, <1>2, <1>3, <1>5, <1>6, <1>7, <1>8, EndKeeps

LEMMA HelpKeeps ==
  ASSUME AsyncInv, NEW h \in helpers, Help(h)
  PROVE  AsyncInv'
  <1>1. /\ helpers' \subseteq helpers /\ combined' \subseteq combined \cup {h}
        /\ h \in combined' \ combined => cf[h.of] = "value"
        /\ UNCHANGED <<thread, cf, todo, wait, result, flag, calls, ops>>
    BY DEF Help
  <1>2. Monotone /\ TasksTyped'
    BY <1>1 DEF Monotone, AsyncInv, TasksTyped
  <1>3. \A x \in Threads : GetsInTurn(x)' /\ ReportsInListOrder(x)' /\ ReturnsOneOfItsOwn(x)'
    BY <1>1, <1>2, Rests, StillGets
  <1>4. \A k \in helpers' \cup combined' : HelpsItsCall(k)'
    BY <1>1 DEF AsyncInv, HelpsItsCall
  <1>5. \A k \in combined' : cf'[k.of] = "value"
    BY <1>1 DEF AsyncInv
  <1>6. InterruptedTasksAreSettled' /\ (wait'[Main].kind = "cancel" => wait'[Main].on # <<>>)
    BY <1>1 DEF AsyncInv, InterruptedTasksAreSettled, Cancelling
  <1> QED
    BY <1>2, <1>3, <1>4, <1>5, <1>6 DEF AsyncInv, AllReportsInListOrder, AnyReturnsOneOfItsOwn

LEMMA TaskEndsKeeps ==
  ASSUME AsyncInv, NEW t \in Tasks, TaskEnds(t)
  PROVE  AsyncInv'
  <1>1. PICK outcome \in Ends : Complete(t, outcome)
    <2>1. result[t].res \in Ends
      BY DEF AsyncInv, TasksTyped, Reports, Threads
    <2> QED
      BY <2>1 DEF TaskEnds, Ends
  <1>2. /\ cf' \in [Tasks -> {"pending"} \cup Ends] /\ Monotone
        /\ thread' = [thread EXCEPT ![t] = "dead"]
        /\ UNCHANGED <<todo, wait, result, flag, calls, helpers, combined, ops>>
    BY <1>1, CompletesOnce DEF TaskEnds, AsyncInv
  <1>3. TasksTyped' /\ t \in Threads
    BY <1>2 DEF AsyncInv, TasksTyped, Threads
  <1>4. GetsInTurn(t)' /\ ReportsInListOrder(t)' /\ ReturnsOneOfItsOwn(t)'
    BY <1>2, <1>3, Rests, StillGets
  <1>5. InterruptedTasksAreSettled' /\ (wait'[Main].kind = "cancel" => wait'[Main].on # <<>>)
    BY <1>2 DEF AsyncInv, TasksTyped, InterruptedTasksAreSettled, Cancelling, Monotone
  <1> QED
    BY <1>2, <1>3, <1>4, <1>5, OneThread

LEMMA CancelInterruptsKeeps ==
  ASSUME AsyncInv, NEW t \in Tasks, CancelInterrupts(t)
  PROVE  AsyncInv'
  <1> DEFINE w == [kind |-> "cancel", on |-> <<t>>, asked |-> <<t>>, got |-> <<>>]
  <1>1. /\ wait' = [wait EXCEPT ![Main] = w] /\ wait[Main].kind = "no"
        /\ flag \subseteq flag' /\ flag' \subseteq flag \cup {t}
        /\ UNCHANGED <<thread, cf, todo, result, calls, helpers, combined>>
    BY DEF CancelInterrupts, Free
  <1>2. Main \in Threads /\ <<t>> \in Seq(Tasks) /\ <<>> \in Seq(Tasks) /\ <<t>> # <<>>
    BY EmptySeq DEF Threads
  <1>3. ops' \in 0..MaxOps
    BY BodyAssumption DEF CancelInterrupts, AsyncInv, TasksTyped
  <1>4. TasksTyped' /\ Monotone
    BY <1>1, <1>2, <1>3 DEF AsyncInv, TasksTyped, Monotone
  <1>5. wait'[Main] = w /\ \A y \in Threads \ {Main} : wait'[y] = wait[y]
    BY <1>1, <1>2 DEF AsyncInv, TasksTyped
  <1>6. GetsInTurn(Main)' /\ ReportsInListOrder(Main)' /\ ReturnsOneOfItsOwn(Main)'
    <2>1. wait'[Main].kind = "cancel" /\ UNCHANGED result[Main]
      BY <1>1, <1>5
    <2>2. GetsInTurn(Main)'
      BY <2>1 DEF GetsInTurn
    <2>3. ReportsInListOrder(Main)' /\ ReturnsOneOfItsOwn(Main)'
      BY <1>1, <1>2, <1>4, <2>1, Rests
    <2> QED
      BY <2>2, <2>3
  <1>7. InterruptedTasksAreSettled'
    <2>1. \A u \in flag : cf[u] # "pending"
      BY <1>1 DEF AsyncInv, InterruptedTasksAreSettled, Cancelling, Idle
    <2>2. Cancelling(t)'
      BY <1>5 DEF Cancelling
    <2> QED
      BY <1>1, <2>1, <2>2 DEF InterruptedTasksAreSettled
  <1> QED
    BY <1>1, <1>2, <1>4, <1>5, <1>6, <1>7, OneThread

LEMMA CancelCompletesKeeps ==
  ASSUME AsyncInv, CancelCompletes
  PROVE  AsyncInv'
  <1> DEFINE t == Head(wait[Main].on)
             res == IF cf[t] \in {"pending", "cancelled"} THEN "cancelled" ELSE "failed"
  <1>1. wait[Main].kind = "cancel" /\ Main \in Threads /\ t \in Tasks
    BY HeadOfSeq DEF CancelCompletes, AsyncInv, TasksTyped, Threads
  <1>2. Complete(t, "cancelled") /\ End(Main, res, <<>>) /\ res \in Ends /\ "cancelled" \in Ends
    BY DEF CancelCompletes, Ends
  <1>3. /\ cf' \in [Tasks -> {"pending"} \cup Ends]
        /\ Monotone /\ cf'[t] # "pending" /\ <<>> \in Seq(Tasks)
    BY <1>1, <1>2, CompletesOnce, EmptySeq DEF AsyncInv
  <1>4. UNCHANGED <<thread, todo, flag, calls, helpers, combined, ops>>
    BY DEF CancelCompletes
  <1>5. result'[Main].kind = "cancel"
    BY <1>1, <1>2 DEF End, AsyncInv, TasksTyped
  <1>6. ReportsInListOrder(Main)' /\ ReturnsOneOfItsOwn(Main)'
    BY <1>5 DEF ReportsInListOrder, ReturnsOneOfItsOwn
  <1>7. \A u \in flag : cf'[u] # "pending"
    <2> SUFFICES ASSUME NEW u \in flag PROVE cf'[u] # "pending"
      OBVIOUS
    <2>1. CASE cf[u] # "pending"
      BY <1>3, <2>1 DEF Monotone, AsyncInv, TasksTyped
    <2>2. CASE Cancelling(u)
      <3>1. wait[Main].on = <<u>>
        BY <2>2 DEF Cancelling, Idle
      <3> QED
        BY <1>3, <3>1
    <2> QED
      BY <2>1, <2>2 DEF AsyncInv, InterruptedTasksAreSettled
  <1> QED
    BY <1>1, <1>2, <1>3, <1>4, <1>6, <1>7, EndKeeps

LEMMA StepAsyncInv == AsyncInv /\ [Next]_vars => AsyncInv'
  <1> SUFFICES ASSUME AsyncInv, [Next]_vars PROVE AsyncInv'
    OBVIOUS
  <1>1. \A x \in Threads : Unblock(x) => AsyncInv'
    BY GetKeeps, GetInterruptedKeeps, AnyReturnsKeeps, AnyInterruptedKeeps DEF Unblock
  <1>2. ASSUME NEW t \in Tasks, Run(t) \/ TaskStep(t) \/ CancelInterrupts(t)
        PROVE  AsyncInv'
    BY <1>1, <1>2, RunKeeps, TaskWaitsKeeps, TaskEndsKeeps, CancelInterruptsKeeps DEF TaskStep, Threads
  <1>3. CASE MainWaits \/ CancelCompletes \/ Unblock(Main)
    BY <1>1, <1>3, MainWaitsKeeps, CancelCompletesKeeps DEF Threads
  <1>4. CASE \E h \in helpers : Help(h)
    BY <1>4, HelpKeeps
  <1>5. CASE UNCHANGED vars
    <2>1. Monotone /\ UNCHANGED vars
      BY <1>5 DEF Monotone, vars
    <2>2. \A x \in Threads : GetsInTurn(x)' /\ ReportsInListOrder(x)' /\ ReturnsOneOfItsOwn(x)'
      BY <2>1, Rests, StillGets DEF vars
    <2> QED
      BY <2>1, <2>2 DEF vars, AsyncInv, TasksTyped, AllReportsInListOrder, AnyReturnsOneOfItsOwn,
         InterruptedTasksAreSettled, Cancelling, HelpsItsCall
  <1> QED
    BY <1>2, <1>3, <1>4, <1>5 DEF Next

(***************************************************************************)
(* The theorems.                                                           *)
(***************************************************************************)

\* runAll reports its own futures, in list order, up to the first failure.
THEOREM AllIsInListOrder == Spec => []AllReportsInListOrder
  <1>1. AsyncInv => AllReportsInListOrder
    BY DEF AsyncInv
  <1> QED
    BY <1>1, InitAsyncInv, StepAsyncInv, PTL DEF Spec

\* runAny returns the value of a future it was given, whatever helper threads of
\* earlier calls still complete.
THEOREM AnyIsOneOfItsOwn == Spec => []AnyReturnsOneOfItsOwn
  <1>1. AsyncInv => AnyReturnsOneOfItsOwn
    BY DEF AsyncInv
  <1> QED
    BY <1>1, InitAsyncInv, StepAsyncInv, PTL DEF Spec

\* Once cancel() is over, the future of a thread it interrupted is complete.
THEOREM InterruptsSettle == Spec => []InterruptedTasksAreSettled
  <1>1. AsyncInv => InterruptedTasksAreSettled
    BY DEF AsyncInv
  <1> QED
    BY <1>1, InitAsyncInv, StepAsyncInv, PTL DEF Spec

(***************************************************************************)
(* The answers of cancel().                                                *)
(***************************************************************************)

\* A future that is complete stays as it is, whoever completes or cancels it again.
LEMMA StepIsMonotone ==
  ASSUME AsyncInv, Next
  PROVE  Monotone
  <1>1. \A x \in Threads : Unblock(x) => Monotone
    BY DEF Unblock, Get, GetInterrupted, AnyReturns, AnyInterrupted, Monotone
  <1>2. ASSUME NEW t \in Tasks, Run(t) \/ TaskStep(t) \/ CancelInterrupts(t)
        PROVE  Monotone
    <2>1. CASE Complete(t, "value") \/ Complete(t, "failed") \/ Complete(t, "cancelled")
      BY <2>1, CompletesOnce DEF AsyncInv, Ends
    <2>2. TaskEnds(t) => Complete(t, "value") \/ Complete(t, "failed") \/ Complete(t, "cancelled")
      <3>1. result[t] \in Reports
        BY DEF AsyncInv, TasksTyped, Threads
      <3>2. result[t].res \in Ends
        BY <3>1 DEF Reports
      <3> QED
        BY <3>2 DEF TaskEnds, Ends
    <2> QED
      BY <1>1, <1>2, <2>1, <2>2 DEF TaskStep, Run, CancelInterrupts, TaskWaits, Monotone, Threads
  <1>3. CASE CancelCompletes
    <2>1. Head(wait[Main].on) \in Tasks
      BY <1>3, HeadOfSeq DEF CancelCompletes, AsyncInv, TasksTyped, Threads
    <2> QED
      BY <1>3, <2>1, CompletesOnce DEF CancelCompletes, AsyncInv, Ends
  <1>4. CASE MainWaits \/ Unblock(Main) \/ \E h \in helpers : Help(h)
    BY <1>1, <1>4 DEF MainWaits, Help, Monotone, Threads
  <1> QED
    BY <1>2, <1>3, <1>4 DEF Next

\* What a thread has got are tasks.
LEMMA GotAreTasks ==
  ASSUME AsyncInv, NEW x \in Threads
  PROVE  Got(x) \subseteq Tasks
  <1>1. wait[x].got \in Seq(Tasks) /\ result[x].got \in Seq(Tasks)
    BY DEF AsyncInv, TasksTyped, Reports
  <1> QED
    BY <1>1, ElementOfSeq DEF Got, Elements

\* Threads get nothing but what has a value, and Main ends no cancel().
LEMMA CancelInvKept ==
  ASSUME AsyncInv, CancelInv, Monotone,
         \A x \in Threads : \A t \in Got(x)' : t \in Got(x) \/ cf'[t] = "value",
         result'[Main] = result[Main] \/ result'[Main].kind # "cancel",
         wait'[Main] = wait[Main] \/ wait'[Main].kind # "cancel"
  PROVE  CancelInv'
  <1>1. \A x \in Threads : GotValues(x)'
    BY GotAreTasks DEF CancelInv, GotValues, Monotone
  <1>2. CancelAnswered'
    <2> SUFFICES ASSUME result'[Main] = result[Main], result[Main].kind = "cancel",
                        NEW t \in Elements(result[Main].asked)
                 PROVE  cf'[t] = cf[t]
      BY DEF CancelInv, CancelAnswered
    <2>1. result[Main].asked \in Seq(Tasks)
      BY DEF AsyncInv, TasksTyped, Reports, Threads
    <2>2. t \in Tasks
      BY <2>1, ElementOfSeq DEF Elements
    <2> QED
      BY <2>2 DEF CancelInv, CancelAnswered, Monotone
  <1>3. CancelsOne'
    BY DEF CancelInv, CancelsOne
  <1> QED
    BY <1>1, <1>2, <1>3 DEF CancelInv

\* A wait that ends reports what it had got.
LEMMA EndGets ==
  ASSUME AsyncInv, CancelInv, Monotone, NEW x \in Threads, NEW res, NEW got \in Seq(Tasks),
         End(x, res, got), wait[x].kind # "cancel",
         \A t \in Elements(got) : t \in Got(x) \/ cf'[t] = "value"
  PROVE  CancelInv'
  <1>1. /\ wait' = [wait EXCEPT ![x] = Idle]
        /\ result'[x].kind = wait[x].kind /\ result'[x].got = got
        /\ \A y \in Threads \ {x} : wait'[y] = wait[y] /\ result'[y] = result[y]
    BY DEF End, AsyncInv, TasksTyped
  <1>2. wait'[x].kind = "no" /\ wait'[x].got = <<>>
    BY <1>1 DEF AsyncInv, TasksTyped, Idle
  <1>3. Elements(<<>>) = {}
    BY DEF Elements
  <1>4. \A y \in Threads : \A t \in Got(y)' : t \in Got(y) \/ cf'[t] = "value"
    BY <1>1, <1>2, <1>3 DEF Got
  <1>5. /\ result'[Main] = result[Main] \/ result'[Main].kind # "cancel"
        /\ wait'[Main] = wait[Main] \/ wait'[Main].kind # "cancel"
    BY <1>1, <1>2 DEF Threads
  <1> QED
    BY <1>4, <1>5, CancelInvKept

\* A wait that begins has got nothing.
LEMMA BeginGets ==
  ASSUME AsyncInv, CancelInv, Monotone, NEW x \in Threads, NEW w \in Waits, Begin(x, w),
         UNCHANGED result
  PROVE  CancelInv'
  <1>1. /\ wait'[x].kind = w.kind /\ wait'[x].got = <<>> /\ w.kind # "cancel"
        /\ \A y \in Threads \ {x} : wait'[y] = wait[y]
    BY DEF Begin, Waits, AsyncInv, TasksTyped
  <1>2. Elements(<<>>) = {}
    BY DEF Elements
  <1>3. \A y \in Threads : \A t \in Got(y)' : t \in Got(y) \/ cf'[t] = "value"
    BY <1>1, <1>2 DEF Got
  <1>4. wait'[Main] = wait[Main] \/ wait'[Main].kind # "cancel"
    BY <1>1 DEF Threads
  <1> QED
    BY <1>3, <1>4, CancelInvKept

LEMMA UnblockAnswers ==
  ASSUME AsyncInv, CancelInv, Monotone, NEW x \in Threads, Unblock(x)
  PROVE  CancelInv'
  <1> DEFINE w == wait[x]
  <1>1. w.on \in Seq(Tasks) /\ w.got \in Seq(Tasks) /\ Elements(w.got) \subseteq Got(x)
    BY DEF AsyncInv, TasksTyped, Got
  <1>2. CASE Get(x)
    <2>1. w.kind \in {"await", "all"}
      BY <1>2 DEF Get
    <2>2. CASE w.on = <<>> \/ cf[Head(w.on)] # "value"
      <3>1. End(x, "value", w.got) \/ End(x, cf[Head(w.on)], w.got)
        BY <1>2, <2>2 DEF Get
      <3> QED
        BY <1>1, <2>1, <3>1, EndGets
    <2>3. CASE w.on # <<>> /\ cf[Head(w.on)] = "value"
      <3> DEFINE t == Head(w.on)
      <3>1. /\ wait' = [wait EXCEPT ![x].on = Tail(@), ![x].got = Append(@, t)]
            /\ result' = result /\ cf' = cf
        BY <1>2, <2>3 DEF Get
      <3>2. /\ wait'[x].got = Append(w.got, t) /\ wait'[x].kind = w.kind
            /\ \A y \in Threads \ {x} : wait'[y] = wait[y]
        <4>1. w \in [kind : {"no", "await", "all", "any", "cancel"},
                     on : Seq(Tasks), asked : Seq(Tasks), got : Seq(Tasks)]
          BY DEF AsyncInv, TasksTyped
        <4>2. /\ wait'[x] = [w EXCEPT !.on = Tail(@), !.got = Append(@, t)]
              /\ \A y \in Threads \ {x} : wait'[y] = wait[y]
          BY <3>1 DEF AsyncInv, TasksTyped
        <4> QED
          BY <4>1, <4>2
      <3>3. Elements(Append(w.got, t)) \subseteq Elements(w.got) \cup {t}
        <4>1. /\ t \in Tasks /\ Len(w.got) \in Nat /\ Len(Append(w.got, t)) = Len(w.got) + 1
              /\ \A k \in 1..Len(w.got) + 1 : Append(w.got, t)[k] = IF k <= Len(w.got) THEN w.got[k] ELSE t
          BY <1>1, <2>3, HeadOfSeq, AppendProperties, LenProperties
        <4> QED
          BY <4>1 DEF Elements
      <3>4. \A y \in Threads : \A u \in Got(y)' : u \in Got(y) \/ cf'[u] = "value"
        BY <2>3, <3>1, <3>2, <3>3 DEF Got
      <3>5. wait'[Main] = wait[Main] \/ wait'[Main].kind # "cancel"
        BY <2>1, <3>2 DEF Threads
      <3> QED
        BY <3>1, <3>4, <3>5, CancelInvKept
    <2> QED
      BY <2>2, <2>3
  <1>3. CASE GetInterrupted(x)
    BY <1>1, <1>3, EndGets DEF GetInterrupted
  <1>4. CASE AnyReturns(x)
    <2>1. PICK r \in Won(x) : End(x, "value", <<r.of>>)
      BY <1>4 DEF AnyReturns
    <2>2. r.of \in Tasks /\ cf[r.of] = "value" /\ cf' = cf /\ wait[x].kind # "cancel"
      BY <1>4, <2>1 DEF Won, AnyReturns, AsyncInv, TasksTyped
    <2>3. <<r.of>> \in Seq(Tasks) /\ Elements(<<r.of>>) = {r.of}
      BY <2>2 DEF Elements
    <2> QED
      BY <2>1, <2>2, <2>3, EndGets
  <1>5. CASE AnyInterrupted(x)
    <2>1. <<>> \in Seq(Tasks) /\ Elements(<<>>) = {}
      BY EmptySeq DEF Elements
    <2> QED
      BY <1>5, <2>1, EndGets DEF AnyInterrupted
  <1> QED
    BY <1>2, <1>3, <1>4, <1>5 DEF Unblock

\* cancel() answers for the state the future is in after it.
LEMMA CancelCompletesAnswers ==
  ASSUME AsyncInv, CancelInv, Monotone, CancelCompletes
  PROVE  CancelInv'
  <1>1. PICK t \in Tasks : wait[Main].on = <<t>> /\ wait[Main].asked = <<t>>
    BY DEF CancelCompletes, CancelInv, CancelsOne
  <1>2. wait[Main].kind = "cancel" /\ Main \in Threads /\ Head(wait[Main].on) = t
    BY <1>1 DEF CancelCompletes, Threads
  <1> DEFINE res == IF cf[t] \in {"pending", "cancelled"} THEN "cancelled" ELSE "failed"
  <1>3. Complete(t, "cancelled") /\ End(Main, res, <<>>)
    BY <1>2 DEF CancelCompletes
  <1>4. /\ wait'[Main].kind = "no" /\ wait'[Main].got = <<>>
        /\ result'[Main] = [kind |-> "cancel", res |-> res, asked |-> <<t>>, got |-> <<>>]
        /\ \A y \in Threads \ {Main} : wait'[y] = wait[y] /\ result'[y] = result[y]
    BY <1>1, <1>2, <1>3 DEF End, Idle, AsyncInv, TasksTyped
  <1>5. Elements(<<>>) = {} /\ Elements(<<t>>) = {t}
    BY DEF Elements
  <1>6. \A x \in Threads : GotValues(x)'
    BY <1>4, <1>5, GotAreTasks DEF CancelInv, GotValues, Got, Monotone
  <1>7. CancelAnswered'
    <2>1. cf' = IF cf[t] = "pending" THEN [cf EXCEPT ![t] = "cancelled"] ELSE cf
      BY <1>3 DEF Complete
    <2>2. cf[t] \in {"pending", "value", "failed", "cancelled"} /\ cf \in [Tasks -> {"pending"} \cup Ends]
      BY DEF AsyncInv, TasksTyped, Ends
    <2>3. cf'[t] \in IF res = "cancelled" THEN {"cancelled"} ELSE {"value", "failed"}
      BY <2>1, <2>2
    <2> QED
      BY <1>4, <1>5, <2>3 DEF CancelAnswered
  <1>8. CancelsOne'
    BY <1>4 DEF CancelsOne
  <1> QED
    BY <1>6, <1>7, <1>8 DEF CancelInv

LEMMA InitCancelInv == Init => CancelInv
  <1> SUFFICES ASSUME Init PROVE CancelInv
    OBVIOUS
  <1>1. \A x \in Threads : wait[x].kind = "no" /\ result[x].kind = "no" /\ wait[x].got = <<>> /\ result[x].got = <<>>
    BY DEF Init, Idle
  <1>2. Main \in Threads /\ Elements(<<>>) = {}
    BY DEF Threads, Elements
  <1> QED
    BY <1>1, <1>2 DEF CancelInv, CancelAnswered, CancelsOne, GotValues, Got

LEMMA StepCancelInv == AsyncInv /\ CancelInv /\ [Next]_vars => CancelInv'
  <1> SUFFICES ASSUME AsyncInv, CancelInv, [Next]_vars PROVE CancelInv'
    OBVIOUS
  <1>1. CASE UNCHANGED vars
    BY <1>1 DEF vars, CancelInv, CancelAnswered, CancelsOne, GotValues, Got
  <1>2. CASE Next
    <2>1. Monotone
      BY <1>2, StepIsMonotone
    <2>2. CASE UNCHANGED <<wait, result>>
      BY <2>1, <2>2, CancelInvKept DEF Got
    <2>3. \A x \in Threads : Unblock(x) => CancelInv'
      BY <2>1, UnblockAnswers
    <2>4. ASSUME NEW t \in Tasks, TaskWaits(t) PROVE CancelInv'
      <3>1. Head(todo[t]) \in Waits /\ t \in Threads
        BY <2>4, HeadOfSeq DEF TaskWaits, AsyncInv, TasksTyped, Threads
      <3> QED
        BY <2>1, <2>4, <3>1, BeginGets DEF TaskWaits
    <2>5. CASE MainWaits
      <3>1. PICK w \in Waits : Begin(Main, w)
        <4>1. \A t \in Tasks : [kind |-> "await", on |-> <<t>>] \in Waits
          BY DEF Waits
        <4>2. \A s \in Lists, k \in {"all", "any"} : [kind |-> k, on |-> s] \in Waits
          BY BodyAssumption DEF Waits
        <4> QED
          BY <2>5, <4>1, <4>2 DEF MainWaits
      <3> QED
        BY <2>1, <2>5, <3>1, BeginGets DEF MainWaits, Threads
    <2>6. ASSUME NEW t \in Tasks, CancelInterrupts(t) PROVE CancelInv'
      <3> DEFINE w == [kind |-> "cancel", on |-> <<t>>, asked |-> <<t>>, got |-> <<>>]
      <3>1. /\ wait'[Main] = w /\ \A y \in Threads \ {Main} : wait'[y] = wait[y]
            /\ UNCHANGED <<cf, result>>
        BY <2>6 DEF CancelInterrupts, AsyncInv, TasksTyped, Threads
      <3>2. Elements(<<>>) = {}
        BY DEF Elements
      <3>3. \A x \in Threads : Got(x)' \subseteq Got(x)
        BY <3>1, <3>2 DEF Got
      <3>4. CancelsOne'
        BY <3>1 DEF CancelsOne
      <3> QED
        BY <3>1, <3>3, <3>4 DEF CancelInv, CancelAnswered, GotValues
    <2> QED
      BY <1>2, <2>1, <2>2, <2>3, <2>4, <2>5, <2>6, CancelCompletesAnswers
         DEF Next, TaskStep, Run, TaskEnds, Help, Threads
  <1> QED
    BY <1>1, <1>2

\* A cancel() that says it cancelled a task leaves no thread with a value of it,
\* however the interrupt, the body, waits and helper threads interleave.
THEOREM CancelIsTrue == Spec => []CancelTellsTheTruth
  <1>1. AsyncInv /\ CancelInv => CancelTellsTheTruth
    BY DEF AsyncInv, CancelInv, CancelAnswered, GotValues, CancelTellsTheTruth
  <1> QED
    BY <1>1, InitAsyncInv, StepAsyncInv, InitCancelInv, StepCancelInv, PTL DEF Spec

(***************************************************************************)
(* The registry of native futures.                                          *)
(***************************************************************************)

Counted == {c \in Calls : pc[c] # "start"}
Registered(c) == pc[c] \notin {"start", "numbered"}
Entered(c) == handle[c] \in DOMAIN pending /\ pending[handle[c]] = c

(***************************************************************************)
(* What the invariant says of one call.                                     *)
(***************************************************************************)

\* The numbers of calls that have a handle.
LEMMA CountedFacts ==
  ASSUME pc \in [Calls -> {"start", "numbered", "registered", "inBridge", "returned"}]
  PROVE  /\ IsFiniteSet(Counted) /\ Counted \subseteq Calls
         /\ Cardinality(Counted) \in Nat /\ Cardinality(Calls) \in Nat
         /\ Cardinality(Counted) <= Cardinality(Calls)
  <1>1. Counted \subseteq Calls
    BY DEF Counted
  <1> QED
    BY <1>1, CallsAssumption, FS_Subset, FS_CardinalityType

\* A call is owed an answer exactly while its own handle leads to it.
LEMMA OwedFacts ==
  RegistryIsExact /\ EntriesAreOwn <=>
    /\ EntriesAreOwn
    /\ \A c \in Calls :
         Entered(c) <=> Registered(c) /\ c \notin withdrawn /\ taken[c] # c
  <1>1. ASSUME EntriesAreOwn, NEW c \in Calls
        PROVE  (\A d \in Calls : taken[d] # c) <=> taken[c] # c
    BY <1>1, CallsAssumption DEF EntriesAreOwn
  <1>2. \A c \in Calls : (\E h \in DOMAIN pending : h = handle[c] /\ pending[h] = c) <=> Entered(c)
    BY DEF Entered
  <1> QED
    BY <1>1, <1>2 DEF RegistryIsExact, Registered

\* The entry under a call's handle is that call's.
LEMMA EntryIsOwn ==
  ASSUME BridgeInv, NEW c \in Calls, pc[c] # "start", handle[c] \in DOMAIN pending
  PROVE  pending[handle[c]] = c
  <1>1. pending[handle[c]] \in Calls /\ handle[pending[handle[c]]] = handle[c]
    BY DEF BridgeInv, RegistryInv, TypeOK, EntriesAreOwn
  <1> QED
    BY <1>1 DEF BridgeInv, HandlesAreOwn

\* The parts of the invariant, and the exact registry in terms of single calls.
LEMMA Parts ==
  ASSUME BridgeInv
  PROVE  /\ TypeOK /\ HandlesAreOwn /\ EntriesAreOwn /\ StagesInTurn /\ OwnValueOnce
         /\ WithdrawnStaysSilent
         /\ \A c \in Calls : Entered(c) <=> Registered(c) /\ c \notin withdrawn /\ taken[c] # c
  BY OwedFacts DEF BridgeInv, RegistryInv

LEMMA Together ==
  ASSUME TypeOK', HandlesAreOwn', EntriesAreOwn', StagesInTurn', OwnValueOnce',
         WithdrawnStaysSilent',
         \A c \in Calls :
           Entered(c)' <=> Registered(c)' /\ c \notin withdrawn' /\ taken'[c] # c
  PROVE  BridgeInv'
  <1>1. ASSUME NEW c \in Calls
        PROVE  (\A d \in Calls : taken'[d] # c) <=> taken'[c] # c
    BY CallsAssumption DEF EntriesAreOwn
  <1>2. \A c \in Calls :
          (\E h \in DOMAIN pending' : h = handle'[c] /\ pending'[h] = c) <=> Entered(c)'
    BY DEF Entered
  <1>3. RegistryIsExact'
    BY <1>1, <1>2 DEF RegistryIsExact, Registered
  <1> QED
    BY <1>3 DEF BridgeInv, RegistryInv

(***************************************************************************)
(* Steps that leave the registry, what was taken and what ran as they are.   *)
(***************************************************************************)
LEMMA QuietStep ==
  ASSUME BridgeInv, TypeOK',
         UNCHANGED <<next, pending, handle, taken, callback, gaveUp, withdrawn>>,
         \A c \in Calls : IF Registered(c) THEN Registered(c)' ELSE pc'[c] = pc[c],
         \A c \in Calls : stage'[c] # stage[c] =>
           pc'[c] \in {"inBridge", "returned"} /\ stage[c] # "over"
           /\ (stage[c] = "running" => stage'[c] = "over"),
         \A c \in Calls : pc[c] \in {"inBridge", "returned"} => pc'[c] \in {"inBridge", "returned"}
  PROVE  BridgeInv'
  <1>1. /\ TypeOK /\ HandlesAreOwn /\ EntriesAreOwn /\ StagesInTurn /\ OwnValueOnce
        /\ WithdrawnStaysSilent
        /\ \A c \in Calls : Entered(c) <=> Registered(c) /\ c \notin withdrawn /\ taken[c] # c
    BY Parts
  <1>2. HandlesAreOwn'
    <2>1. \A c \in Calls : pc'[c] = "start" <=> pc[c] = "start"
      BY DEF Registered
    <2>2. {c \in Calls : pc'[c] # "start"} = {c \in Calls : pc[c] # "start"}
      BY <2>1
    <2> QED
      BY <1>1, <2>1, <2>2 DEF HandlesAreOwn
  <1>3. EntriesAreOwn'
    BY <1>1 DEF EntriesAreOwn, Registered, TypeOK
  <1>4. StagesInTurn'
    <2> SUFFICES ASSUME NEW c \in Calls
                 PROVE  /\ stage'[c] # "none" => pc'[c] \in {"inBridge", "returned"}
                        /\ taken[c] # NoCall => stage'[c] \in {"running", "over"}
                        /\ callback[c] # <<>> => taken[c] = c /\ stage'[c] = "over"
                        /\ c \in gaveUp => pc'[c] \notin {"start", "numbered"}
      BY DEF StagesInTurn
    <2> QED
      BY <1>1 DEF StagesInTurn, Registered
  <1>5. OwnValueOnce' /\ WithdrawnStaysSilent'
    BY <1>1 DEF OwnValueOnce, WithdrawnStaysSilent
  <1>6. \A c \in Calls :
          Entered(c)' <=> Registered(c)' /\ c \notin withdrawn' /\ taken'[c] # c
    BY <1>1 DEF Entered, Registered
  <1> QED
    BY <1>2, <1>3, <1>4, <1>5, <1>6, Together

(***************************************************************************)
(* The steps of Register, Unregister and Invoke.                            *)
(***************************************************************************)

\* The number taken is nobody else's.
LEMMA TakeIdKeeps ==
  ASSUME BridgeInv, NEW c \in Calls, TakeId(c)
  PROVE  BridgeInv'
  <1>1. /\ TypeOK /\ HandlesAreOwn /\ EntriesAreOwn /\ StagesInTurn /\ OwnValueOnce
        /\ WithdrawnStaysSilent
        /\ \A d \in Calls : Entered(d) <=> Registered(d) /\ d \notin withdrawn /\ taken[d] # d
    BY Parts
  <1>2. /\ pc[c] = "start" /\ next' = next + 1
        /\ handle' = [handle EXCEPT ![c] = next + 1]
        /\ pc' = [pc EXCEPT ![c] = "numbered"]
        /\ UNCHANGED <<pending, future, stage, taken, callback, body, gaveUp, withdrawn, pool>>
    BY DEF TakeId
  <1>3. Counted' = Counted \cup {c} /\ c \notin Counted
    BY <1>1, <1>2 DEF Counted, TypeOK
  <1>4. pc' \in [Calls -> {"start", "numbered", "registered", "inBridge", "returned"}]
    BY <1>1, <1>2 DEF TypeOK
  <1>5. Counted' \subseteq Calls /\ IsFiniteSet(Counted)
    BY <1>1, <1>3, CountedFacts DEF TypeOK
  <1>6. Cardinality(Counted') = Cardinality(Counted) + 1
    BY <1>3, <1>5, FS_AddElement
  <1>7. Cardinality(Counted') <= Cardinality(Calls)
    BY <1>5, CallsAssumption, FS_Subset
  <1>8. next = Cardinality(Counted) /\ next \in Nat /\ Cardinality(Calls) \in Nat
    BY <1>1, CountedFacts DEF HandlesAreOwn, Counted, TypeOK
  <1>9. next' \in 1..Cardinality(Calls) /\ next' = Cardinality(Counted')
    BY <1>2, <1>6, <1>7, <1>8
  <1>10. TypeOK'
    BY <1>1, <1>2, <1>4, <1>9 DEF TypeOK, Handles
  <1>11. HandlesAreOwn'
    <2>0. /\ \A d \in Calls : IF pc[d] = "start" THEN handle[d] = 0 ELSE handle[d] \in 1..next
          /\ \A d, e \in Calls : handle[d] = handle[e] /\ pc[d] # "start" => d = e
      BY <1>1 DEF HandlesAreOwn
    <2>1. /\ handle'[c] = next + 1 /\ pc'[c] = "numbered"
          /\ \A d \in Calls \ {c} : handle'[d] = handle[d] /\ pc'[d] = pc[d]
      BY <1>1, <1>2 DEF TypeOK
    <2>2. \A d \in Calls : handle[d] \in Nat /\ handle[d] <= next
      BY <1>8, <2>0
    <2>3. \A d \in Calls : IF pc'[d] = "start" THEN handle'[d] = 0 ELSE handle'[d] \in 1..next'
      BY <1>2, <1>8, <2>0, <2>1
    <2>4. \A d, e \in Calls : handle'[d] = handle'[e] /\ pc'[d] # "start" => d = e
      BY <1>8, <2>0, <2>1, <2>2
    <2> QED
      BY <1>9, <2>3, <2>4 DEF HandlesAreOwn, Counted
  <1>12. EntriesAreOwn'
    BY <1>1, <1>2 DEF EntriesAreOwn, TypeOK
  <1>13. StagesInTurn'
    BY <1>1, <1>2 DEF StagesInTurn, TypeOK
  <1>14. OwnValueOnce' /\ WithdrawnStaysSilent'
    BY <1>1, <1>2 DEF OwnValueOnce, WithdrawnStaysSilent
  <1>15. ASSUME NEW d \in Calls
         PROVE  Entered(d)' <=> Registered(d)' /\ d \notin withdrawn' /\ taken'[d] # d
    <2>1. CASE d = c
      <3>1. ~Registered(c)'
        BY <1>1, <1>2 DEF Registered, TypeOK
      <3>2. ~Entered(c)'
        <4> SUFFICES ASSUME Entered(c)' PROVE FALSE
          OBVIOUS
        <4>1. pc[c] \notin {"start", "numbered"}
          BY <1>1, <1>2 DEF Entered, EntriesAreOwn, TypeOK
        <4> QED
          BY <1>2, <4>1
      <3> QED
        BY <2>1, <3>1, <3>2
    <2>2. CASE d # c
      BY <1>1, <1>2, <2>2 DEF Entered, Registered, TypeOK
    <2> QED
      BY <2>1, <2>2
  <1> QED
    BY <1>10, <1>11, <1>12, <1>13, <1>14, <1>15, Together

\* The entry is stored under a handle no other call has.
LEMMA StoreEntryKeeps ==
  ASSUME BridgeInv, NEW c \in Calls, StoreEntry(c)
  PROVE  BridgeInv'
  <1>1. /\ TypeOK /\ HandlesAreOwn /\ EntriesAreOwn /\ StagesInTurn /\ OwnValueOnce
        /\ WithdrawnStaysSilent
        /\ \A d \in Calls : Entered(d) <=> Registered(d) /\ d \notin withdrawn /\ taken[d] # d
    BY Parts
  <1>2. /\ pc[c] = "numbered" /\ pc' = [pc EXCEPT ![c] = "registered"]
        /\ pending' = With(pending, handle[c], c)
        /\ UNCHANGED <<next, handle, future, stage, taken, callback, body, gaveUp, withdrawn, pool>>
    BY DEF StoreEntry
  <1>3. /\ DOMAIN pending' = DOMAIN pending \cup {handle[c]}
        /\ pending'[handle[c]] = c
        /\ \A h \in DOMAIN pending \ {handle[c]} : pending'[h] = pending[h]
    BY <1>2 DEF With
  <1>4. /\ handle[c] \in 1..next
        /\ \A d \in Calls : pc[d] = "start" <=> pc'[d] = "start"
        /\ \A d \in Calls \ {c} : handle[d] # handle[c]
    BY <1>1, <1>2 DEF HandlesAreOwn, TypeOK
  <1>5. TypeOK'
    <2>1. handle[c] \in Handles
      BY <1>1, <1>4, CountedFacts DEF TypeOK, Handles
    <2>2. \A h \in DOMAIN pending' : pending'[h] \in Calls
      BY <1>1, <1>3 DEF TypeOK
    <2> QED
      BY <1>1, <1>2, <1>3, <2>1, <2>2 DEF TypeOK
  <1>6. HandlesAreOwn'
    <2>1. {d \in Calls : pc'[d] # "start"} = {d \in Calls : pc[d] # "start"}
      BY <1>4
    <2> QED
      BY <1>1, <1>2, <1>4, <2>1 DEF HandlesAreOwn
  <1>7. EntriesAreOwn'
    <2>1. \A h \in DOMAIN pending' :
            handle[pending'[h]] = h /\ pc'[pending'[h]] \notin {"start", "numbered"}
      <3> SUFFICES ASSUME NEW h \in DOMAIN pending'
                   PROVE  handle[pending'[h]] = h /\ pc'[pending'[h]] \notin {"start", "numbered"}
        OBVIOUS
      <3>1. CASE h = handle[c]
        BY <1>1, <1>2, <1>3, <3>1 DEF TypeOK
      <3>2. CASE h # handle[c]
        <4>1. /\ h \in DOMAIN pending /\ pending'[h] = pending[h] /\ pending[h] \in Calls
              /\ handle[pending[h]] = h /\ pc[pending[h]] \notin {"start", "numbered"}
          BY <1>1, <1>3, <3>2 DEF EntriesAreOwn, TypeOK
        <4> QED
          BY <1>1, <1>2, <4>1 DEF TypeOK
      <3> QED
        BY <3>1, <3>2
    <2> QED
      BY <1>1, <1>2, <2>1 DEF EntriesAreOwn
  <1>8. StagesInTurn'
    BY <1>1, <1>2 DEF StagesInTurn, TypeOK
  <1>9. OwnValueOnce' /\ WithdrawnStaysSilent'
    BY <1>1, <1>2 DEF OwnValueOnce, WithdrawnStaysSilent
  <1>10. ASSUME NEW d \in Calls
         PROVE  Entered(d)' <=> Registered(d)' /\ d \notin withdrawn' /\ taken'[d] # d
    <2>1. CASE d = c
      <3>1. Entered(c)' /\ Registered(c)'
        BY <1>1, <1>2, <1>3 DEF Entered, Registered, TypeOK
      <3>2. c \notin withdrawn /\ taken[c] # c
        <4>1. c \notin gaveUp /\ stage[c] = "none"
          BY <1>1, <1>2 DEF StagesInTurn, TypeOK
        <4>2. taken[c] = NoCall
          BY <1>1, <4>1 DEF StagesInTurn
        <4> QED
          BY <1>1, <4>1, <4>2, CallsAssumption DEF TypeOK
      <3> QED
        BY <1>2, <2>1, <3>1, <3>2
    <2>2. CASE d # c
      BY <1>1, <1>2, <1>3, <1>4, <2>2 DEF Entered, Registered, TypeOK
    <2> QED
      BY <2>1, <2>2
  <1> QED
    BY <1>5, <1>6, <1>7, <1>8, <1>9, <1>10, Together

\* An entry leaves the registry: what is left is as it was.
LEMMA WithoutFacts ==
  ASSUME NEW f, NEW h
  PROVE  /\ DOMAIN Without(f, h) = DOMAIN f \ {h}
         /\ \A k \in DOMAIN f \ {h} : Without(f, h)[k] = f[k]
  BY DEF Without

LEMMA UnregisterKeeps ==
  ASSUME BridgeInv, NEW c \in Calls, Unregister(c)
  PROVE  BridgeInv'
  <1>1. /\ TypeOK /\ HandlesAreOwn /\ EntriesAreOwn /\ StagesInTurn /\ OwnValueOnce
        /\ WithdrawnStaysSilent
        /\ \A d \in Calls : Entered(d) <=> Registered(d) /\ d \notin withdrawn /\ taken[d] # d
    BY Parts
  <1>2. /\ Registered(c) /\ gaveUp' = gaveUp \cup {c}
        /\ withdrawn' = withdrawn \cup {d \in {c} : handle[d] \in DOMAIN pending}
        /\ pending' = Without(pending, handle[c])
        /\ UNCHANGED <<next, handle, pc, future, stage, taken, callback, body, pool>>
    BY DEF Unregister, Registered
  <1>3. /\ DOMAIN pending' = DOMAIN pending \ {handle[c]}
        /\ \A h \in DOMAIN pending \ {handle[c]} : pending'[h] = pending[h]
    BY <1>2, WithoutFacts
  <1>4. handle[c] \in DOMAIN pending <=> Entered(c)
    BY <1>2, EntryIsOwn DEF Entered, Registered
  <1>5. \A d \in Calls \ {c} : handle[d] # handle[c]
    BY <1>1, <1>2 DEF HandlesAreOwn, Registered
  <1>6. TypeOK'
    BY <1>1, <1>2, <1>3 DEF TypeOK
  <1>7. HandlesAreOwn'
    BY <1>1, <1>2 DEF HandlesAreOwn
  <1>8. EntriesAreOwn'
    BY <1>1, <1>2, <1>3 DEF EntriesAreOwn
  <1>9. StagesInTurn'
    BY <1>1, <1>2 DEF StagesInTurn, Registered
  <1>10. OwnValueOnce'
    BY <1>1, <1>2 DEF OwnValueOnce
  <1>11. WithdrawnStaysSilent'
    <2>1. ASSUME Entered(c)
          PROVE  callback[c] = <<>> /\ \A d \in Calls : taken[d] # c
      <3>1. taken[c] # c
        BY <1>1, <2>1
      <3> QED
        BY <1>1, <3>1, CallsAssumption DEF StagesInTurn, EntriesAreOwn
    <2> QED
      BY <1>1, <1>2, <1>4, <2>1 DEF WithdrawnStaysSilent
  <1>12. ASSUME NEW d \in Calls
         PROVE  Entered(d)' <=> Registered(d)' /\ d \notin withdrawn' /\ taken'[d] # d
    <2>1. CASE d = c
      BY <1>1, <1>2, <1>3, <1>4, <2>1 DEF Entered, Registered
    <2>2. CASE d # c
      BY <1>1, <1>2, <1>3, <1>5, <2>2 DEF Entered, Registered
    <2> QED
      BY <2>1, <2>2
  <1> QED
    BY <1>6, <1>7, <1>8, <1>9, <1>10, <1>11, <1>12, Together

LEMMA InvokeTakesKeeps ==
  ASSUME BridgeInv, NEW c \in Calls, InvokeTakes(c)
  PROVE  BridgeInv'
  <1>1. /\ TypeOK /\ HandlesAreOwn /\ EntriesAreOwn /\ StagesInTurn /\ OwnValueOnce
        /\ WithdrawnStaysSilent
        /\ \A d \in Calls : Entered(d) <=> Registered(d) /\ d \notin withdrawn /\ taken[d] # d
    BY Parts
  <1>2. /\ stage[c] = "running" /\ taken[c] = NoCall /\ handle[c] \in DOMAIN pending
        /\ taken' = [taken EXCEPT ![c] = pending[handle[c]]]
        /\ pending' = Without(pending, handle[c])
        /\ UNCHANGED <<next, handle, pc, future, stage, callback, body, gaveUp, withdrawn, pool>>
    BY DEF InvokeTakes
  <1>3. pc[c] \in {"inBridge", "returned"}
    BY <1>1, <1>2 DEF StagesInTurn
  <1>4. pending[handle[c]] = c /\ Entered(c)
    BY <1>2, <1>3, EntryIsOwn DEF Entered
  <1>5. /\ DOMAIN pending' = DOMAIN pending \ {handle[c]}
        /\ \A h \in DOMAIN pending \ {handle[c]} : pending'[h] = pending[h]
    BY <1>2, WithoutFacts
  <1>6. \A d \in Calls \ {c} : handle[d] # handle[c]
    BY <1>1, <1>3 DEF HandlesAreOwn
  <1>7. taken' = [taken EXCEPT ![c] = c]
    BY <1>2, <1>4
  <1>8. TypeOK'
    BY <1>1, <1>2, <1>5, <1>7 DEF TypeOK
  <1>9. HandlesAreOwn'
    BY <1>1, <1>2 DEF HandlesAreOwn
  <1>10. EntriesAreOwn'
    BY <1>1, <1>2, <1>5, <1>7 DEF EntriesAreOwn, TypeOK
  <1>11. StagesInTurn'
    BY <1>1, <1>2, <1>7 DEF StagesInTurn, TypeOK
  <1>12. OwnValueOnce'
    BY <1>1, <1>2 DEF OwnValueOnce
  <1>13. WithdrawnStaysSilent'
    <2>1. c \notin withdrawn
      BY <1>1, <1>4
    <2> QED
      BY <1>1, <1>2, <1>7, <2>1 DEF WithdrawnStaysSilent, TypeOK
  <1>14. ASSUME NEW d \in Calls
         PROVE  Entered(d)' <=> Registered(d)' /\ d \notin withdrawn' /\ taken'[d] # d
    <2>1. CASE d = c
      BY <1>1, <1>2, <1>5, <1>7, <2>1 DEF Entered, TypeOK
    <2>2. CASE d # c
      BY <1>1, <1>2, <1>5, <1>6, <1>7, <2>2 DEF Entered, Registered, TypeOK
    <2> QED
      BY <2>1, <2>2
  <1> QED
    BY <1>8, <1>9, <1>10, <1>11, <1>12, <1>13, <1>14, Together

\* What was taken is the call's own callback, and it has not run before.
LEMMA DispatchKeeps ==
  ASSUME BridgeInv, NEW c \in Calls, Dispatch(c)
  PROVE  BridgeInv'
  <1>1. /\ TypeOK /\ HandlesAreOwn /\ EntriesAreOwn /\ StagesInTurn /\ OwnValueOnce
        /\ WithdrawnStaysSilent
        /\ \A d \in Calls : Entered(d) <=> Registered(d) /\ d \notin withdrawn /\ taken[d] # d
    BY Parts
  <1>2. taken[c] = c /\ stage[c] = "running"
    BY <1>1 DEF Dispatch, Starts, EntriesAreOwn
  <1>3. callback[c] = <<>>
    BY <1>1, <1>2 DEF StagesInTurn
  <1>4. /\ callback' = [callback EXCEPT ![c] = <<c>>]
        /\ body' = [body EXCEPT ![c] = "running"]
        /\ stage' = [stage EXCEPT ![c] = "over"]
        /\ pool' = IF pool = c THEN NoCall ELSE pool
        /\ pc' = [pc EXCEPT ![c] = IF @ = "inBridge" THEN "returned" ELSE @]
        /\ UNCHANGED <<next, pending, handle, future, taken, gaveUp, withdrawn>>
    <2>1. callback' = [callback EXCEPT ![c] = Append(callback[c], c)]
      BY <1>2 DEF Dispatch, Starts
    <2>2. Append(<<>>, c) = <<c>>
      OBVIOUS
    <2> QED
      BY <1>2, <1>3, <2>1, <2>2 DEF Dispatch, Starts, StageEnds
  <1>5. TypeOK'
    <2>1. <<c>> \in Seq(Calls)
      OBVIOUS
    <2> QED
      BY <1>1, <1>4, <2>1 DEF TypeOK
  <1>6. \A d \in Calls :
          /\ pc'[d] = "start" <=> pc[d] = "start"
          /\ Registered(d)' <=> Registered(d)
          /\ pc[d] \in {"inBridge", "returned"} => pc'[d] \in {"inBridge", "returned"}
    BY <1>1, <1>4 DEF TypeOK, Registered
  <1>7. HandlesAreOwn'
    <2>1. {d \in Calls : pc'[d] # "start"} = {d \in Calls : pc[d] # "start"}
      BY <1>6
    <2> QED
      BY <1>1, <1>4, <1>6, <2>1 DEF HandlesAreOwn
  <1>8. EntriesAreOwn'
    BY <1>1, <1>4, <1>6 DEF EntriesAreOwn, Registered, TypeOK
  <1>9. StagesInTurn'
    <2> SUFFICES ASSUME NEW d \in Calls
                 PROVE  /\ stage'[d] # "none" => pc'[d] \in {"inBridge", "returned"}
                        /\ taken[d] # NoCall => stage'[d] \in {"running", "over"}
                        /\ callback'[d] # <<>> => taken[d] = d /\ stage'[d] = "over"
                        /\ d \in gaveUp => pc'[d] \notin {"start", "numbered"}
      BY <1>4 DEF StagesInTurn
    <2>1. CASE d = c
      BY <1>1, <1>2, <1>4, <1>6, <2>1 DEF StagesInTurn, TypeOK, Registered
    <2>2. CASE d # c
      BY <1>1, <1>4, <1>6, <2>2 DEF StagesInTurn, TypeOK, Registered
    <2> QED
      BY <2>1, <2>2
  <1>10. OwnValueOnce'
    BY <1>1, <1>4 DEF OwnValueOnce, TypeOK
  <1>11. WithdrawnStaysSilent'
    BY <1>1, <1>2, <1>4 DEF WithdrawnStaysSilent, TypeOK
  <1>12. \A d \in Calls :
           Entered(d)' <=> Registered(d)' /\ d \notin withdrawn' /\ taken'[d] # d
    BY <1>1, <1>4, <1>6 DEF Entered
  <1> QED
    BY <1>5, <1>7, <1>8, <1>9, <1>10, <1>11, <1>12, Together

(***************************************************************************)
(* The inductive invariant and the theorems.                                *)
(***************************************************************************)
LEMMA InitBridgeInv == BridgeInit => BridgeInv
  <1> SUFFICES ASSUME BridgeInit PROVE BridgeInv
    OBVIOUS
  <1>1. {c \in Calls : pc[c] # "start"} = {} /\ next = 0 /\ DOMAIN pending = {}
    BY DEF BridgeInit
  <1>2. Cardinality({}) = 0 /\ Cardinality(Calls) \in Nat
    BY CallsAssumption, FS_EmptySet, FS_CardinalityType
  <1>3. TypeOK
    BY <1>1, <1>2 DEF BridgeInit, TypeOK
  <1>4. HandlesAreOwn
    BY <1>1, <1>2 DEF BridgeInit, HandlesAreOwn
  <1>5. EntriesAreOwn /\ StagesInTurn /\ OwnValueOnce /\ WithdrawnStaysSilent /\ RegistryIsExact
    BY <1>1 DEF BridgeInit, EntriesAreOwn, StagesInTurn, OwnValueOnce, WithdrawnStaysSilent,
                RegistryIsExact
  <1> QED
    BY <1>3, <1>4, <1>5 DEF BridgeInv, RegistryInv

LEMMA StepBridgeInv == BridgeInv /\ [BridgeNext]_bridgeVars => BridgeInv'
  <1> SUFFICES ASSUME BridgeInv, [BridgeNext]_bridgeVars PROVE BridgeInv'
    OBVIOUS
  <1>0. TypeOK /\ StagesInTurn
    BY DEF BridgeInv, RegistryInv
  <1>1. ASSUME NEW c \in Calls, Registers(c) \/ Unregister(c)
        PROVE  BridgeInv'
    BY <1>1, TakeIdKeeps, StoreEntryKeeps, UnregisterKeeps DEF Registers
  <1>2. ASSUME NEW c \in Calls, Bridge(c) \/ BridgeThrows(c)
        PROVE  BridgeInv'
    <2>1. TypeOK'
      BY <1>0, <1>2 DEF TypeOK, Bridge, BridgeThrows
    <2> QED
      BY <1>0, <1>2, <2>1, QuietStep DEF Bridge, BridgeThrows, TypeOK, Registered
  <1>3. ASSUME NEW c \in Calls, ThenAccept(c)
        PROVE  BridgeInv'
    <2>1. TypeOK'
      BY <1>0, <1>3 DEF TypeOK, ThenAccept
    <2> QED
      BY <1>0, <1>3, <2>1, QuietStep DEF ThenAccept, TypeOK, Registered
  <1>4. ASSUME NEW c \in Calls, Ready(c) \/ Settles(c)
        PROVE  BridgeInv'
    <2>1. TypeOK'
      <3>1. Ready(c) => TypeOK'
        BY <1>0 DEF TypeOK, Ready
      <3>2. Fulfil(c) => TypeOK'
        BY <1>0 DEF TypeOK, Fulfil
      <3>3. Reject(c) => TypeOK'
        BY <1>0 DEF TypeOK, Reject
      <3> QED
        BY <1>4, <3>1, <3>2, <3>3 DEF Settles
    <2>2. stage[c] # "none" => pc[c] \in {"inBridge", "returned"}
      BY <1>0 DEF StagesInTurn
    <2>3. pc' = pc /\ UNCHANGED <<next, pending, handle, taken, callback, gaveUp, withdrawn>>
      BY <1>4 DEF Ready, Settles, Fulfil, Reject
    <2>4. \A d \in Calls : stage'[d] # stage[d] => d = c /\ stage[c] = "waiting"
      <3>1. stage \in [Calls -> {"none", "waiting", "running", "over"}]
        BY <1>0 DEF TypeOK
      <3>2. stage' = stage \/ \E s : stage' = [stage EXCEPT ![c] = s] /\
                                   (stage[c] = "waiting" \/ s = stage[c])
        BY <1>4 DEF Ready, Settles, Fulfil, Reject
      <3> QED
        BY <3>1, <3>2
    <2> QED
      BY <2>1, <2>2, <2>3, <2>4, QuietStep DEF Registered
  <1>5. ASSUME NEW c \in Calls, InvokeMisses(c)
        PROVE  BridgeInv'
    <2>1. TypeOK'
      BY <1>0, <1>5 DEF TypeOK, InvokeMisses, StageEnds
    <2>2. pc[c] \in {"inBridge", "returned"}
      BY <1>0, <1>5 DEF InvokeMisses, StagesInTurn
    <2> QED
      BY <1>0, <1>5, <2>1, <2>2, QuietStep DEF InvokeMisses, StageEnds, TypeOK, Registered
  <1>6. ASSUME NEW c \in Calls, InvokeTakes(c) \/ Dispatch(c)
        PROVE  BridgeInv'
    BY <1>6, InvokeTakesKeeps, DispatchKeeps
  <1>7. ASSUME NEW c \in Calls, CallbackReturns(c)
        PROVE  BridgeInv'
    <2>1. TypeOK'
      BY <1>0, <1>7 DEF TypeOK, CallbackReturns
    <2> QED
      BY <1>7, <2>1, QuietStep DEF CallbackReturns, Registered
  <1>8. CASE UNCHANGED bridgeVars
    <2>1. TypeOK'
      BY <1>0, <1>8 DEF TypeOK, bridgeVars
    <2> QED
      BY <1>8, <2>1, QuietStep DEF bridgeVars, Registered
  <1> QED
    BY <1>1, <1>2, <1>3, <1>4, <1>5, <1>6, <1>7, <1>8 DEF BridgeNext, Stage

\* A callback starts at most once and with the value of its own call's future,
\* whatever registers, gives up and settles at the same time.
THEOREM CallbacksGetTheirOwn == BridgeSpec => []OwnValueOnce
  <1>1. BridgeInv => OwnValueOnce
    BY DEF BridgeInv
  <1> QED
    BY <1>1, InitBridgeInv, StepBridgeInv, PTL DEF BridgeSpec

\* The registry holds exactly the calls that are owed an answer, and an entry is
\* removed by Invoke or by Unregister but never by both.
THEOREM RegistryIsKept == BridgeSpec => []RegistryInv
  <1>1. BridgeInv => RegistryInv
    BY DEF BridgeInv
  <1> QED
    BY <1>1, InitBridgeInv, StepBridgeInv, PTL DEF BridgeSpec
=============================================================================
