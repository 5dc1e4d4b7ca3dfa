---------------------------- MODULE AgentProofs ----------------------------
(* Theorems about Agent, for any number of agents, callers, intents and paths. *)
EXTENDS AgentRefinement, DataLemmas

(***************************************************************************)
(* Lemmas about the log of an agent.                                       *)
(***************************************************************************)

\* The log starts with what was dispatched.
LEMMA LogFacts ==
  ASSUME TypeOK, NEW a \in Agents
  PROVE  /\ Log(a) \in Seq(Message)
         /\ Len(served[a]) \in Nat /\ Len(Log(a)) \in Nat
         /\ Len(served[a]) <= Len(Log(a))
         /\ \A k \in 1..Len(served[a]) : Log(a)[k] = served[a][k]
  <1> DEFINE s == served[a]
             t == mailbox[a]
  <1>1. s \in Seq(Message) /\ t \in Seq(Message)
    BY DEF TypeOK
  <1>2. Log(a) = s \o t
    BY DEF Log
  <1> HIDE DEF s, t
  <1>3. Len(s) \in Nat /\ Len(t) \in Nat
    BY <1>1, LenProperties
  <1>4. /\ s \o t \in Seq(Message)
        /\ Len(s \o t) = Len(s) + Len(t)
        /\ \A k \in 1..Len(s) : (s \o t)[k] = s[k]
    BY <1>1, <1>3, ConcatProperties
  <1>5. Len(s \o t) \in Nat /\ Len(s) <= Len(s \o t)
    BY <1>3, <1>4
  <1> QED
    BY <1>2, <1>3, <1>4, <1>5 DEF s

\* No message is dispatched twice.
LEMMA ServedOnce ==
  ASSUME TypeOK, CallerOrder, NEW a \in Agents,
         NEW i \in 1..Len(served[a]), NEW j \in 1..Len(served[a]), i < j
  PROVE  served[a][i] # served[a][j]
  <1>1. i \in 1..Len(Log(a)) /\ j \in 1..Len(Log(a))
    BY LogFacts
  <1>2. Log(a)[i] \in Message /\ Log(a)[j] \in Message
    BY <1>1, LogFacts, ElementOfSeq
  <1>3. SUFFICES ASSUME served[a][i] = served[a][j] PROVE FALSE
    OBVIOUS
  <1>4. Log(a)[i] = Log(a)[j]
    BY <1>3, LogFacts
  <1>5. Log(a)[i].n < Log(a)[j].n
    BY <1>1, <1>4 DEF CallerOrder
  <1> QED
    BY <1>2, <1>4, <1>5 DEF Message

\* The message an agent runs an arm for is the last one it took.
LEMMA CurrentFacts ==
  ASSUME TypeOK, Running, NEW a \in Agents, loop[a] = "run"
  PROVE  /\ Len(served[a]) \in 1..Len(served[a])
         /\ Current(a) \in Message
  <1>1. served[a] \in Seq(Message) /\ served[a] # <<>>
    BY DEF TypeOK, Running
  <1>2. Len(served[a]) \in Nat \ {0}
    BY <1>1, EmptySeq, LenProperties
  <1> QED
    BY <1>1, <1>2, ElementOfSeq DEF Current

\* The message a caller offers is well formed.
LEMMA OfferTyped ==
  ASSUME TypeOK, NEW c \in Callers, NEW a \in Agents,
         NEW i \in Intents \cup {"Stop"}, NEW next \in {"idle", "await", "join"},
         Offer(c, a, i, next)
  PROVE  /\ TypeOK'
         /\ [from |-> c, n |-> sent[c] + 1, intent |-> i] \in Message
  <1> DEFINE m == [from |-> c, n |-> sent[c] + 1, intent |-> i]
  <1>1. sent[c] + 1 \in 1..MaxSends
    BY IntentsAssumption DEF Offer, TypeOK
  <1>2. m \in Message
    BY <1>1 DEF Message
  <1>3. mailbox' \in [Agents -> Seq(Message)]
    BY <1>2, AppendProperties DEF Offer, TypeOK
  <1>4. sent' \in [Callers -> 0..MaxSends]
    BY <1>1 DEF Offer, TypeOK
  <1>5. waits' \in [Callers -> Agents] /\ pc' \in [Callers -> {"idle", "await", "join"}]
    BY DEF Offer, TypeOK
  <1> QED
    BY <1>2, <1>3, <1>4, <1>5 DEF Offer, TypeOK, agentVars

\* An offer appends one message to the log of its agent.
LEMMA OfferLog ==
  ASSUME TypeOK, NEW c \in Callers, NEW a \in Agents,
         NEW i \in Intents \cup {"Stop"}, NEW next \in {"idle", "await", "join"},
         Offer(c, a, i, next), NEW b \in Agents
  PROVE  Log(b)' = IF b = a
                   THEN Append(Log(a), [from |-> c, n |-> sent[c] + 1, intent |-> i])
                   ELSE Log(b)
  <1>1. served' = served /\ served[a] \in Seq(Message) /\ mailbox[a] \in Seq(Message)
    BY DEF Offer, agentVars, TypeOK
  <1>2. CASE b = a
    <2> DEFINE m == [from |-> c, n |-> sent[c] + 1, intent |-> i]
    <2>1. mailbox'[a] = Append(mailbox[a], m)
      BY DEF Offer, TypeOK
    <2>2. m \in Message
      BY OfferTyped
    <2> DEFINE s == served[a]
               t == mailbox[a]
    <2>3. s \in Seq(Message) /\ t \in Seq(Message)
      BY <1>1
    <2> HIDE DEF m, s, t
    <2>4. s \o Append(t, m) = Append(s \o t, m)
      BY <2>2, <2>3, ConcatAppend
    <2>5. Log(a)' = Append(Log(a), m)
      BY <1>1, <2>1, <2>4 DEF Log, s, t
    <2> QED
      BY <1>2, <2>5 DEF m
  <1>3. CASE b # a
    BY <1>1, <1>3 DEF Log, Offer, TypeOK
  <1> QED
    BY <1>2, <1>3

\* Taking a message moves it within the log.
LEMMA TakeFacts ==
  ASSUME TypeOK, NEW a \in Agents, Take(a)
  PROVE  /\ TypeOK'
         /\ Head(mailbox[a]) \in Message
         /\ \A b \in Agents : Log(b)' = Log(b)
         /\ Len(served'[a]) = Len(served[a]) + 1
         /\ served'[a][Len(served[a]) + 1] = Head(mailbox[a])
         /\ \A k \in 1..Len(served[a]) : served'[a][k] = served[a][k]
         /\ \A b \in Agents \ {a} : served'[b] = served[b]
  <1>1. /\ served[a] \in Seq(Message) /\ mailbox[a] \in Seq(Message) /\ mailbox[a] # <<>>
        /\ served'[a] = Append(served[a], Head(mailbox[a]))
        /\ mailbox'[a] = Tail(mailbox[a])
    BY DEF Take, TypeOK
  <1>2. Head(mailbox[a]) \in Message /\ Tail(mailbox[a]) \in Seq(Message)
    BY <1>1, HeadTailProperties
  <1>3. Append(served[a], Head(mailbox[a])) \in Seq(Message)
    BY <1>1, <1>2, AppendProperties
  <1>4. /\ mailbox' \in [Agents -> Seq(Message)]
        /\ served' \in [Agents -> Seq(Message)]
    BY <1>2, <1>3 DEF Take, TypeOK
  <1>5. todo' \in [Agents -> Seq(Ops)]
    <2>1. Head(mailbox[a]).intent \in Intents \cup {"Stop"}
      BY <1>2 DEF Message
    <2>2. CASE Head(mailbox[a]).intent = "Stop"
      BY <2>2 DEF Take, TypeOK
    <2>3. CASE Head(mailbox[a]).intent # "Stop"
      <3>1. PICK p \in Paths[Head(mailbox[a]).intent] : todo' = [todo EXCEPT ![a] = p]
        BY <2>3 DEF Take
      <3>2. p \in Seq(Ops)
        BY <2>1, <2>3, <3>1, IntentsAssumption
      <3> QED
        BY <3>1, <3>2 DEF TypeOK
    <2> QED
      BY <2>2, <2>3
  <1>6. loop' \in [Agents -> {"new", "take", "run", "stopped", "killed"}]
    BY DEF Take, TypeOK
  <1>7. TypeOK'
    BY <1>4, <1>5, <1>6 DEF Take, TypeOK, callerVars
  <1>8. \A b \in Agents \ {a} : served'[b] = served[b] /\ mailbox'[b] = mailbox[b]
    BY DEF Take, TypeOK
  <1>9. Log(a)' = Log(a)
    BY <1>1, ConcatShift DEF Log
  <1>10. \A b \in Agents : Log(b)' = Log(b)
    BY <1>8, <1>9 DEF Log
  <1> QED
    BY <1>1, <1>2, <1>7, <1>8, <1>10, AppendProperties

(***************************************************************************)
(* The inductive invariant, one lemma per group of actions.                *)
(***************************************************************************)

LEMMA InitInv == Init => IInv
  <1> SUFFICES ASSUME Init PROVE IInv
    OBVIOUS
  <1>1. (CHOOSE a \in Agents : TRUE) \in Agents
    BY AgentsAssumption
  <1>2. 0 \in 0..MaxSends
    BY IntentsAssumption
  <1>3. TypeOK
    <2>1. /\ todo \in [Agents -> Seq(Ops)] /\ mailbox \in [Agents -> Seq(Message)]
          /\ served \in [Agents -> Seq(Message)]
      BY EmptySeq DEF Init
    <2>2. waits \in [Callers -> Agents] /\ sent \in [Callers -> 0..MaxSends]
      BY <1>1, <1>2 DEF Init
    <2>3. /\ loop \in [Agents -> {"new", "take", "run", "stopped", "killed"}]
          /\ state \in [Agents -> SUBSET Message]
          /\ pc \in [Callers -> {"idle", "await", "join"}]
      BY DEF Init
    <2> QED
      BY <2>1, <2>2, <2>3 DEF Init, TypeOK
  <1>4. \A a \in Agents : served[a] = <<>> /\ mailbox[a] = <<>> /\ loop[a] = "new"
    BY DEF Init
  <1>5. \A a \in Agents : Log(a) = <<>> /\ Len(Log(a)) = 0 /\ Len(served[a]) = 0
    BY <1>4, ConcatEmptySeq, EmptySeq DEF Log
  <1>6. Running /\ StateFromServed /\ AnswersAreSerial /\ JoinedHaveEnded
    BY <1>4 DEF Init, Running, StateFromServed, AnswersAreSerial, JoinedHaveEnded
  <1>7. Numbered /\ CallerOrder /\ StopIsLast
    BY <1>4, <1>5 DEF Numbered, CallerOrder, StopIsLast
  <1> QED
    BY <1>3, <1>6, <1>7 DEF IInv

\* Steps that leave the agents and their mailboxes alone.
LEMMA CallerStepInv ==
  ASSUME IInv, TypeOK', UNCHANGED <<agentVars, mailbox, sent>>,
         \A a \in joined' : a \in joined \/ Ended(a)
  PROVE  IInv'
  <1>1. \A a : Log(a)' = Log(a)
    BY DEF Log, agentVars
  <1>2. Running' /\ StateFromServed' /\ AnswersAreSerial' /\ StopIsLast'
    <2>1. Running'
      BY DEF IInv, Running, agentVars, Current
    <2>2. StateFromServed'
      BY DEF IInv, StateFromServed, agentVars
    <2>3. AnswersAreSerial'
      BY DEF IInv, AnswersAreSerial, agentVars
    <2>4. StopIsLast'
      BY DEF IInv, StopIsLast, agentVars, Current
    <2> QED
      BY <2>1, <2>2, <2>3, <2>4
  <1>3. Numbered' /\ CallerOrder'
    BY <1>1 DEF IInv, Numbered, CallerOrder
  <1>4. JoinedHaveEnded'
    BY DEF IInv, JoinedHaveEnded, Ended, agentVars
  <1> QED
    BY <1>2, <1>3, <1>4 DEF IInv

LEMMA OfferInv ==
  ASSUME IInv, NEW c \in Callers, NEW a \in Agents,
         NEW i \in Intents \cup {"Stop"}, NEW next \in {"idle", "await", "join"},
         Offer(c, a, i, next)
  PROVE  IInv'
  <1> DEFINE m == [from |-> c, n |-> sent[c] + 1, intent |-> i]
  <1>0. TypeOK
    BY DEF IInv
  <1>1. TypeOK' /\ m \in Message
    BY <1>0, OfferTyped
  <1>2. \A b \in Agents : Log(b)' = IF b = a THEN Append(Log(a), m) ELSE Log(b)
    BY <1>0, OfferLog
  <1>3. Running' /\ StateFromServed' /\ AnswersAreSerial' /\ StopIsLast' /\ JoinedHaveEnded'
    <2>1. UNCHANGED <<loop, served, state, answered, joined>>
      BY DEF Offer, agentVars
    <2>2. Running' /\ StopIsLast'
      BY <2>1 DEF IInv, Running, StopIsLast, Current
    <2>3. StateFromServed' /\ AnswersAreSerial'
      BY <2>1 DEF IInv, StateFromServed, AnswersAreSerial
    <2> QED
      BY <2>1, <2>2, <2>3 DEF IInv, JoinedHaveEnded, Ended
  <1>4. \A b \in Agents : /\ Log(b) \in Seq(Message) /\ Len(Log(b)) \in Nat
                          /\ \A k \in 1..Len(Log(b)) : Log(b)[k] \in Message
    BY <1>0, LogFacts, ElementOfSeq
  <1>5. /\ Len(Log(a)') = Len(Log(a)) + 1
        /\ Log(a)'[Len(Log(a)) + 1] = m
        /\ \A k \in 1..Len(Log(a)) : Log(a)'[k] = Log(a)[k]
    <2> DEFINE l == Log(a)
    <2>1. l \in Seq(Message)
      BY <1>4
    <2> HIDE DEF l, m
    <2>2. /\ Len(Append(l, m)) = Len(l) + 1
          /\ Append(l, m)[Len(l) + 1] = m
          /\ \A k \in 1..Len(l) : Append(l, m)[k] = l[k]
      BY <1>1, <2>1, AppendProperties
    <2> QED
      BY <1>2, <2>2 DEF l
  <1>6. /\ sent \in [Callers -> Nat] /\ m.from = c /\ m.n = sent[c] + 1
        /\ sent'[c] = sent[c] + 1
        /\ \A d \in Callers : sent'[d] \in Nat /\ sent[d] <= sent'[d]
    BY <1>0, IntentsAssumption DEF TypeOK, Offer
  <1>7. \A k \in Message : k.from \in Callers /\ k.n \in Nat
    BY IntentsAssumption DEF Message
  <1> HIDE DEF m
  <1>8. Numbered'
    <2> SUFFICES ASSUME NEW b \in Agents, NEW k \in 1..Len(Log(b)')
                 PROVE  Log(b)'[k].n <= sent'[Log(b)'[k].from]
      BY DEF Numbered
    <2>1. CASE b # a \/ k \in 1..Len(Log(a))
      <3>1. k \in 1..Len(Log(b)) /\ Log(b)'[k] = Log(b)[k]
        BY <1>2, <1>4, <1>5, <2>1
      <3>2. Log(b)[k].n <= sent[Log(b)[k].from] /\ Log(b)[k] \in Message
        BY <1>4, <3>1 DEF IInv, Numbered
      <3> QED
        BY <1>6, <1>7, <3>1, <3>2
    <2>2. CASE b = a /\ k = Len(Log(a)) + 1
      BY <1>5, <1>6, <2>2
    <2> QED
      BY <1>4, <1>5, <2>1, <2>2
  <1>9. CallerOrder'
    <2> SUFFICES ASSUME NEW b \in Agents,
                        NEW j \in 1..Len(Log(b)'), NEW k \in 1..Len(Log(b)'),
                        j < k, Log(b)'[j].from = Log(b)'[k].from
                 PROVE  Log(b)'[j].n < Log(b)'[k].n
      BY DEF CallerOrder
    <2>1. CASE b # a \/ k \in 1..Len(Log(a))
      <3>1. /\ k \in 1..Len(Log(b)) /\ Log(b)'[k] = Log(b)[k]
            /\ j \in 1..Len(Log(b)) /\ Log(b)'[j] = Log(b)[j]
        BY <1>2, <1>4, <1>5, <2>1
      <3> QED
        BY <3>1 DEF IInv, CallerOrder
    <2>2. CASE b = a /\ k = Len(Log(a)) + 1
      <3>1. j \in 1..Len(Log(a)) /\ Log(a)'[j] = Log(a)[j]
        BY <1>4, <1>5, <2>2
      <3>2. Log(a)[j].n <= sent[c] /\ Log(a)[j] \in Message
        BY <1>4, <1>5, <1>6, <2>2, <3>1 DEF IInv, Numbered
      <3> QED
        BY <1>5, <1>6, <1>7, <2>2, <3>1, <3>2
    <2> QED
      BY <1>4, <1>5, <2>1, <2>2
  <1> QED
    BY <1>1, <1>3, <1>8, <1>9 DEF IInv

LEMMA TakeInv ==
  ASSUME IInv, NEW a \in Agents, Take(a)
  PROVE  IInv'
  <1>0. TypeOK
    BY DEF IInv
  <1> DEFINE L == Len(served[a])
             h == Head(mailbox[a])
  <1>1. /\ TypeOK' /\ h \in Message
        /\ \A b \in Agents : Log(b)' = Log(b)
        /\ Len(served'[a]) = L + 1
        /\ served'[a][L + 1] = h
        /\ \A k \in 1..L : served'[a][k] = served[a][k]
        /\ \A b \in Agents \ {a} : served'[b] = served[b]
    BY <1>0, TakeFacts
  <1>2. \A b \in Agents : Len(served[b]) \in Nat
    BY <1>0, LogFacts
  <1>3. Current(a)' = h
    BY <1>1 DEF Current
  <1>4. /\ \A b \in Agents \ {a} : loop'[b] = loop[b] /\ Current(b)' = Current(b)
        /\ loop[a] = "take"
        /\ \/ h.intent = "Stop" /\ loop'[a] = "stopped"
           \/ h.intent # "Stop" /\ loop'[a] = "run"
    BY <1>0, <1>1 DEF Take, TypeOK, Current
  <1>5. UNCHANGED <<state, answered, joined, sent>>
    BY DEF Take, callerVars
  <1>6. served'[a] # <<>>
    BY <1>1, <1>2
  <1> HIDE DEF L, h
  <1>7. L \in Nat
    BY <1>2 DEF L
  <1>8. Running'
    BY <1>1, <1>3, <1>4, <1>6 DEF IInv, Running
  <1>9. Numbered' /\ CallerOrder'
    BY <1>1, <1>5 DEF IInv, Numbered, CallerOrder
  <1>10. JoinedHaveEnded'
    BY <1>4, <1>5 DEF IInv, JoinedHaveEnded, Ended, TypeOK
  <1>11. \A b \in Agents : \A k \in 1..Len(served[b]) :
           k \in 1..Len(served'[b]) /\ served'[b][k] = served[b][k]
    BY <1>1, <1>2, <1>7 DEF L
  <1>12. StateFromServed'
    BY <1>5, <1>11 DEF IInv, StateFromServed
  <1>13. AnswersAreSerial'
    <2> SUFFICES ASSUME NEW r \in answered
                 PROVE  \E k \in 1..Len(served'[r.agent]) :
                          /\ served'[r.agent][k] = r.msg
                          /\ r.val \ {r.msg} =
                               state[r.agent] \cap {served'[r.agent][j] : j \in 1..(k - 1)}
      BY <1>5 DEF AnswersAreSerial
    <2>1. r.agent \in Agents
      BY <1>0 DEF TypeOK, Answer
    <2>2. PICK k \in 1..Len(served[r.agent]) :
                 /\ served[r.agent][k] = r.msg
                 /\ r.val \ {r.msg} =
                      state[r.agent] \cap {served[r.agent][j] : j \in 1..(k - 1)}
      BY DEF IInv, AnswersAreSerial
    <2>3. \A j \in 1..(k - 1) : served'[r.agent][j] = served[r.agent][j]
      BY <1>2, <1>11, <2>1
    <2>4. {served'[r.agent][j] : j \in 1..(k - 1)} = {served[r.agent][j] : j \in 1..(k - 1)}
      BY <2>3
    <2>5. k \in 1..Len(served'[r.agent]) /\ served'[r.agent][k] = r.msg
      BY <1>11, <2>1, <2>2
    <2> QED
      BY <2>2, <2>4, <2>5
  <1>14. StopIsLast'
    <2> SUFFICES ASSUME NEW b \in Agents
                 PROVE  /\ loop'[b] = "stopped" =>
                             served'[b] # <<>> /\ Current(b)'.intent = "Stop"
                        /\ \A k \in 1..Len(served'[b]) :
                             served'[b][k].intent = "Stop" =>
                               k = Len(served'[b]) /\ loop'[b] = "stopped"
      BY DEF StopIsLast
    <2>1. CASE b # a
      BY <1>1, <1>4, <2>1 DEF IInv, StopIsLast
    <2>2. CASE b = a
      <3>1. \A k \in 1..L : served[a][k].intent # "Stop"
        BY <1>4 DEF IInv, StopIsLast, L
      <3>2. \A k \in 1..L : served'[a][k].intent # "Stop"
        BY <1>1, <3>1
      <3> QED
        BY <1>1, <1>3, <1>4, <1>6, <1>7, <2>2, <3>2
    <2> QED
      BY <2>1, <2>2
  <1> QED
    BY <1>1, <1>8, <1>9, <1>10, <1>12, <1>13, <1>14 DEF IInv

\* Steps that change neither the log of an agent nor what it has dispatched,
\* and leave an ended agent and one that has not stopped as they are.
LEMMA LoopControlInv ==
  ASSUME IInv, TypeOK', NEW a \in Agents,
         UNCHANGED <<mailbox, served, state, answered, sent, joined>>,
         loop' = [loop EXCEPT ![a] = loop'[a]],
         loop[a] \in {"new", "run"}, loop'[a] \in {"take", "killed"}
  PROVE  IInv'
  <1>1. \A b : Log(b)' = Log(b) /\ Current(b)' = Current(b)
    BY DEF Log, Current
  <1>2. /\ \A b \in Agents \ {a} : loop'[b] = loop[b]
        /\ loop[a] # "stopped" /\ ~Ended(a)
    BY DEF IInv, TypeOK, Ended
  <1>3. Running'
    BY <1>1, <1>2 DEF IInv, Running
  <1>4. Numbered' /\ CallerOrder'
    BY <1>1 DEF IInv, Numbered, CallerOrder
  <1>5. StateFromServed'
    BY DEF IInv, StateFromServed
  <1>6. AnswersAreSerial'
    <2>1. served' = served /\ state' = state /\ answered' = answered
      OBVIOUS
    <2> QED
      BY <2>1 DEF IInv, AnswersAreSerial
  <1>7. StopIsLast'
    BY <1>1, <1>2 DEF IInv, StopIsLast
  <1>8. JoinedHaveEnded'
    BY <1>2 DEF IInv, JoinedHaveEnded, Ended, TypeOK
  <1> QED
    BY <1>3, <1>4, <1>5, <1>6, <1>7, <1>8 DEF IInv

LEMMA AssignInv ==
  ASSUME IInv, NEW a \in Agents, Assign(a)
  PROVE  IInv'
  <1>0. TypeOK /\ Running /\ loop[a] = "run"
    BY DEF IInv, Assign, At
  <1>1. Current(a) \in Message /\ Len(served[a]) \in 1..Len(served[a])
    BY <1>0, CurrentFacts
  <1>2. /\ UNCHANGED <<loop, mailbox, served, answered, callerVars>>
        /\ state' \in [Agents -> SUBSET Message]
        /\ \A b \in Agents : state'[b] = IF b = a THEN state[a] \cup {Current(a)}
                                          ELSE state[b]
    BY <1>0, <1>1 DEF Assign, TypeOK
  <1>3. todo' \in [Agents -> Seq(Ops)]
    <2>1. Tail(todo[a]) \in Seq(Ops)
      BY <1>0, HeadTailProperties DEF Assign, At, TypeOK
    <2> QED
      BY <1>0, <2>1 DEF Assign, TypeOK
  <1>4. TypeOK'
    BY <1>0, <1>2, <1>3 DEF TypeOK, callerVars
  <1>5. \A b : Log(b)' = Log(b) /\ Current(b)' = Current(b)
    BY <1>2 DEF Log, Current
  <1>6. Running' /\ StopIsLast' /\ JoinedHaveEnded'
    BY <1>2, <1>5 DEF IInv, Running, StopIsLast, JoinedHaveEnded, Ended, callerVars
  <1>7. Numbered' /\ CallerOrder'
    BY <1>2, <1>5 DEF IInv, Numbered, CallerOrder, callerVars
  <1>8. StateFromServed'
    <2>1. served[a][Len(served[a])] = Current(a)
      BY DEF Current
    <2> QED
      BY <1>1, <1>2, <2>1 DEF IInv, StateFromServed
  <1>9. AnswersAreSerial'
    <2> SUFFICES ASSUME NEW r \in answered
                 PROVE  \E k \in 1..Len(served[r.agent]) :
                          /\ served[r.agent][k] = r.msg
                          /\ r.val \ {r.msg} =
                               state'[r.agent] \cap {served[r.agent][j] : j \in 1..(k - 1)}
      <3>1. served' = served /\ answered' = answered
        BY <1>2
      <3> QED
        BY <3>1 DEF AnswersAreSerial
    <2>1. r.agent \in Agents
      BY <1>0 DEF TypeOK, Answer
    <2>2. PICK k \in 1..Len(served[r.agent]) :
                 /\ served[r.agent][k] = r.msg
                 /\ r.val \ {r.msg} =
                      state[r.agent] \cap {served[r.agent][j] : j \in 1..(k - 1)}
      BY DEF IInv, AnswersAreSerial
    <2>3. CASE r.agent # a
      BY <1>2, <2>1, <2>2, <2>3
    <2>4. CASE r.agent = a
      <3>1. ASSUME NEW j \in 1..(k - 1) PROVE served[a][j] # Current(a)
        <4>1. j \in 1..Len(served[a]) /\ j < Len(served[a])
          BY <1>1, <2>2, <2>4, LogFacts, <1>0
        <4> QED
          BY <1>0, <1>1, <4>1, ServedOnce DEF Current, IInv
      <3>2. (state[a] \cup {Current(a)}) \cap {served[a][j] : j \in 1..(k - 1)}
            = state[a] \cap {served[a][j] : j \in 1..(k - 1)}
        BY <3>1
      <3> QED
        BY <1>2, <2>2, <2>4, <3>2
    <2> QED
      BY <2>3, <2>4
  <1> QED
    BY <1>4, <1>6, <1>7, <1>8, <1>9 DEF IInv

LEMMA CompleteInv ==
  ASSUME IInv, NEW a \in Agents, Complete(a)
  PROVE  IInv'
  <1>0. TypeOK /\ Running /\ loop[a] = "run"
    BY DEF IInv, Complete, At
  <1>1. Current(a) \in Message /\ Len(served[a]) \in 1..Len(served[a])
    BY <1>0, CurrentFacts
  <1> DEFINE new == [agent |-> a, msg |-> Current(a), val |-> state[a]]
  <1>2. /\ UNCHANGED <<loop, mailbox, served, state, callerVars>>
        /\ answered' \subseteq answered \cup {new}
    BY DEF Complete
  <1>3. todo' \in [Agents -> Seq(Ops)]
    <2>1. Tail(todo[a]) \in Seq(Ops)
      BY <1>0, HeadTailProperties DEF Complete, At, TypeOK
    <2> QED
      BY <1>0, <2>1 DEF Complete, TypeOK
  <1>4. TypeOK'
    <2>1. new \in Answer
      BY <1>0, <1>1 DEF TypeOK, Answer
    <2>2. answered' \subseteq Answer
      BY <1>0, <1>2, <2>1 DEF TypeOK
    <2> QED
      BY <1>0, <1>2, <1>3, <2>2 DEF TypeOK, callerVars
  <1>5. \A b : Log(b)' = Log(b) /\ Current(b)' = Current(b)
    BY <1>2 DEF Log, Current
  <1>6. Running' /\ StopIsLast' /\ JoinedHaveEnded'
    BY <1>2, <1>5 DEF IInv, Running, StopIsLast, JoinedHaveEnded, Ended, callerVars
  <1>7. Numbered' /\ CallerOrder'
    BY <1>2, <1>5 DEF IInv, Numbered, CallerOrder, callerVars
  <1>8. StateFromServed'
    BY <1>2 DEF IInv, StateFromServed
  <1>9. AnswersAreSerial'
    <2> SUFFICES ASSUME NEW r \in answered'
                 PROVE  \E k \in 1..Len(served[r.agent]) :
                          /\ served[r.agent][k] = r.msg
                          /\ r.val \ {r.msg} =
                               state[r.agent] \cap {served[r.agent][j] : j \in 1..(k - 1)}
      <3>1. served' = served /\ state' = state
        BY <1>2
      <3> QED
        BY <3>1 DEF AnswersAreSerial
    <2>1. CASE r \in answered
      BY <2>1 DEF IInv, AnswersAreSerial
    <2>2. CASE r = new
      <3> DEFINE L == Len(served[a])
      <3>1. L \in 1..L /\ L \in Nat /\ served[a][L] = Current(a)
        BY <1>0, <1>1, LogFacts DEF Current
      <3>2. \A j \in 1..(L - 1) : served[a][j] # Current(a)
        BY <1>0, <3>1, ServedOnce DEF IInv
      <3>3. \A m \in state[a] \ {Current(a)} : \E j \in 1..(L - 1) : served[a][j] = m
        <4> SUFFICES ASSUME NEW m \in state[a] \ {Current(a)}
                     PROVE  \E j \in 1..(L - 1) : served[a][j] = m
          OBVIOUS
        <4>1. PICK j \in 1..L : served[a][j] = m
          BY DEF IInv, StateFromServed
        <4>2. j # L
          BY <3>1, <4>1
        <4> QED
          BY <3>1, <4>1, <4>2
      <3> HIDE DEF L
      <3>4. state[a] \ {Current(a)} =
              state[a] \cap {served[a][j] : j \in 1..(L - 1)}
        BY <3>2, <3>3
      <3>5. r.agent = a /\ r.msg = Current(a) /\ r.val = state[a]
        BY <2>2
      <3> QED
        BY <3>1, <3>4, <3>5 DEF L
    <2> QED
      BY <1>2, <2>1, <2>2
  <1> QED
    BY <1>4, <1>6, <1>7, <1>8, <1>9 DEF IInv

LEMMA StepInv == IInv /\ [Next]_vars => IInv'
  <1> SUFFICES ASSUME IInv, [Next]_vars PROVE IInv'
    OBVIOUS
  <1>0. TypeOK
    BY DEF IInv
  <1>1. ASSUME NEW c \in Callers, NEW a \in Agents, Start(c, a) PROVE IInv'
    <2>1. TypeOK'
      BY <1>0, <1>1 DEF Start, TypeOK, callerVars
    <2>2. loop'[a] = "take" /\ loop[a] = "new"
      BY <1>0, <1>1 DEF Start, TypeOK
    <2>3. loop' = [loop EXCEPT ![a] = loop'[a]]
      BY <1>1, <2>2 DEF Start
    <2> QED
      BY <1>1, <2>1, <2>2, <2>3, LoopControlInv DEF Start, callerVars
  <1>2. ASSUME NEW c \in Callers, NEW a \in Agents, NEW i \in Intents,
               Tell(c, a, i) \/ Ask(c, a, i)
        PROVE  IInv'
    BY <1>2, OfferInv DEF Tell, Ask
  <1>3. ASSUME NEW c \in Callers, NEW a \in Agents, Stop(c, a) PROVE IInv'
    BY <1>3, OfferInv DEF Stop
  <1>4. ASSUME NEW c \in Callers, Resume(c) PROVE IInv'
    <2>1. TypeOK'
      BY <1>0, <1>4 DEF Resume, Reply, AwaitInterrupted, JoinReturns, JoinInterrupted,
                        TypeOK, agentVars
    <2>2. \A a \in joined' : a \in joined \/ Ended(a)
      BY <1>4 DEF Resume, Reply, AwaitInterrupted, JoinReturns, JoinInterrupted
    <2>3. UNCHANGED <<agentVars, mailbox, sent>>
      BY <1>4 DEF Resume, Reply, AwaitInterrupted, JoinReturns, JoinInterrupted
    <2> QED
      BY <2>1, <2>2, <2>3, CallerStepInv
  <1>5. ASSUME NEW c \in Callers, Interrupt(c) PROVE IInv'
    <2>1. TypeOK'
      BY <1>0, <1>5 DEF Interrupt, TypeOK, agentVars
    <2> QED
      BY <1>5, <2>1, CallerStepInv DEF Interrupt
  <1>6. ASSUME NEW a \in Agents, LeaveLoop(a) \/ EndArm(a) PROVE IInv'
    <2>1. TypeOK'
      <3>1. <<>> \in Seq(Ops)
        BY EmptySeq
      <3>2. /\ loop' \in [Agents -> {"new", "take", "run", "stopped", "killed"}]
            /\ todo' \in [Agents -> Seq(Ops)]
        <4>1. CASE LeaveLoop(a)
          BY <1>0, <3>1, <4>1 DEF LeaveLoop, TypeOK
        <4>2. CASE EndArm(a)
          BY <1>0, <4>2 DEF EndArm, TypeOK
        <4> QED
          BY <1>6, <4>1, <4>2
      <3> QED
        BY <1>0, <1>6, <3>2 DEF LeaveLoop, EndArm, TypeOK, callerVars
    <2>2. loop'[a] \in {"take", "killed"} /\ loop[a] = "run"
      BY <1>0, <1>6 DEF LeaveLoop, EndArm, At, TypeOK
    <2>3. loop' = [loop EXCEPT ![a] = loop'[a]]
      BY <1>0, <1>6 DEF LeaveLoop, EndArm, TypeOK
    <2>4. UNCHANGED <<mailbox, served, state, answered, sent, joined>>
      BY <1>6 DEF LeaveLoop, EndArm, callerVars
    <2> QED
      BY <2>1, <2>2, <2>3, <2>4, LoopControlInv
  <1>7. CASE UNCHANGED vars
    <2>1. TypeOK' /\ UNCHANGED <<agentVars, mailbox, sent, joined>>
      BY <1>0, <1>7 DEF TypeOK, vars, agentVars
    <2> QED
      BY <2>1, CallerStepInv
  <1> QED
    BY <1>1, <1>2, <1>3, <1>4, <1>5, <1>6, <1>7, TakeInv, AssignInv, CompleteInv
       DEF Next, LoopStep

(***************************************************************************)
(* Theorems.                                                               *)
(***************************************************************************)

\* Every variable keeps its type.
THEOREM TypeCorrect == Spec => []TypeOK
  <1>1. IInv => TypeOK
    BY DEF IInv
  <1> QED
    BY <1>1, InitInv, StepInv, PTL DEF Spec

\* The inductive invariant itself holds throughout.
THEOREM Invariant == Spec => []IInv
  BY InitInv, StepInv, PTL DEF Spec

\* A reply shows exactly the updates dispatched before its own request.
THEOREM SerialAnswers == Spec => []AnswersAreSerial
  <1>1. IInv => AnswersAreSerial
    BY DEF IInv
  <1> QED
    BY <1>1, InitInv, StepInv, PTL DEF Spec

\* The messages of one caller reach an agent once and in the order of its calls.
THEOREM CallersInOrder == Spec => []CallerOrder
  <1>1. IInv => CallerOrder
    BY DEF IInv
  <1> QED
    BY <1>1, InitInv, StepInv, PTL DEF Spec

\* An agent dispatches nothing offered after the first Stop.
THEOREM StopEndsService == Spec => []StopIsLast
  <1>1. IInv => StopIsLast
    BY DEF IInv
  <1> QED
    BY <1>1, InitInv, StepInv, PTL DEF Spec

\* After stop() has returned normally the agent neither changes its state nor
\* answers.
THEOREM StoppedIsQuiet == Spec => QuietAfterStop
  <1> DEFINE Quiet == \A a \in joined :
                        /\ state'[a] = state[a]
                        /\ served'[a] = served[a]
                        /\ \A r \in answered' \ answered : r.agent # a
  <1>1. IInv /\ [Next]_vars => [Quiet]_vars
    <2> SUFFICES ASSUME IInv, Next, NEW a \in joined
                 PROVE  /\ state'[a] = state[a]
                        /\ served'[a] = served[a]
                        /\ \A r \in answered' \ answered : r.agent # a
      OBVIOUS
    <2>1. TypeOK /\ a \in Agents /\ Ended(a)
      BY DEF IInv, TypeOK, JoinedHaveEnded
    <2>2. ASSUME NEW b \in Agents, LoopStep(b)
          PROVE  /\ b # a
                 /\ \A d \in Agents \ {b} : state'[d] = state[d] /\ served'[d] = served[d]
                 /\ \A r \in answered' \ answered : r.agent = b
      <3> USE <2>1 DEF At, Ended, TypeOK
      <3>1. CASE Take(b)
        BY <3>1 DEF Take
      <3>2. CASE Assign(b)
        BY <3>2 DEF Assign
      <3>3. CASE Complete(b)
        BY <3>3 DEF Complete
      <3>4. CASE LeaveLoop(b) \/ EndArm(b)
        BY <3>4 DEF LeaveLoop, EndArm
      <3> QED
        BY <2>2, <3>1, <3>2, <3>3, <3>4 DEF LoopStep
    <2>3. CASE \E b \in Agents : LoopStep(b)
      BY <2>1, <2>2, <2>3
    <2>4. CASE UNCHANGED agentVars
      BY <2>4 DEF agentVars
    <2>5. CASE UNCHANGED <<state, served, answered>>
      BY <2>5
    <2>6. ASSUME NEW c \in Callers PROVE Resume(c) \/ Interrupt(c) => UNCHANGED agentVars
      BY DEF Resume, Reply, AwaitInterrupted, JoinReturns, JoinInterrupted, Interrupt
    <2>7. ASSUME NEW c \in Callers, NEW b \in Agents,
                 Start(c, b) \/ Stop(c, b) \/ \E i \in Intents : Tell(c, b, i) \/ Ask(c, b, i)
          PROVE  UNCHANGED <<state, served, answered>>
      BY <2>7 DEF Start, Tell, Ask, Stop, Offer, agentVars
    <2> QED
      BY <2>3, <2>4, <2>5, <2>6, <2>7 DEF Next
  <1> QED
    BY <1>1, InitInv, StepInv, PTL DEF Spec, QuietAfterStop

(***************************************************************************)
(* The actor implements the abstract service.                              *)
(***************************************************************************)

\* Nothing changes for the service unless the log, the dispatch or the answers do.
LEMMA ServiceStutter ==
  ASSUME UNCHANGED <<mailbox, served, answered>>,
         \A a \in Agents : (loop'[a] = "run" <=> loop[a] = "run") /\ (Ended(a)' <=> Ended(a))
  PROVE  UNCHANGED Service!vars
  <1>1. \A a : Log(a)' = Log(a)
    BY DEF Log
  <1>2. acceptedBar' = acceptedBar /\ positionBar' = positionBar
    BY <1>1 DEF acceptedBar, positionBar
  <1>3. busyBar' = busyBar /\ haltedBar' = haltedBar /\ repliesBar' = repliesBar
    BY DEF busyBar, haltedBar, repliesBar
  <1> QED
    BY <1>2, <1>3 DEF Service!vars

LEMMA OfferAccepts ==
  ASSUME TypeOK, NEW c \in Callers, NEW a \in Agents,
         NEW i \in Intents \cup {"Stop"}, NEW next \in {"idle", "await", "join"},
         Offer(c, a, i, next)
  PROVE  Service!Accept(a)
  <1> DEFINE m == [from |-> c, n |-> sent[c] + 1, intent |-> i]
  <1>1. m \in Message
    BY OfferTyped
  <1>2. \A b \in Agents : Log(b)' = IF b = a THEN Append(Log(a), m) ELSE Log(b)
    BY OfferLog
  <1> HIDE DEF m
  <1>3. acceptedBar' = [acceptedBar EXCEPT ![a] = Append(@, m)]
    BY <1>2 DEF acceptedBar
  <1>4. UNCHANGED <<positionBar, busyBar, haltedBar, repliesBar>>
    BY DEF Offer, agentVars, positionBar, busyBar, haltedBar, repliesBar, Ended
  <1> QED
    BY <1>1, <1>3, <1>4 DEF Service!Accept

LEMMA TakeServes ==
  ASSUME IInv, NEW a \in Agents, Take(a)
  PROVE  Service!Serve(a)
  <1>0. TypeOK
    BY DEF IInv
  <1>1. /\ \A b \in Agents : Log(b)' = Log(b)
        /\ Len(served'[a]) = Len(served[a]) + 1
        /\ \A b \in Agents \ {a} : served'[b] = served[b]
    BY <1>0, TakeFacts
  <1>2. /\ \A b \in Agents \ {a} : loop'[b] = loop[b]
        /\ loop[a] = "take" /\ loop'[a] \in {"stopped", "run"}
    BY <1>0 DEF Take, TypeOK
  <1>3. acceptedBar' = acceptedBar /\ repliesBar' = repliesBar
    BY <1>1 DEF Take, acceptedBar, repliesBar
  <1>4. positionBar' = [positionBar EXCEPT ![a] = @ + 1]
    BY <1>1 DEF positionBar
  <1>5. a \notin busyBar \cup haltedBar
    BY <1>2 DEF busyBar, haltedBar, Ended
  <1>6. \/ busyBar' = busyBar \cup {a} /\ haltedBar' = haltedBar
        \/ haltedBar' = haltedBar \cup {a} /\ busyBar' = busyBar
    BY <1>2 DEF busyBar, haltedBar, Ended
  <1>7. positionBar[a] < Len(acceptedBar[a])
    <2> DEFINE s == served[a]
               t == mailbox[a]
    <2>1. s \in Seq(Message) /\ t \in Seq(Message) /\ t # <<>>
      BY <1>0 DEF TypeOK, Take
    <2>2. acceptedBar[a] = s \o t /\ positionBar[a] = Len(s)
      BY DEF acceptedBar, positionBar, Log
    <2> HIDE DEF s, t
    <2>3. Len(s \o t) = Len(s) + Len(t) /\ Len(s) \in Nat /\ Len(t) \in Nat \ {0}
      BY <2>1, ConcatProperties, LenProperties, EmptySeq
    <2> QED
      BY <2>2, <2>3
  <1> QED
    BY <1>3, <1>4, <1>5, <1>6, <1>7 DEF Service!Serve

LEMMA CompleteAnswers ==
  ASSUME IInv, NEW a \in Agents, Complete(a)
  PROVE  Service!Answer(a) \/ UNCHANGED Service!vars
  <1>1. TypeOK /\ Running /\ loop[a] = "run"
    BY DEF IInv, Complete, At
  <1>2. UNCHANGED <<loop, mailbox, served>>
    BY DEF Complete
  <1>3. CASE IsAnswered(Current(a))
    <2>1. answered' = answered
      BY <1>3 DEF Complete
    <2> QED
      BY <1>2, <2>1, ServiceStutter DEF Ended
  <1>4. CASE ~IsAnswered(Current(a))
    <2>1. answered' = answered \cup {[agent |-> a, msg |-> Current(a), val |-> state[a]]}
      BY <1>4 DEF Complete
    <2>2. \A b : Log(b)' = Log(b)
      BY <1>2 DEF Log
    <2>3. UNCHANGED <<acceptedBar, positionBar, busyBar, haltedBar>>
      BY <1>2, <2>2 DEF acceptedBar, positionBar, busyBar, haltedBar, Ended
    <2>4. repliesBar' = repliesBar \cup {[agent |-> a, msg |-> Current(a)]}
      <3> DEFINE new == [agent |-> a, msg |-> Current(a), val |-> state[a]]
      <3>1. new.agent = a /\ new.msg = Current(a) /\ answered' = answered \cup {new}
        BY <2>1
      <3> HIDE DEF new
      <3> QED
        BY <3>1 DEF repliesBar
    <2>5. Service!Serving(a) = Current(a)
      <3>1. acceptedBar[a] = Log(a) /\ positionBar[a] = Len(served[a])
        BY DEF acceptedBar, positionBar
      <3>2. Log(a)[Len(served[a])] = served[a][Len(served[a])]
        BY <1>1, LogFacts, CurrentFacts
      <3> QED
        BY <3>1, <3>2 DEF Service!Serving, Current
    <2>6. \A r \in repliesBar : r.msg # Current(a)
      BY <1>4 DEF repliesBar, IsAnswered
    <2>7. a \in busyBar
      BY <1>1 DEF busyBar
    <2> QED
      BY <2>3, <2>4, <2>5, <2>6, <2>7 DEF Service!Answer
  <1> QED
    BY <1>3, <1>4

LEMMA EndFinishes ==
  ASSUME IInv, NEW a \in Agents, LeaveLoop(a) \/ EndArm(a)
  PROVE  Service!Finish(a)
  <1>1. TypeOK /\ loop[a] = "run" /\ loop'[a] \in {"take", "killed"}
    BY DEF IInv, TypeOK, LeaveLoop, EndArm, At
  <1>2. /\ \A b \in Agents \ {a} : loop'[b] = loop[b]
        /\ UNCHANGED <<mailbox, served, answered>>
    BY <1>1 DEF TypeOK, LeaveLoop, EndArm
  <1>3. \A b : Log(b)' = Log(b)
    BY <1>2 DEF Log
  <1>4. UNCHANGED <<acceptedBar, positionBar, repliesBar>>
    BY <1>2, <1>3 DEF acceptedBar, positionBar, repliesBar
  <1>5. a \in busyBar /\ busyBar' = busyBar \ {a}
    BY <1>1, <1>2 DEF busyBar
  <1>6. haltedBar' \in {haltedBar, haltedBar \cup {a}}
    BY <1>1, <1>2 DEF haltedBar, Ended
  <1> QED
    BY <1>4, <1>5, <1>6 DEF Service!Finish

LEMMA ServiceStep == IInv /\ [Next]_vars => [Service!Next]_(Service!vars)
  <1> SUFFICES ASSUME IInv, [Next]_vars
               PROVE  Service!Next \/ UNCHANGED Service!vars
    OBVIOUS
  <1>0. TypeOK
    BY DEF IInv
  <1>1. ASSUME NEW c \in Callers, NEW a \in Agents, Start(c, a)
        PROVE  UNCHANGED Service!vars
    BY <1>0, <1>1, ServiceStutter DEF Start, TypeOK, Ended
  <1>2. ASSUME NEW c \in Callers, NEW a \in Agents, NEW i \in Intents,
               Tell(c, a, i) \/ Ask(c, a, i)
        PROVE  Service!Next
    BY <1>0, <1>2, OfferAccepts DEF Tell, Ask, Service!Next
  <1>7. ASSUME NEW c \in Callers, NEW a \in Agents, Stop(c, a)
        PROVE  Service!Next
    BY <1>0, <1>7, OfferAccepts DEF Stop, Service!Next
  <1>3. ASSUME NEW c \in Callers, Resume(c) \/ Interrupt(c)
        PROVE  UNCHANGED Service!vars
    BY <1>3, ServiceStutter
       DEF Resume, Reply, AwaitInterrupted, JoinReturns, JoinInterrupted,
           Interrupt, agentVars, Ended
  <1>4. ASSUME NEW a \in Agents, Assign(a) PROVE UNCHANGED Service!vars
    BY <1>4, ServiceStutter DEF Assign, Ended
  <1>5. ASSUME NEW a \in Agents, LoopStep(a)
        PROVE  Service!Next \/ UNCHANGED Service!vars
    BY <1>4, <1>5, TakeServes, CompleteAnswers, EndFinishes DEF LoopStep, Service!Next
  <1>6. CASE UNCHANGED vars
    BY <1>6, ServiceStutter DEF vars, Ended
  <1> QED
    BY <1>1, <1>2, <1>3, <1>5, <1>6, <1>7 DEF Next

LEMMA ServiceInit == Init => Service!Init
  <1> SUFFICES ASSUME Init PROVE Service!Init
    OBVIOUS
  <1>1. \A a \in Agents : /\ served[a] = <<>> /\ mailbox[a] = <<>>
                          /\ loop[a] = "new"
    BY DEF Init
  <1>2. \A a \in Agents : Log(a) = <<>> /\ Len(served[a]) = 0
    BY <1>1, ConcatEmptySeq, EmptySeq DEF Log
  <1> QED
    BY <1>1, <1>2 DEF Init, Service!Init, acceptedBar, positionBar, busyBar,
                      haltedBar, repliesBar, Ended

\* The generated actor class implements a service that serves one request at a
\* time in acceptance order and answers each at most once.
THEOREM AgentImplementsService == Spec => ImplementsService
  <1> QED
    BY InitInv, StepInv, ServiceInit, ServiceStep, PTL
       DEF Spec, ImplementsService, Service!Spec
=============================================================================
