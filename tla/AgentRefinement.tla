-------------------------- MODULE AgentRefinement --------------------------
(* The actor class seen as the service its handles stand for. *)
EXTENDS Agent

acceptedBar == [a \in Agents |-> Log(a)]
positionBar == [a \in Agents |-> Len(served[a])]
busyBar == {a \in Agents : loop[a] = "run"}
haltedBar == {a \in Agents : Ended(a)}
repliesBar == {[agent |-> r.agent, msg |-> r.msg] : r \in answered}

Service == INSTANCE AgentService WITH
  Requests <- Message, accepted <- acceptedBar, position <- positionBar,
  busy <- busyBar, halted <- haltedBar, replies <- repliesBar

\* An agent serves its requests one at a time, in the order in which its shared
\* mailbox accepted them, and answers a request at most once, while serving it.
ImplementsService == Service!Spec
=============================================================================
