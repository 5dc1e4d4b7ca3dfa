---------------------------- MODULE AgentService ----------------------------
(***************************************************************************)
(* What an agent promises to the holders of its handle: requests are        *)
(* accepted at any time, served one at a time in the order they were        *)
(* accepted, and answered at most once, while they are served.  Once halted *)
(* an agent serves and answers nothing.                                     *)
(***************************************************************************)
EXTENDS Integers, Sequences

CONSTANTS Agents, Requests

VARIABLES
  accepted,  \* requests accepted by each agent, oldest first
  position,  \* how many of them the agent has started to serve
  busy,      \* the agents serving the request at their position
  halted,    \* the agents that have ended
  replies    \* the requests answered, with the agent that answered

vars == <<accepted, position, busy, halted, replies>>

Init ==
  /\ accepted = [a \in Agents |-> <<>>]
  /\ position = [a \in Agents |-> 0]
  /\ busy = {}
  /\ halted = {}
  /\ replies = {}

Accept(a) ==
  /\ \E m \in Requests : accepted' = [accepted EXCEPT ![a] = Append(@, m)]
  /\ UNCHANGED <<position, busy, halted, replies>>

Serving(a) == accepted[a][position[a]]

\* Take up the next request, or halt on it.
Serve(a) ==
  /\ a \notin busy \cup halted
  /\ position[a] < Len(accepted[a])
  /\ position' = [position EXCEPT ![a] = @ + 1]
  /\ \/ busy' = busy \cup {a} /\ UNCHANGED halted
     \/ halted' = halted \cup {a} /\ UNCHANGED busy
  /\ UNCHANGED <<accepted, replies>>

Answer(a) ==
  /\ a \in busy
  /\ \A r \in replies : r.msg # Serving(a)
  /\ replies' = replies \cup {[agent |-> a, msg |-> Serving(a)]}
  /\ UNCHANGED <<accepted, position, busy, halted>>

Finish(a) ==
  /\ a \in busy
  /\ busy' = busy \ {a}
  /\ halted' \in {halted, halted \cup {a}}
  /\ UNCHANGED <<accepted, position, replies>>

Next == \E a \in Agents : Accept(a) \/ Serve(a) \/ Answer(a) \/ Finish(a)

Spec == Init /\ [][Next]_vars
=============================================================================
