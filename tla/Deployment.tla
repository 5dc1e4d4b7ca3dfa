----------------------------- MODULE Deployment -----------------------------
(***************************************************************************)
(* Publishing to the Central Portal (publish/central.go): Upload posts the   *)
(* bundle and returns a deployment id, PollUntilPublished asks for its state *)
(* until a verdict or a deadline.  The portal and the network are external:  *)
(* a response may be lost or late, a request may be refused, and the portal  *)
(* moves a deployment on in its own time.  Time is counted in ticks; a       *)
(* response that arrives does so within Slow ticks, a sleep takes Interval   *)
(* ticks exactly, and the steps between them take none.                      *)
(***************************************************************************)
EXTENDS Integers, FiniteSets

CONSTANTS
  Timeout, Interval,  \* PollTimeout and PollInterval
  Slow,               \* ticks within which a response arrives
  MaxUploads,         \* bound: uploads the caller makes
  MaxClock            \* bound: ticks modelled

ASSUME TimesAssumption ==
  /\ Timeout \in Nat \ {0} /\ Interval \in Nat \ {0} /\ Slow \in Nat
  /\ MaxUploads \in Nat /\ MaxClock \in Nat

Ids == 1..MaxUploads
DryRunId == 0                       \* "dry-run-deployment-id"
Verdicts == {"PUBLISHED", "FAILED"}
States == {"PENDING", "VALIDATED"} \cup Verdicts
Unknown == "none"                   \* no such deployment

VARIABLES
  clock,
  portal,    \* the state of each deployment at the portal
  settled,   \* history: when each deployment got its verdict
  uploads,   \* uploads made
  id,        \* the id the caller polls with, -1 before Upload returned one
  pc,        \* "caller", "post", "test", "ask", "answered", "sleep", "ended"
  since,     \* when the pending request or sleep began
  deadline,
  reply,     \* the state the portal read for the pending request
  result,    \* what PollUntilPublished returned
  endedAt    \* history: when it returned

deploymentVars == <<clock, portal, settled, uploads, id, pc, since, deadline, reply,
          result, endedAt>>

DeploymentInit ==
  /\ clock = 0
  /\ portal = [i \in Ids |-> Unknown]
  /\ settled = [i \in Ids |-> -1]
  /\ uploads = 0
  /\ id = -1
  /\ pc = "caller"
  /\ since = 0
  /\ deadline = 0
  /\ reply = Unknown
  /\ result = "none"
  /\ endedAt = 0

\* Time passes while a request is answered, a sleep lasts or the caller waits.
Waiting ==
  \/ pc = "caller" \/ pc = "ended"
  \/ pc \in {"post", "ask", "answered"} /\ clock < since + Slow
  \/ pc = "sleep" /\ clock < since + Interval

Tick ==
  /\ Waiting /\ clock < MaxClock
  /\ clock' = clock + 1
  /\ UNCHANGED <<portal, settled, uploads, id, pc, since, deadline, reply,
                 result, endedAt>>

\* The portal validates and publishes, or gives up.
PortalMoves(i) ==
  /\ portal[i] \in {"PENDING", "VALIDATED"}
  /\ portal' = [portal EXCEPT ![i] =
                  IF @ = "PENDING" THEN "VALIDATED" ELSE "PUBLISHED"]
  /\ settled' = [settled EXCEPT ![i] = IF portal[i] = "VALIDATED" THEN clock ELSE @]
  /\ UNCHANGED <<clock, uploads, id, pc, since, deadline, reply, result, endedAt>>

PortalRejects(i) ==
  /\ portal[i] \in {"PENDING", "VALIDATED"}
  /\ portal' = [portal EXCEPT ![i] = "FAILED"]
  /\ settled' = [settled EXCEPT ![i] = clock]
  /\ UNCHANGED <<clock, uploads, id, pc, since, deadline, reply, result, endedAt>>

(***************************************************************************)
(* Upload.  A caller whose upload failed may upload again.                  *)
(***************************************************************************)
UploadDry ==
  /\ pc = "caller" /\ id = -1
  /\ id' = DryRunId
  /\ UNCHANGED <<clock, portal, settled, uploads, pc, since, deadline, reply,
                 result, endedAt>>

Upload ==
  /\ pc = "caller" /\ id = -1 /\ uploads < MaxUploads
  /\ uploads' = uploads + 1
  /\ pc' = "post" /\ since' = clock
  /\ UNCHANGED <<clock, portal, settled, id, deadline, reply, result, endedAt>>

\* The portal takes the bundle; its answer with the id may be lost.
Accepted ==
  /\ pc = "post"
  /\ portal' = [portal EXCEPT ![uploads] = "PENDING"]
  /\ pc' = "caller"
  /\ id' \in {uploads, -1}
  /\ UNCHANGED <<clock, settled, uploads, since, deadline, reply, result, endedAt>>

\* Not sent, refused, or answered without an id.
UploadFails ==
  /\ pc = "post"
  /\ pc' = "caller"
  /\ UNCHANGED <<clock, portal, settled, uploads, id, since, deadline, reply,
                 result, endedAt>>

(***************************************************************************)
(* PollUntilPublished.                                                      *)
(***************************************************************************)
Poll ==
  /\ pc = "caller" /\ id # -1
  /\ clock + Timeout + Slow + Interval <= MaxClock  \* bound
  /\ deadline' = clock + Timeout
  /\ pc' = "test"
  /\ UNCHANGED <<clock, portal, settled, uploads, id, since, reply, result, endedAt>>

Return(outcome) ==
  /\ result' = outcome
  /\ endedAt' = clock
  /\ pc' = "ended"

\* for time.Now().Before(deadline): send a status request.
Ask ==
  /\ pc = "test" /\ clock < deadline
  /\ pc' = "ask" /\ since' = clock
  /\ UNCHANGED <<clock, portal, settled, uploads, id, deadline, reply, result, endedAt>>

\* Wrong on purpose: the loop gives up when one more sleep would reach the deadline.
TimesOutEarly ==
  /\ pc = "test" /\ clock + Interval >= deadline
  /\ Return("timeout")
  /\ UNCHANGED <<clock, portal, settled, uploads, id, since, deadline, reply>>

TimesOut ==
  /\ pc = "test" /\ clock >= deadline
  /\ Return("timeout")
  /\ UNCHANGED <<clock, portal, settled, uploads, id, since, deadline, reply>>

PortalReads ==
  /\ pc = "ask" /\ id \in Ids
  /\ reply' = portal[id]
  /\ pc' = "answered"
  /\ UNCHANGED <<clock, portal, settled, uploads, id, since, deadline, result, endedAt>>

\* One failed request, or an id the portal does not know, ends the poll.
RequestFails ==
  /\ pc \in {"ask", "answered"}
  /\ Return("error")
  /\ UNCHANGED <<clock, portal, settled, uploads, id, since, deadline, reply>>

\* Wrong on purpose: a validated deployment is taken for a published one.
TakesValidated ==
  /\ pc = "answered" /\ reply # "PENDING"
  /\ Return(IF reply = "FAILED" THEN "FAILED" ELSE "PUBLISHED")
  /\ UNCHANGED <<clock, portal, settled, uploads, id, since, deadline, reply>>

\* PUBLISHED or FAILED ends the poll with that verdict.
Verdict ==
  /\ pc = "answered" /\ reply \in Verdicts
  /\ Return(reply)
  /\ UNCHANGED <<clock, portal, settled, uploads, id, since, deadline, reply>>

Sleep ==
  /\ pc = "answered" /\ reply \notin Verdicts
  /\ pc' = "sleep" /\ since' = clock
  /\ UNCHANGED <<clock, portal, settled, uploads, id, deadline, reply, result, endedAt>>

Wake ==
  /\ pc = "sleep" /\ clock = since + Interval
  /\ pc' = "test"
  /\ UNCHANGED <<clock, portal, settled, uploads, id, since, deadline, reply,
                 result, endedAt>>

Client ==
  \/ Ask \/ TimesOut \/ PortalReads \/ RequestFails \/ Verdict \/ Sleep \/ Wake
DeploymentNext ==
  \/ Tick
  \/ \E i \in Ids : PortalMoves(i) \/ PortalRejects(i)
  \/ UploadDry \/ Upload \/ Accepted \/ UploadFails
  \/ Poll \/ Client

DeploymentSpec == DeploymentInit /\ [][DeploymentNext]_deploymentVars

(***************************************************************************)
(* Properties                                                               *)
(***************************************************************************)

\* Verdict: what PollUntilPublished reports is the portal's verdict on the very
\* deployment, though others of the same bundle may exist after a retry.
VerdictIsTrue ==
  result \in Verdicts => id \in Ids /\ portal[id] = result

\* A deployment that was settled long enough before the deadline for one more
\* round of the loop is never reported as timed out.
SettledInTimeIsSeen ==
  (result = "timeout" /\ id \in Ids /\ settled[id] >= 0)
    => settled[id] + Slow + Interval >= deadline

(* What the two rest on, inductively.                                       *)

DeploymentTyped ==
  /\ clock \in Nat /\ since \in Nat /\ deadline \in Nat
  /\ portal \in [Ids -> States \cup {Unknown}]
  /\ settled \in [Ids -> Nat \cup {-1}]
  /\ uploads \in 0..MaxUploads
  /\ id \in Ids \cup {DryRunId, -1}

\* Nobody answers while the caller runs, and an upload in flight is the last one.
StepsInOrder ==
  /\ pc = "post" => uploads > 0 /\ id = -1
  /\ pc \notin {"caller", "post"} => id # -1
  /\ pc # "ended" => result = "none"
  /\ \A i \in Ids : i > uploads \/ (i = uploads /\ pc = "post") => portal[i] = Unknown
  /\ pc = "answered" => id \in Ids

\* A verdict has a time, never a later one than now, and is for good.
VerdictsAreDated ==
  /\ \A i \in Ids : settled[i] <= clock /\ (settled[i] >= 0 <=> portal[i] \in Verdicts)
  /\ pc = "answered" /\ reply \in Verdicts => portal[id] = reply

\* A request or a sleep ends in time.
InTime ==
  /\ pc \in {"post", "ask", "answered"} => since <= clock /\ clock <= since + Slow
  /\ pc = "sleep" => since <= clock /\ clock <= since + Interval
  /\ result = "timeout" => deadline <= clock

\* A verdict the poll has not seen is younger than the request that missed it.
MissedIsYoung ==
  id \in Ids /\ settled[id] >= 0 =>
    /\ pc = "answered" /\ reply \notin Verdicts => settled[id] >= since
    /\ pc = "sleep" => settled[id] + Slow >= since
    /\ pc = "test" /\ clock >= deadline => settled[id] + Slow + Interval >= clock

DeploymentInv ==
  /\ DeploymentTyped /\ StepsInOrder /\ VerdictsAreDated /\ InTime /\ MissedIsYoung
  /\ VerdictIsTrue /\ SettledInTimeIsSeen

=============================================================================
