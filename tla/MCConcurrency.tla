--------------------------- MODULE MCConcurrency ---------------------------
(* Small instances of Async, FutureRuntime, Channel and Stream for TLC: two     *)
(* leaf tasks and one that waits, two bridged calls, a channel with two senders *)
(* and two receivers, a stream with two handles and two readers.  The four     *)
(* share no state, so they are explored side by side: a behaviour uses one.     *)
EXTENDS Async, FutureRuntime, Channel, Stream

CONSTANTS t1, t2, t3, c1, c2, s1, s2, r1, r2, h1, h2

\* t3 races t1 and t2, then awaits t1.
RacingBody ==
  [t \in Tasks |->
     IF t = t3 THEN <<[kind |-> "any", on |-> <<t1, t2>>],
                      [kind |-> "await", on |-> <<t1>>]>> ELSE <<>>]

SomeLists == {<<t2, t3>>, <<t3, t1>>}
TwoCalls == {c1, c2}
TwoSenders == {s1, s2}
TwoReceivers == {r1, r2}
TwoHandles == {h1, h2}
\* One handle without and one with a limit.
MixedLimits == [s \in Subs |-> IF s = h1 THEN NoLimit ELSE 1]

OneOfInit == Init /\ BridgeInit /\ ChannelInit /\ StreamInit

OneOfNext ==
  \/ /\ Next
     /\ BridgeInit /\ ChannelInit /\ StreamInit
     /\ UNCHANGED <<bridgeVars, channelVars, streamVars>>
  \/ /\ BridgeNext
     /\ Init /\ ChannelInit /\ StreamInit
     /\ UNCHANGED <<vars, channelVars, streamVars>>
  \/ /\ ChannelNext
     /\ Init /\ BridgeInit /\ StreamInit
     /\ UNCHANGED <<vars, bridgeVars, streamVars>>
  \/ /\ StreamNext
     /\ Init /\ BridgeInit /\ ChannelInit
     /\ UNCHANGED <<vars, bridgeVars, channelVars>>

OneOfSpec ==
  /\ OneOfInit /\ [][OneOfNext]_<<vars, bridgeVars, channelVars, streamVars>>
  /\ Fairness /\ BridgeFairness /\ ChannelFairness /\ StreamFairness
=============================================================================
