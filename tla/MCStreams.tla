----------------------------- MODULE MCStreams -----------------------------
(* A small instance of Stream for TLC: two readers, one handle without and one *)
(* with a limit.                                                              *)
EXTENDS Stream

CONSTANTS r1, r2, h1, h2
TwoReaders == {r1, r2}
TwoHandles == {h1, h2}
MixedLimits == [s \in Subs |-> IF s = h1 THEN NoLimit ELSE 1]

FairStreamSpec == StreamSpec /\ StreamFairness
=============================================================================
