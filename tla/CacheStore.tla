----------------------------- MODULE CacheStore -----------------------------
(***************************************************************************)
(* What the JAR cache promises: a set of keys, each stored in one step with  *)
(* all of its bytes, and reads that answer in one step with all of a key's   *)
(* bytes or with a miss.  A power failure may undo stores.                   *)
(***************************************************************************)
CONSTANTS Keys, Getters, Miss, NoAnswer

VARIABLES
  stored,  \* the keys the cache holds
  answer   \* per reader, the last answer: the key asked for and what came

vars == <<stored, answer>>

Init == stored = {} /\ answer = [g \in Getters |-> NoAnswer]

Store(k) == stored' = stored \cup {k} /\ UNCHANGED answer

Answer(g, k) ==
  /\ answer' = [answer EXCEPT ![g] = <<k, IF k \in stored THEN k ELSE Miss>>]
  /\ UNCHANGED stored

PowerLoss ==
  /\ stored' \subseteq stored
  /\ answer' = [g \in Getters |-> NoAnswer]

Next ==
  \/ \E k \in Keys : Store(k) \/ \E g \in Getters : Answer(g, k)
  \/ PowerLoss

Spec == Init /\ [][Next]_vars
=============================================================================
