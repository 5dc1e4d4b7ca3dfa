------------------------------ MODULE MCAgent ------------------------------
(* Small instances of Agent for TLC. *)
EXTENDS AgentRefinement

\* "inc" is void, "bump" returns a value.  The arms are written carelessly: an
\* early return, an exception, two replies, and a branch of a value intent that
\* returns nothing.
CarelessPaths ==
  [i \in Intents |->
     CASE i = "inc"  -> {<<"assign">>, <<"return">>}
       [] i = "bump" -> {<<"complete", "assign", "complete">>, <<>>,
                         <<"assign", "throw">>}]
=============================================================================
