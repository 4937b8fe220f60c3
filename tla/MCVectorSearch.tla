--------------------------- MODULE MCVectorSearch ---------------------------
(* Instances of VectorSearch for TLC.                                       *)
EXTENDS VectorSearch

\* A vector of dimension d weighs d.
MCWeight == [d \in Dims |-> d]

-----------------------------------------------------------------------------
(* Liveness.  Statements and the permit are granted first come, first        *)
(* served, so a step that is enabled again and again is taken.  Searches of  *)
(* mode auto do, at some point, what those of the other modes do.            *)
SpecFair ==
  /\ Init
  /\ [][\/ Store \/ Retain
         \/ \E s \in Searchers :
              SearchStep(s) \/ Cancel(s) \/ \E key \in IndexKeys : Begin(s, key, "auto")]_vars
  /\ \A s \in Searchers : SF_vars(SearchStep(s))

\* Every search that is not cancelled returns, with a single connection and a
\* single build permit.
SearchesReturn == \A s \in Searchers : pc[s] = "count" ~> pc[s] \in {"done", "idle"}
=============================================================================
