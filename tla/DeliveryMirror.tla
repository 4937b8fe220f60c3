---------------------------- MODULE DeliveryMirror ----------------------------
(***************************************************************************)
(* What the outbox promises about one delivery target, without rows,       *)
(* leases, workers or requests.  Each write of a run announces a content.  *)
(* While a run is announced its copy at the target may change, at a target *)
(* that knows versions only to a later one; the announcement is settled    *)
(* when the copy is the source, and a settled copy stays as it is.         *)
(***************************************************************************)
EXTENDS Integers

CONSTANTS
  Runs,
  Versioned    \* whether the target compares the versions of what it gets

VARIABLES
  source,      \* [Runs -> what the database holds]
  copy,        \* [Runs -> what the target holds]
  announced    \* [Runs -> BOOLEAN]: the copy may still have to change

vars == <<source, copy, announced>>

Init ==
  /\ announced = [r \in Runs |-> FALSE]
  /\ copy = source

\* Runs are inserted, rewritten or deleted, each under a version of its own.
Write(S) ==
  /\ \A r \in Runs \ S : source'[r] = source[r]
  /\ Versioned => \A r \in S : source[r].version < source'[r].version
  /\ announced' = [r \in Runs |-> r \in S \/ announced[r]]
  /\ UNCHANGED copy

\* The target takes a delivery: the source, or what is older than the source.
Deliver(r) ==
  /\ announced[r]
  /\ copy' = [copy EXCEPT ![r] = copy'[r]]
  /\ Versioned => /\ copy[r].version < copy'[r].version
                  /\ copy'[r].version < source[r].version \/ copy'[r] = source[r]
  /\ UNCHANGED <<source, announced>>

Settle(r) ==
  /\ announced[r] /\ copy[r] = source[r]
  /\ announced' = [announced EXCEPT ![r] = FALSE]
  /\ UNCHANGED <<source, copy>>

Next ==
  \/ \E S \in SUBSET Runs : Write(S)
  \/ \E r \in Runs : Deliver(r) \/ Settle(r)

Spec == Init /\ [][Next]_vars
===============================================================================
