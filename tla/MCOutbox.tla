----------------------------- MODULE MCOutbox -----------------------------
(* Instances of Outbox for TLC.                                            *)
EXTENDS Outbox, FiniteSets, TLC

\* Scaled delays: one second, then two for every later attempt.
MCBackoff == [n \in 1..12 |-> IF n = 1 THEN 1 ELSE 2]

Webhook == {"webhook"}
ObjectStore == {"s3"}

-----------------------------------------------------------------------------
(* Liveness.  Until CalmFrom anything may happen: a run is exported, rotated *)
(* and exported again after its retention.  From then on no process dies,   *)
(* the receiver answers, and the clock moves only while a row that can be   *)
(* settled awaits it and every worker is idle with nothing due (the worker  *)
(* loop polls every two seconds, far below its other delays).  Retention    *)
(* may run at any time.  MaxTime is never reached by such a behaviour.      *)
CalmFrom == 2

\* The delete row of a run that was exported again.  deliver puts the payload of
\* the run into every envelope; had the inbox taken the delivery before, it has
\* another content under the same id, which it refuses.
Refused(k) ==
  /\ k.target = "webhook" /\ k.op = "delete" /\ runs[k.run] # 0
  /\ \E x \in receipts :
       x.key = k /\ x.version = outbox[k].version /\ x.body # runs[k.run]

Quiet == Due = {} /\ \A w \in Workers : pc[w] = "idle"
Unanswered(w) == pc[w] = "wait" /\ \A m \in net : m.worker # w
Turbulence ==
  \/ \E S \in SUBSET Runs : Insert(S) \/ Rotate(S)
  \/ \E w \in Workers : Fail(w) \/ Crash(w)
  \/ \E m \in net : Receive(m) \/ Lose(m)
  \/ Tick
Answered(w) ==
  \/ \E m \in net : m.worker = w /\ Receive(m) /\ pc' # pc
  \/ Unanswered(w) /\ Fail(w)
Progress(w) == WorkerStep(w) \/ Answered(w)
QuietTick == Quiet /\ (\E k \in Keys : Exists(k) /\ ~Refused(k)) /\ Tick

SpecFair ==
  /\ Init
  /\ [][\/ (now < CalmFrom /\ Turbulence)
         \/ Retention \/ QuietTick
         \/ \E w \in Workers : Progress(w)]_vars
  /\ \A w \in Workers : WF_vars(Progress(w))
  /\ WF_vars(RetainCommit) /\ WF_vars(QuietTick)
  /\ SF_vars(now < CalmFrom /\ Tick)   \* crashes do not stop the clock

\* docs/production.md: "at least once" with a durable outbox.  Whatever fails until
\* then, every row is acknowledged for good in the end, but for the delete row of a
\* run that was exported again: once an answer to it is lost, its retries carry the
\* new payload under the old delivery id and are refused while the run is stored.
EventuallyDelivered ==
  \A k \in Keys : <>[](Exists(k) => Refused(k))

Interchangeable == Permutations(Workers)
=============================================================================
