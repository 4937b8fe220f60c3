-------------------------- MODULE MCEmbeddingQueue --------------------------
(* Instances of EmbeddingQueue for TLC.                                     *)
EXTENDS EmbeddingQueue, TLC

\* Every retry waits one second.
MCDelay == [n \in 0..9 |-> 1]

-----------------------------------------------------------------------------
(* Liveness.  Until CalmFrom anything may happen; from then on no process   *)
(* dies, configuration and exports end (but for those that overlap, which   *)
(* their bounds end), and the clock moves only while some job awaits it,    *)
(* the workers are idle with nothing due and the repair sweep of the        *)
(* service (every 60 seconds) has nothing left to do, so that the behaviour *)
(* settles before the clock reaches MaxTime.                                *)
CalmFrom == 2

Quiet ==
  /\ Due = {} /\ \A w \in Workers : pc[w] = "idle"
  /\ Enqueued(jobs, runs, Runs, setting) = jobs
Repair == Reindex(FALSE)
Turbulence ==
  \/ \E s \in [Profiles -> Models \cup {NoModel}] :
       SaveSettings(s)
  \/ \E r \in Runs : Insert(r) \/ Retain(r)
  \/ Reindex(TRUE)
  \/ \E w \in Workers : Crash(w)
  \/ Tick
QuietTick ==
  Quiet /\ (\E k \in JobKeys : jobs[k].status = "pending") /\ Tick
\* Transactions that overlap: a snapshot inserted while the settings are saved,
\* and the two halves of a sweep of retention.  At any time, calm or not.
Overlapping ==
  \E r \in Runs :
    \/ RetainBegin(r)
    \/ \E s \in [Profiles -> Models \cup {NoModel}] : InsertDuringSave(r, s)
CommitSweep == \E r \in Runs : sweep # NoSweep /\ Retain(r)

SpecFair ==
  /\ Init
  /\ [][\/ (now < CalmFrom /\ Turbulence)
         \/ Overlapping \/ CommitSweep \/ QuietTick \/ Repair
         \/ \E w \in Workers : WorkerStep(w)]_vars
  /\ \A w \in Workers : WF_vars(WorkerStep(w))
  /\ WF_vars(CommitSweep) /\ WF_vars(QuietTick) /\ WF_vars(Repair)
  /\ SF_vars(now < CalmFrom /\ Tick)

\* The job of every stored run and enabled profile is scheduled and settled in
\* the end: none is missed by a racing change of the settings for good, none
\* stays leased to a worker that died, none is retried for ever.
Indexed ==
  \A k \in JobKeys :
    <>[](runs[k.run] # 0 /\ setting[k.profile] # NoModel => jobs[k].status \in {"done", "failed"})

Interchangeable == Permutations(Workers)
=============================================================================
