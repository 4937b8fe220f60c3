--------------------------- MODULE EmbeddingQueue ---------------------------
(***************************************************************************)
(* The embedding job queue of refract-storage (embedding_jobs.rs) and its  *)
(* workers in refract-server (Registry::process_one), for one scope:       *)
(* project settings, the job rows they create, the compare-and-swap leases *)
(* and the transaction that completes a job and publishes its vector.      *)
(*                                                                         *)
(* A lease token is drawn for one claim; the worker and the second of its  *)
(* SELECT stand for it.                                                    *)
(***************************************************************************)
EXTENDS Vectors

CONSTANTS
  Profiles,     \* configured embedding profiles
  Workers,      \* embedding workers, one per service process
  NoOne,        \* the worker of the empty lease token
  NoJob,        \* what an idle worker holds
  NoModel,      \* a profile that is not enabled with auto_index; a missing row
  Lease,        \* length of a claim (120 seconds in the code)
  Delay,        \* delays by min(attempts, 9), 2 * 2^n seconds in the code
  MaxAttempts,  \* a job fails for good at this attempt (10 in the code)
  MaxTime       \* bound on the clock

ASSUME QueueAssumption ==
  /\ NoOne \notin Workers /\ NoModel \notin Models
  /\ Lease \in Nat \ {0} /\ MaxAttempts \in Nat /\ MaxTime \in Nat
  /\ Delay \in [0..9 -> Nat \ {0}]
  /\ MaxAttempts > 1

VARIABLES
  setting,  \* project_embeddings: the auto_index model of each profile
  jobs,     \* embedding_jobs, by run and profile; status "none" = no row
  now,      \* Utc::now(), in abstract seconds
  pc, cand, seen, held, body  \* per worker, see TypeOK

queueVars == <<setting, jobs, now, pc, cand, seen, held, body>>
vars == <<vectorVars, queueVars>>

JobKeys == [run: Runs, profile: Profiles]
Tokens == [by: Workers \cup {NoOne}, at: Nat]
NoLease == [by |-> NoOne, at |-> 0]
NoRow == [status |-> "none", model |-> NoModel, attempts |-> 0, avail |-> 0, lease |-> NoLease]
NewRow(model) == [NoRow EXCEPT !.status = "pending", !.model = model]

Rows == {NoRow} \cup [status: {"pending", "done", "failed"}, model: Models,
                      attempts: Nat, avail: Nat, lease: Tokens]
\* A row of the claim's SELECT; the EmbeddingJob made of it holds its own token.
Candidates == [key: JobKeys, model: Models, attempts: Nat, avail: Nat, lease: Tokens]

TypeOK ==
  /\ VectorTypeOK
  /\ setting \in [Profiles -> Models \cup {NoModel}]
  /\ jobs \in [JobKeys -> Rows]
  /\ now \in Nat
  /\ pc \in [Workers -> {"idle", "claim", "read", "finish"}]
  /\ cand \in [Workers -> SUBSET Candidates]  \* rows of the SELECT not yet tried
  /\ seen \in [Workers -> Nat]                \* time of the SELECT
  /\ held \in [Workers -> Candidates \cup {NoJob}]  \* the EmbeddingJob
  /\ body \in [Workers -> Nat]                \* the execution it read

Exists(k) == jobs[k].status # "none"

-----------------------------------------------------------------------------
(* Settings, snapshots and scheduling.                                     *)

\* enqueue_embeddings: a job for every run of S and enabled profile without one.
Enqueued(rows, present, S, s) ==
  [k \in JobKeys |-> IF /\ k.run \in S /\ present[k.run] # 0
                        /\ s[k.profile] # NoModel /\ rows[k].status = "none"
                     THEN NewRow(s[k.profile]) ELSE rows[k]]

\* set_embedding_settings: drop the jobs whose profile and model are no longer
\* enabled, then schedule every stored run.
Replanned(s) ==
  Enqueued([k \in JobKeys |-> IF jobs[k].model = s[k.profile] THEN jobs[k] ELSE NoRow],
           runs, Runs, s)
SaveSettings(s) ==
  /\ setting' = s
  /\ jobs' = Replanned(s)
  /\ UNCHANGED <<vectorVars, now, pc, cand, seen, held, body>>

\* insert_tx: the snapshot is scheduled in the transaction that stores it.
Insert(r) ==
  /\ InsertRun(r)
  /\ jobs' = Enqueued(jobs, runs', {r}, setting)
  /\ UNCHANGED <<setting, now, pc, cand, seen, held, body>>

\* Both at once under READ COMMITTED: neither transaction sees the other's rows,
\* so the snapshot is scheduled under the settings that are being replaced.
InsertDuringSave(r, s) ==
  /\ ~Serial
  /\ InsertRun(r)
  /\ setting' = s
  /\ jobs' = Enqueued(Replanned(s), runs', {r}, setting)
  /\ UNCHANGED <<now, pc, cand, seen, held, body>>

\* retain_since deletes the jobs of the run along with its vectors.
Forget(r) ==
  /\ jobs' = [k \in JobKeys |-> IF k.run = r THEN NoRow ELSE jobs[k]]
  /\ UNCHANGED <<setting, now, pc, cand, seen, held, body>>
Retain(r) == (RetainRun(r) \/ RetainCommit(r)) /\ Forget(r)
RetainBegin(r) == RetainSelect(r) /\ UNCHANGED queueVars

\* reindex_embeddings: repair missing jobs; with retry, start settled ones anew.
Reindex(retry) ==
  LET repaired == Enqueued(jobs, runs, Runs, setting)
  IN  /\ jobs' = [k \in JobKeys |->
                    IF retry /\ repaired[k].status \in {"done", "failed"}
                    THEN NewRow(repaired[k].model) ELSE repaired[k]]
      /\ UNCHANGED <<vectorVars, setting, now, pc, cand, seen, held, body>>

-----------------------------------------------------------------------------
(* The worker: Registry::process_one.                                      *)

\* claim_embedding_job, its SELECT (the LIMIT of 16 exceeds a model's rows).
Due == {k \in JobKeys : jobs[k].status = "pending" /\ jobs[k].avail <= now}
Select(w) ==
  /\ pc[w] = "idle" /\ Due # {}
  /\ cand' = [cand EXCEPT ![w] =
       {[key |-> k, model |-> jobs[k].model, attempts |-> jobs[k].attempts,
         avail |-> jobs[k].avail, lease |-> jobs[k].lease] : k \in Due}]
  /\ seen' = [seen EXCEPT ![w] = now]
  /\ pc' = [pc EXCEPT ![w] = "claim"]
  /\ UNCHANGED <<vectorVars, setting, jobs, now, held, body>>

\* The UPDATE's WHERE: run, profile, status, time and the token that was read.
Claimable(c, time) ==
  /\ jobs[c.key].status = "pending" /\ jobs[c.key].avail <= time
  /\ jobs[c.key].lease = c.lease

Claimed(row, token, until) == [row EXCEPT !.lease = token, !.avail = until]

\* claim_embedding_job, one UPDATE: a claim, or on to the next candidate.  The
\* job keeps the model and the attempts of the SELECT.
Claim(w) ==
  /\ pc[w] = "claim"
  /\ \E c \in cand[w] :
       LET token == [by |-> w, at |-> seen[w]] IN
       /\ \A d \in cand[w] : c.avail <= d.avail
       /\ \/ /\ Claimable(c, seen[w])
             /\ jobs' = [jobs EXCEPT ![c.key] = Claimed(jobs[c.key], token, seen[w] + Lease)]
             /\ held' = [held EXCEPT ![w] = [c EXCEPT !.lease = token]]
             /\ cand' = [cand EXCEPT ![w] = {}]
             /\ pc' = [pc EXCEPT ![w] = "read"]
          \/ /\ ~Claimable(c, seen[w])
             /\ cand' = [cand EXCEPT ![w] = @ \ {c}]
             /\ pc' = [pc EXCEPT ![w] = IF cand[w] = {c} THEN "idle" ELSE "claim"]
             /\ UNCHANGED <<jobs, held>>
  /\ seen' = [seen EXCEPT ![w] = IF pc'[w] = "idle" THEN 0 ELSE @]
  /\ UNCHANGED <<vectorVars, setting, now, body>>

\* process_one up to the provider call: the run as it is stored now.
Read(w) ==
  /\ pc[w] = "read"
  /\ body' = [body EXCEPT ![w] = runs[held[w].key.run]]
  /\ pc' = [pc EXCEPT ![w] = "finish"]
  /\ UNCHANGED <<vectorVars, setting, jobs, now, cand, seen, held>>

\* Fault: completion matches the job by run, profile and token alone.
PublishesAnyModel(w) == Exists(held[w].key) /\ jobs[held[w].key].lease = held[w].lease

\* Fault: completion matches the job by run, profile and model.
PublishesAnyLease(w) == jobs[held[w].key].model = held[w].model

\* The UPDATE's WHERE of finish_embedding_job.
Publishes(w) ==
  /\ jobs[held[w].key].model = held[w].model
  /\ jobs[held[w].key].lease = held[w].lease

\* Fault: an attempt that fails is not counted.
StatusUncounted(job, ok) == IF ok THEN "done" ELSE "pending"
Status(job, ok) ==
  IF ok THEN "done" ELSE IF job.attempts >= MaxAttempts - 1 THEN "failed" ELSE "pending"

Finished(row, job, ok) ==
  [row EXCEPT !.status = Status(job, ok), !.attempts = row.attempts + 1, !.lease = NoLease,
              !.avail = now + Delay[IF job.attempts < 9 THEN job.attempts ELSE 9]]

\* process_one's end and finish_embedding_job: the provider answered with a
\* vector of the run that was read, or anything failed or timed out before.
Finish(w) ==
  /\ pc[w] = "finish"
  /\ \E ok \in {FALSE} \cup {body[w] # 0} :
       /\ jobs' = IF Publishes(w)
                  THEN [jobs EXCEPT ![held[w].key] = Finished(jobs[held[w].key], held[w], ok)]
                  ELSE jobs
       /\ IF Publishes(w) /\ ok
          THEN \E d \in Dims :
                 StoreVector(held[w].key.run, held[w].model, [dim |-> d, of |-> body[w]])
          ELSE UNCHANGED <<vectors, generation>>
  /\ pc' = [pc EXCEPT ![w] = "idle"]
  /\ body' = [body EXCEPT ![w] = 0]
  /\ held' = [held EXCEPT ![w] = NoJob]
  /\ seen' = [seen EXCEPT ![w] = 0]
  /\ UNCHANGED <<runs, inserts, sweep, setting, now, cand>>

\* The process dies or its database call fails; the row stays leased.
Crash(w) ==
  /\ pc[w] # "idle"
  /\ pc' = [pc EXCEPT ![w] = "idle"]
  /\ cand' = [cand EXCEPT ![w] = {}]
  /\ body' = [body EXCEPT ![w] = 0]
  /\ held' = [held EXCEPT ![w] = NoJob]
  /\ seen' = [seen EXCEPT ![w] = 0]
  /\ UNCHANGED <<vectorVars, setting, jobs, now>>

Tick ==
  /\ now < MaxTime
  /\ now' = now + 1
  /\ UNCHANGED <<vectorVars, setting, jobs, pc, cand, seen, held, body>>

-----------------------------------------------------------------------------
Init ==
  /\ VectorInit
  /\ setting = [p \in Profiles |-> NoModel]
  /\ jobs = [k \in JobKeys |-> NoRow]
  /\ now = 0
  /\ pc = [w \in Workers |-> "idle"]
  /\ cand = [w \in Workers |-> {}]
  /\ seen = [w \in Workers |-> 0]
  /\ held = [w \in Workers |-> NoJob]
  /\ body = [w \in Workers |-> 0]

WorkerStep(w) == Select(w) \/ Claim(w) \/ Read(w) \/ Finish(w)

Next ==
  \/ \E s \in [Profiles -> Models \cup {NoModel}] :
       SaveSettings(s) \/ \E r \in Runs : InsertDuringSave(r, s)
  \/ \E r \in Runs : Insert(r) \/ Retain(r) \/ RetainBegin(r)
  \/ \E retry \in BOOLEAN : Reindex(retry)
  \/ \E w \in Workers : WorkerStep(w) \/ Crash(w)
  \/ Tick

Spec == Init /\ [][Next]_vars

-----------------------------------------------------------------------------
(* Properties.                                                             *)

\* A vector describes the execution that is stored under its run id now: a
\* worker that read an execution retained since cannot publish for the one
\* exported under the same id later.
FreshVectors ==
  \A r \in Runs, m \in Models :
    vectors[r][m] # NoVector => runs[r] # 0 /\ vectors[r][m].of = runs[r]

\* embedding_jobs.rs: "Retired jobs cannot publish": a vector is published only
\* under a model the project settings enable at that moment.
RetiredJobsSilent ==
  [][\A r \in Runs, m \in Models :
       vectors'[r][m] # vectors[r][m] /\ vectors'[r][m] # NoVector
       => \E p \in Profiles : setting[p] = m]_vars
=============================================================================
