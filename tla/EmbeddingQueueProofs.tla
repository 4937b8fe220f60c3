------------------------ MODULE EmbeddingQueueProofs ------------------------
(***************************************************************************)
(* Theorems about EmbeddingQueue, for every set of runs, models, profiles  *)
(* and workers: type correctness and fresh vectors for every database, and *)
(* for a database that runs its transactions one after the other also that *)
(* retired jobs are silent and that generations advance.                   *)
(***************************************************************************)
EXTENDS EmbeddingQueue, TLAPS

-----------------------------------------------------------------------------
(* The transactions of Vectors: types.                                     *)

\* put_embedding_tx keeps the tables typed.
LEMMA StoreVectorType ==
  ASSUME VectorTypeOK, UNCHANGED <<runs, inserts, sweep>>,
         NEW r \in Runs, NEW m \in Models, NEW d \in Dims, NEW n \in Nat,
         StoreVector(r, m, [dim |-> d, of |-> n])
  PROVE  VectorTypeOK'
  <1>1. generation' \in [Models -> Nat]
    BY DEF VectorTypeOK, StoreVector, Bumped
  <1>2. vectors' \in [Runs -> [Models -> [dim: Nat, of: Nat]]]
    BY VectorsAssumption DEF VectorTypeOK, StoreVector
  <1> QED BY <1>1, <1>2 DEF VectorTypeOK

\* retain_since keeps the tables typed, overlapping or not.
LEMMA RetentionType ==
  ASSUME VectorTypeOK, NEW r \in Runs, RetainRun(r) \/ RetainCommit(r) \/ RetainSelect(r)
  PROVE  VectorTypeOK'
  <1>1. ASSUME NEW models, DropRun(r, models)
        PROVE  /\ runs' \in [Runs -> Nat] /\ inserts' \in [Runs -> Nat]
               /\ vectors' \in [Runs -> [Models -> [dim: Nat, of: Nat]]]
               /\ generation' \in [Models -> Nat]
    BY <1>1 DEF VectorTypeOK, DropRun, Bumped, NoVector
  <1>2. CASE RetainRun(r)
    BY <1>1, <1>2 DEF VectorTypeOK, RetainRun
  <1>3. CASE RetainCommit(r)
    BY <1>1, <1>3 DEF VectorTypeOK, RetainCommit, NoSweep
  <1>4. CASE RetainSelect(r)
    BY <1>4 DEF VectorTypeOK, RetainSelect, ModelsOf
  <1> QED BY <1>2, <1>3, <1>4

\* insert_tx keeps the tables typed and numbers the execution from 1.
LEMMA InsertRunType ==
  ASSUME VectorTypeOK, NEW r \in Runs, InsertRun(r)
  PROVE  VectorTypeOK' /\ runs'[r] # 0 /\ (\A x \in Runs : x # r => runs'[x] = runs[x])
  <1>1. inserts' \in [Runs -> Nat] /\ inserts'[r] = inserts[r] + 1
    BY DEF VectorTypeOK, InsertRun
  <1>2. runs' = [runs EXCEPT ![r] = inserts'[r]]
    BY DEF InsertRun
  <1>3. inserts'[r] \in Nat \ {0}
    BY <1>1 DEF VectorTypeOK
  <1> QED BY <1>1, <1>2, <1>3 DEF VectorTypeOK, InsertRun

-----------------------------------------------------------------------------
(* The contract of the generation counters.                                *)

\* A transaction that writes no vector keeps the contract.
LEMMA KeptAdvances ==
  ASSUME VectorTypeOK, UNCHANGED <<vectors, generation>> PROVE Generations
  BY DEF VectorTypeOK, Generations

\* put_embedding_tx bumps the generation of its model with every vector.
LEMMA StoreAdvances ==
  ASSUME VectorTypeOK, NEW r \in Runs, NEW m \in Models, NEW value, StoreVector(r, m, value)
  PROVE  Generations
  <1>1. CASE runs[r] = 0
    BY <1>1, KeptAdvances DEF StoreVector
  <1>2. CASE runs[r] # 0
    <2>1. vectors' = [vectors EXCEPT ![r][m] = value] /\ generation' = Bumped({m})
      BY <1>2 DEF StoreVector
    <2>2. ASSUME NEW x \in Runs, NEW n \in Models, n # m PROVE vectors'[x][n] = vectors[x][n]
      BY <2>1, <2>2 DEF VectorTypeOK
    <2>3. ASSUME NEW n \in Models
          PROVE  generation'[n] >= generation[n] /\ (n = m => generation'[n] > generation[n])
      BY <2>1 DEF Bumped, VectorTypeOK
    <2> QED BY <2>2, <2>3 DEF Generations
  <1> QED BY <1>1, <1>2

\* retain_since bumps the generation of every model whose vectors it deletes,
\* when nothing is stored between its SELECT and its writes.
LEMMA RetainAdvances ==
  ASSUME VectorTypeOK, NEW r \in Runs, RetainRun(r) PROVE Generations
  <1>1. /\ generation' = Bumped(ModelsOf(r))
        /\ vectors' = [vectors EXCEPT ![r] = [m \in Models |-> NoVector]]
    BY DEF RetainRun, DropRun
  <1>2. ASSUME NEW x \in Runs, NEW m \in Models, vectors'[x][m] # vectors[x][m]
        PROVE  m \in ModelsOf(r)
    BY <1>1, <1>2 DEF ModelsOf, VectorTypeOK
  <1>3. ASSUME NEW m \in Models
        PROVE  /\ generation'[m] >= generation[m]
               /\ m \in ModelsOf(r) => generation'[m] > generation[m]
    BY <1>1 DEF Bumped, VectorTypeOK
  <1> QED BY <1>2, <1>3 DEF Generations

-----------------------------------------------------------------------------
(* Types.  A row is one of the table's or the absence of one, and stays so  *)
(* under every operator of the model.                                       *)

\* A scheduled row has the type of the table.
LEMMA NewRowType == \A m \in Models : NewRow(m) \in Rows /\ NewRow(m).lease = NoLease
                                      /\ NewRow(m).model = m /\ NewRow(m) # NoRow
  BY QueueAssumption DEF NewRow, NoRow, NoLease, Rows, Tokens

\* enqueue_embeddings keeps the table typed.
LEMMA EnqueuedType ==
  ASSUME NEW rows \in [JobKeys -> Rows], NEW present, NEW S, NEW s \in [Profiles -> Models \cup {NoModel}]
  PROVE  Enqueued(rows, present, S, s) \in [JobKeys -> Rows]
  BY NewRowType DEF Enqueued, JobKeys

\* set_embedding_settings keeps the table typed.
LEMMA ReplannedType ==
  ASSUME jobs \in [JobKeys -> Rows], NEW s \in [Profiles -> Models \cup {NoModel}]
  PROVE  Replanned(s) \in [JobKeys -> Rows]
  <1> DEFINE kept == [k \in JobKeys |-> IF jobs[k].model = s[k.profile] THEN jobs[k] ELSE NoRow]
  <1>1. kept \in [JobKeys -> Rows]
    BY DEF Rows
  <1>2. Enqueued(kept, runs, Runs, s) \in [JobKeys -> Rows]
    <2> HIDE DEF kept
    <2> QED BY <1>1, EnqueuedType
  <1> QED BY <1>2 DEF Replanned

\* A row that is leased keeps everything but its lease and its time.
LEMMA ClaimedRow ==
  ASSUME NEW row \in Rows, row.status = "pending", NEW token \in Tokens, NEW until \in Nat
  PROVE  /\ Claimed(row, token, until) \in Rows
         /\ Claimed(row, token, until).lease = token
         /\ Claimed(row, token, until).model = row.model
  <1>1. row \in [status: {"pending", "done", "failed"}, model: Models,
                 attempts: Nat, avail: Nat, lease: Tokens]
    BY DEF Rows, NoRow
  <1> QED BY <1>1 DEF Claimed, Rows

\* The time of a retry.
LEMMA DelayType ==
  ASSUME NEW n \in Nat PROVE Delay[IF n < 9 THEN n ELSE 9] \in Nat
  BY QueueAssumption

\* A row that is completed gives up its lease and keeps its model.
LEMMA FinishedRow ==
  ASSUME NEW row \in Rows, row.status # "none", NEW job \in Candidates, NEW ok, now \in Nat
  PROVE  /\ Finished(row, job, ok) \in Rows
         /\ Finished(row, job, ok).lease = NoLease
         /\ Finished(row, job, ok).model = row.model
  <1>1. Status(job, ok) \in {"pending", "done", "failed"}
    BY DEF Status
  <1>2. job.attempts \in Nat
    BY DEF Candidates
  <1> DEFINE delay == Delay[IF job.attempts < 9 THEN job.attempts ELSE 9]
  <1>3. delay \in Nat
    BY <1>2, DelayType
  <1>4. row \in [status: {"pending", "done", "failed"}, model: Models,
                 attempts: Nat, avail: Nat, lease: Tokens]
    BY DEF Rows, NoRow
  <1>5. row.attempts + 1 \in Nat /\ now + delay \in Nat /\ NoLease \in Tokens
    <2> HIDE DEF delay
    <2> QED BY <1>3, <1>4 DEF NoLease, Tokens
  <1> DEFINE next(st, a, t) ==
        [row EXCEPT !.status = st, !.attempts = a, !.lease = NoLease, !.avail = t]
  <1>6. \A st \in {"pending", "done", "failed"}, a, t \in Nat :
          next(st, a, t) \in Rows /\ next(st, a, t).lease = NoLease /\ next(st, a, t).model = row.model
    BY <1>4, <1>5 DEF Rows
  <1>7. Finished(row, job, ok) = next(Status(job, ok), row.attempts + 1, now + delay)
    BY DEF Finished
  <1> QED
    <2> HIDE DEF delay, next
    <2> QED BY <1>1, <1>5, <1>6, <1>7

\* What a worker may claim is typed like the rows it was read from.
LEMMA SelectedType ==
  ASSUME jobs \in [JobKeys -> Rows], NEW k \in Due
  PROVE  [key |-> k, model |-> jobs[k].model, attempts |-> jobs[k].attempts,
          avail |-> jobs[k].avail, lease |-> jobs[k].lease] \in Candidates
  BY DEF Due, Rows, NoRow, Candidates

-----------------------------------------------------------------------------
(* Type correctness.                                                       *)

\* A worker past its claim holds a job.
Holding == \A w \in Workers : pc[w] \in {"read", "finish"} => held[w] \in Candidates

\* The initial tables are typed, and no worker is past its claim.
LEMMA InitType == Init => TypeOK /\ Holding
  <1> SUFFICES ASSUME Init PROVE TypeOK /\ Holding
    OBVIOUS
  <1>1. VectorTypeOK
    BY DEF Init, VectorInit, VectorTypeOK, NoVector, NoSweep
  <1>2. NoRow \in Rows
    BY DEF Rows
  <1> QED BY <1>1, <1>2 DEF Init, TypeOK, Holding

\* Every step keeps the types.
LEMMA NextType == TypeOK /\ Holding /\ [Next]_vars => TypeOK' /\ Holding'
  <1> SUFFICES ASSUME TypeOK, Holding, [Next]_vars PROVE TypeOK' /\ Holding'
    OBVIOUS
  <1> DEFINE Settings == [Profiles -> Models \cup {NoModel}]
  <1>1. ASSUME NEW s \in Settings, SaveSettings(s) PROVE TypeOK' /\ Holding'
    <2>1. jobs' \in [JobKeys -> Rows]
      BY <1>1, ReplannedType DEF TypeOK, Holding, SaveSettings
    <2> QED BY <1>1, <2>1 DEF TypeOK, Holding, SaveSettings, vectorVars, VectorTypeOK
  <1>2. ASSUME NEW r \in Runs, Insert(r) PROVE TypeOK' /\ Holding'
    <2>1. VectorTypeOK'
      BY <1>2, InsertRunType DEF Insert, TypeOK
    <2>2. jobs' \in [JobKeys -> Rows]
      BY <1>2, EnqueuedType DEF TypeOK, Holding, Insert
    <2> QED BY <1>2, <2>1, <2>2 DEF TypeOK, Holding, Insert
  <1>3. ASSUME NEW r \in Runs, NEW s \in Settings, InsertDuringSave(r, s) PROVE TypeOK' /\ Holding'
    <2>1. VectorTypeOK'
      BY <1>3, InsertRunType DEF InsertDuringSave, TypeOK
    <2>2. Replanned(s) \in [JobKeys -> Rows]
      BY ReplannedType DEF TypeOK
    <2>3. jobs' \in [JobKeys -> Rows]
      BY <1>3, <2>2, EnqueuedType DEF TypeOK, Holding, InsertDuringSave
    <2> QED BY <1>3, <2>1, <2>3 DEF TypeOK, Holding, InsertDuringSave
  <1>4. ASSUME NEW r \in Runs, Retain(r) PROVE TypeOK' /\ Holding'
    <2>1. VectorTypeOK'
      BY <1>4, RetentionType DEF Retain, TypeOK
    <2>2. jobs' \in [JobKeys -> Rows]
      BY <1>4 DEF TypeOK, Holding, Retain, Forget, Rows
    <2> QED BY <1>4, <2>1, <2>2 DEF TypeOK, Holding, Retain, Forget
  <1>5. ASSUME NEW r \in Runs, RetainBegin(r) PROVE TypeOK' /\ Holding'
    <2>1. VectorTypeOK'
      BY <1>5, RetentionType DEF RetainBegin, TypeOK
    <2> QED BY <1>5, <2>1 DEF TypeOK, Holding, RetainBegin, queueVars
  <1>6. ASSUME NEW retry \in BOOLEAN, Reindex(retry) PROVE TypeOK' /\ Holding'
    <2> DEFINE repaired == Enqueued(jobs, runs, Runs, setting)
    <2>1. repaired \in [JobKeys -> Rows]
      BY EnqueuedType DEF TypeOK
    <2>2. \A k \in JobKeys : repaired[k].status \in {"done", "failed"} => repaired[k].model \in Models
      <3> HIDE DEF repaired
      <3> QED BY <2>1 DEF Rows, NoRow
    <2>3. jobs' = [k \in JobKeys |-> IF retry /\ repaired[k].status \in {"done", "failed"}
                                     THEN NewRow(repaired[k].model) ELSE repaired[k]]
      BY <1>6 DEF Reindex
    <2>4. jobs' \in [JobKeys -> Rows]
      <3> HIDE DEF repaired
      <3> QED BY <2>1, <2>2, <2>3, NewRowType
    <2> QED BY <1>6, <2>4 DEF TypeOK, Holding, Reindex, vectorVars, VectorTypeOK
  <1>7. ASSUME NEW w \in Workers, Select(w) PROVE TypeOK' /\ Holding'
    <2>1. cand' \in [Workers -> SUBSET Candidates]
      BY <1>7, SelectedType DEF TypeOK, Holding, Select
    <2> QED BY <1>7, <2>1 DEF TypeOK, Holding, Select, vectorVars, VectorTypeOK
  <1>8. ASSUME NEW w \in Workers, Claim(w) PROVE TypeOK' /\ Holding'
    <2>1. PICK c \in cand[w] :
            LET token == [by |-> w, at |-> seen[w]] IN
            \/ /\ Claimable(c, seen[w])
               /\ jobs' = [jobs EXCEPT ![c.key] = Claimed(jobs[c.key], token, seen[w] + Lease)]
               /\ held' = [held EXCEPT ![w] = [c EXCEPT !.lease = token]]
               /\ cand' = [cand EXCEPT ![w] = {}]
               /\ pc' = [pc EXCEPT ![w] = "read"]
            \/ /\ ~Claimable(c, seen[w])
               /\ cand' = [cand EXCEPT ![w] = @ \ {c}]
               /\ pc' = [pc EXCEPT ![w] = IF cand[w] = {c} THEN "idle" ELSE "claim"]
               /\ UNCHANGED <<jobs, held>>
      BY <1>8 DEF Claim
    <2> DEFINE token == [by |-> w, at |-> seen[w]]
    <2>2. c \in Candidates /\ c.key \in JobKeys /\ token \in Tokens /\ seen[w] + Lease \in Nat
      BY QueueAssumption DEF TypeOK, Holding, Candidates, Tokens
    <2>3. [c EXCEPT !.lease = token] \in Candidates
      BY <2>2 DEF Candidates
    <2>4. jobs' \in [JobKeys -> Rows] /\ held' \in [Workers -> Candidates \cup {NoJob}]
      <3>1. CASE Claimable(c, seen[w])
        <4>1. Claimed(jobs[c.key], token, seen[w] + Lease) \in Rows
          BY <2>2, <3>1, ClaimedRow DEF TypeOK, Holding, Claimable
        <4> HIDE DEF token
        <4> QED BY <2>1, <2>2, <2>3, <3>1, <4>1 DEF TypeOK, Holding, token
      <3>2. CASE ~Claimable(c, seen[w])
        BY <2>1, <3>2 DEF TypeOK
      <3> QED BY <3>1, <3>2
    <2>5. cand' \in [Workers -> SUBSET Candidates]
      BY <2>1 DEF TypeOK
    <2>6. pc' \in [Workers -> {"idle", "claim", "read", "finish"}]
      BY <2>1 DEF TypeOK
    <2>7. Holding'
      BY <2>1, <2>3 DEF TypeOK, Holding
    <2> QED BY <1>8, <2>4, <2>5, <2>6, <2>7 DEF TypeOK, Claim, vectorVars, VectorTypeOK
  <1>9. ASSUME NEW w \in Workers, Read(w) PROVE TypeOK' /\ Holding'
    <2>1. runs[held[w].key.run] \in Nat
      BY <1>9 DEF Read, TypeOK, VectorTypeOK, Holding, Candidates, JobKeys
    <2> QED BY <1>9, <2>1 DEF TypeOK, Holding, Read, vectorVars, VectorTypeOK
  <1>10. ASSUME NEW w \in Workers, Finish(w) PROVE TypeOK' /\ Holding'
    <2>1. held[w] \in Candidates /\ held[w].key \in JobKeys /\ held[w].key.run \in Runs
          /\ held[w].model \in Models
      BY <1>10 DEF Finish, Holding, Candidates, JobKeys
    <2>2. PICK ok \in {FALSE} \cup {body[w] # 0} :
            /\ jobs' = IF Publishes(w)
                       THEN [jobs EXCEPT ![held[w].key] = Finished(jobs[held[w].key], held[w], ok)]
                       ELSE jobs
            /\ IF Publishes(w) /\ ok
               THEN \E d \in Dims :
                      StoreVector(held[w].key.run, held[w].model, [dim |-> d, of |-> body[w]])
               ELSE UNCHANGED <<vectors, generation>>
      BY <1>10 DEF Finish
    <2>3. Publishes(w) => jobs[held[w].key].status # "none"
      BY <2>1, QueueAssumption DEF Publishes, TypeOK, Rows, NoRow
    <2>4. jobs' \in [JobKeys -> Rows]
      BY <2>1, <2>2, <2>3, FinishedRow DEF TypeOK
    <2>5. VectorTypeOK'
      <3>1. UNCHANGED <<runs, inserts, sweep>> /\ body[w] \in Nat
        BY <1>10 DEF Finish, TypeOK
      <3>2. VectorTypeOK
        BY DEF TypeOK
      <3>3. ASSUME NEW d \in Dims,
                   StoreVector(held[w].key.run, held[w].model, [dim |-> d, of |-> body[w]])
            PROVE  VectorTypeOK'
        BY <2>1, <3>1, <3>2, <3>3, StoreVectorType
      <3>4. CASE UNCHANGED <<vectors, generation>>
        BY <3>1, <3>2, <3>4 DEF VectorTypeOK
      <3> QED BY <2>2, <3>3, <3>4
    <2> QED BY <1>10, <2>4, <2>5 DEF TypeOK, Holding, Finish
  <1>11. ASSUME NEW w \in Workers, Crash(w) PROVE TypeOK' /\ Holding'
    BY <1>11 DEF TypeOK, Holding, Crash, vectorVars, VectorTypeOK
  <1>12. CASE Tick
    BY <1>12 DEF TypeOK, Holding, Tick, vectorVars, VectorTypeOK
  <1>13. CASE UNCHANGED vars
    BY <1>13 DEF TypeOK, Holding, vars, vectorVars, queueVars, VectorTypeOK
  <1> QED
    BY <1>1, <1>2, <1>3, <1>4, <1>5, <1>6, <1>7, <1>8, <1>9, <1>10, <1>11, <1>12, <1>13
       DEF Next, WorkerStep

\* The tables and the workers' variables keep their types.
THEOREM TypeCorrect == Spec => []TypeOK
  BY InitType, NextType, PTL DEF Spec

-----------------------------------------------------------------------------
(* Fresh vectors.  The compare-and-swap that completes a job fences the run *)
(* as well as the row: a run is only dropped together with its jobs, and a  *)
(* row that is scheduled anew carries the empty token, so the token a       *)
(* worker holds is found only while the run it read is stored.              *)

\* A job row belongs to a stored run.
JobsStored == \A k \in JobKeys : jobs[k] # NoRow => runs[k.run] # 0

\* A worker holds a token of its own, and while the row still carries it the
\* run is the one the worker read.
Fenced ==
  \A w \in Workers :
    /\ pc[w] \in {"read", "finish"} => held[w].lease.by = w
    /\ pc[w] = "finish" /\ jobs[held[w].key].lease = held[w].lease
       => body[w] = runs[held[w].key.run]

\* Without overlapping transactions every job belongs to the settings in force.
Enabled ==
  Serial => /\ sweep = NoSweep
            /\ \A k \in JobKeys : jobs[k] # NoRow => jobs[k].model = setting[k.profile]

FreshInv == TypeOK /\ Holding /\ JobsStored /\ Fenced /\ Enabled /\ FreshVectors

\* A transaction that schedules, drops or keeps rows but leases none.
Unleased ==
  /\ \A k \in JobKeys : jobs'[k] = jobs[k] \/ jobs'[k].lease = NoLease
  /\ UNCHANGED <<pc, held, body>>

\* Whoever holds a token is not the worker of the empty one.
LEMMA TokensDiffer ==
  ASSUME Fenced, NEW w \in Workers, pc[w] \in {"read", "finish"}
  PROVE  held[w].lease # NoLease
  BY QueueAssumption DEF Fenced, NoLease

\* Such a transaction keeps the tokens fenced, when the runs it replaces lose
\* their jobs.
LEMMA UnleasedFenced ==
  ASSUME Fenced, Holding, Unleased,
         \A k \in JobKeys : jobs[k] # NoRow /\ jobs'[k] = jobs[k] => runs'[k.run] = runs[k.run]
  PROVE  Fenced'
  <1> SUFFICES ASSUME NEW w \in Workers
               PROVE  /\ pc[w] \in {"read", "finish"} => held[w].lease.by = w
                      /\ pc[w] = "finish" /\ jobs'[held[w].key].lease = held[w].lease
                         => body[w] = runs'[held[w].key.run]
    BY DEF Fenced, Unleased
  <1>1. SUFFICES ASSUME pc[w] = "finish", jobs'[held[w].key].lease = held[w].lease
                 PROVE  body[w] = runs'[held[w].key.run]
    BY DEF Fenced
  <1>2. held[w].lease # NoLease /\ held[w].key \in JobKeys
    BY <1>1, TokensDiffer DEF Holding, Candidates
  <1>3. jobs'[held[w].key] = jobs[held[w].key] /\ jobs[held[w].key] # NoRow
    BY <1>1, <1>2 DEF Unleased, NoRow
  <1> QED BY <1>1, <1>2, <1>3 DEF Fenced

\* enqueue_embeddings schedules rows of present runs and leases none.
LEMMA EnqueuedRows ==
  ASSUME NEW rows \in [JobKeys -> Rows], NEW present, NEW S,
         NEW s \in [Profiles -> Models \cup {NoModel}], NEW k \in JobKeys
  PROVE  \/ Enqueued(rows, present, S, s)[k] = rows[k]
         \/ /\ Enqueued(rows, present, S, s)[k].lease = NoLease
            /\ Enqueued(rows, present, S, s)[k].model = s[k.profile]
            /\ present[k.run] # 0
  BY NewRowType DEF Enqueued, JobKeys

\* set_embedding_settings leaves every row a job of the new settings.
LEMMA ReplannedRows ==
  ASSUME TypeOK, NEW s \in [Profiles -> Models \cup {NoModel}], NEW k \in JobKeys
  PROVE  /\ Replanned(s)[k] = jobs[k] \/ Replanned(s)[k].lease = NoLease
         /\ Replanned(s)[k] # NoRow
            => Replanned(s)[k].model = s[k.profile] /\ (runs[k.run] # 0 \/ jobs[k] # NoRow)
  <1> DEFINE kept == [x \in JobKeys |-> IF jobs[x].model = s[x.profile] THEN jobs[x] ELSE NoRow]
  <1>1. kept \in [JobKeys -> Rows]
    BY DEF Rows, TypeOK
  <1>2. kept[k] = jobs[k] \/ (kept[k] = NoRow /\ NoRow.lease = NoLease)
    BY DEF NoRow
  <1>3. kept[k] # NoRow => kept[k].model = s[k.profile] /\ jobs[k] # NoRow
    OBVIOUS
  <1>4. Replanned(s) = Enqueued(kept, runs, Runs, s)
    BY DEF Replanned
  <1> QED
    <2> HIDE DEF kept
    <2> QED BY <1>1, <1>2, <1>3, <1>4, EnqueuedRows

\* Nothing is scheduled, held or stored at first.
LEMMA InitFresh == Init => FreshInv
  <1> SUFFICES ASSUME Init PROVE FreshInv
    OBVIOUS
  <1>1. JobsStored /\ Fenced /\ Enabled
    BY DEF Init, VectorInit, JobsStored, Fenced, Enabled
  <1>2. FreshVectors
    BY DEF Init, VectorInit, FreshVectors
  <1> QED BY <1>1, <1>2, InitType DEF FreshInv

\* Storing an execution makes no vector stale: its id had none.
LEMMA InsertFresh ==
  ASSUME TypeOK, FreshVectors, NEW r \in Runs, InsertRun(r)
  PROVE  FreshVectors'
  BY InsertRunType DEF TypeOK, FreshVectors, InsertRun

\* Retention takes the vectors of a run along.
LEMMA RetainFresh ==
  ASSUME TypeOK, FreshVectors, NEW r \in Runs, RetainRun(r) \/ RetainCommit(r)
  PROVE  /\ FreshVectors'
         /\ \A x \in Runs : x # r => runs'[x] = runs[x]
  <1>1. PICK models : DropRun(r, models)
    BY DEF RetainRun, RetainCommit
  <1> QED BY <1>1 DEF DropRun, TypeOK, VectorTypeOK, FreshVectors

\* Every step keeps the invariant.
LEMMA NextFresh == FreshInv /\ [Next]_vars => FreshInv'
  <1> SUFFICES ASSUME FreshInv, [Next]_vars PROVE FreshInv'
    OBVIOUS
  <1> USE DEF FreshInv
  <1>0. TypeOK' /\ Holding'
    BY NextType
  <1> DEFINE Settings == [Profiles -> Models \cup {NoModel}]
             Rest == JobsStored' /\ Fenced' /\ Enabled' /\ FreshVectors'
  <1>1. ASSUME NEW s \in Settings, SaveSettings(s) PROVE Rest
    <2>1. jobs' = Replanned(s) /\ setting' = s /\ UNCHANGED <<vectorVars, pc, held, body>>
      BY <1>1 DEF SaveSettings
    <2>2. JobsStored' /\ Enabled'
      BY <2>1, ReplannedRows DEF JobsStored, Enabled, vectorVars
    <2>3. Unleased
      BY <2>1, ReplannedRows DEF Unleased
    <2>4. Fenced'
      BY <2>1, <2>3, UnleasedFenced DEF vectorVars
    <2> QED BY <2>1, <2>2, <2>4 DEF FreshVectors, vectorVars
  <1>2. ASSUME NEW r \in Runs, Insert(r) PROVE Rest
    <2>1. /\ jobs' = Enqueued(jobs, runs', {r}, setting)
          /\ UNCHANGED <<setting, sweep, pc, held, body>>
          /\ InsertRun(r) /\ runs[r] = 0
          /\ jobs \in [JobKeys -> Rows] /\ setting \in Settings /\ VectorTypeOK
      BY <1>2 DEF Insert, InsertRun, TypeOK
    <2>2. runs'[r] # 0 /\ \A x \in Runs : x # r => runs'[x] = runs[x]
      BY <2>1, InsertRunType
    <2> DEFINE there == runs'
    <2>6. \A k \in JobKeys :
            \/ jobs'[k] = jobs[k]
            \/ jobs'[k].model = setting[k.profile] /\ there[k.run] # 0
      <3> HIDE DEF there
      <3>1. jobs' = Enqueued(jobs, there, {r}, setting)
        BY <2>1 DEF there
      <3> QED BY <2>1, <3>1, EnqueuedRows
    <2>3. JobsStored' /\ Enabled'
      BY <2>1, <2>2, <2>6 DEF JobsStored, Enabled, JobKeys
    <2>4. Unleased
      BY <2>1, EnqueuedRows DEF Unleased
    <2>5. Fenced'
      BY <2>1, <2>2, <2>4, UnleasedFenced DEF JobsStored, JobKeys
    <2> QED BY <2>1, <2>3, <2>5, InsertFresh
  <1>3. ASSUME NEW r \in Runs, NEW s \in Settings, InsertDuringSave(r, s) PROVE Rest
    <2>1. /\ jobs' = Enqueued(Replanned(s), runs', {r}, setting)
          /\ UNCHANGED <<sweep, pc, held, body>>
          /\ InsertRun(r) /\ runs[r] = 0 /\ ~Serial
          /\ jobs \in [JobKeys -> Rows] /\ setting \in Settings /\ VectorTypeOK
      BY <1>3 DEF InsertDuringSave, InsertRun, TypeOK
    <2>2. runs'[r] # 0 /\ \A x \in Runs : x # r => runs'[x] = runs[x]
      BY <2>1, InsertRunType
    <2>3. Replanned(s) \in [JobKeys -> Rows]
      BY <2>1, ReplannedType
    <2>4. \A k \in JobKeys : \/ jobs'[k] = jobs[k]
                             \/ jobs'[k].lease = NoLease
      BY <2>1, <2>3, EnqueuedRows, ReplannedRows
    <2> DEFINE there == runs'
    <2>7. \A k \in JobKeys : jobs'[k] = Replanned(s)[k] \/ there[k.run] # 0
      <3> HIDE DEF there
      <3>1. jobs' = Enqueued(Replanned(s), there, {r}, setting)
        BY <2>1 DEF there
      <3> QED BY <2>1, <2>3, <3>1, EnqueuedRows
    <2>8. \A k \in JobKeys : Replanned(s)[k] # NoRow => runs[k.run] # 0
      BY ReplannedRows DEF JobsStored
    <2>5. JobsStored' /\ Enabled'
      BY <2>1, <2>2, <2>7, <2>8 DEF JobsStored, Enabled, JobKeys
    <2>6. Fenced'
      BY <2>1, <2>2, <2>4, UnleasedFenced DEF JobsStored, JobKeys, Unleased
    <2> QED BY <2>1, <2>5, <2>6, InsertFresh
  <1>4. ASSUME NEW r \in Runs, Retain(r) PROVE Rest
    <2>1. /\ RetainRun(r) \/ RetainCommit(r)
          /\ jobs' = [k \in JobKeys |-> IF k.run = r THEN NoRow ELSE jobs[k]]
          /\ UNCHANGED <<setting, pc, held, body>>
      BY <1>4 DEF Retain, Forget
    <2>2. FreshVectors' /\ \A x \in Runs : x # r => runs'[x] = runs[x]
      BY <2>1, RetainFresh
    <2>3. JobsStored'
      BY <2>1, <2>2 DEF JobsStored, JobKeys
    <2>4. Enabled'
      BY <2>1 DEF Enabled, RetainRun, RetainCommit
    <2>5. Unleased
      BY <2>1 DEF Unleased, NoRow
    <2>6. Fenced'
      BY <2>1, <2>2, <2>5, UnleasedFenced DEF JobKeys
    <2> QED BY <2>2, <2>3, <2>4, <2>6
  <1>5. ASSUME NEW r \in Runs, RetainBegin(r) PROVE Rest
    BY <1>5 DEF RetainBegin, RetainSelect, queueVars, JobsStored, Fenced, Enabled, FreshVectors
  <1>6. ASSUME NEW retry \in BOOLEAN, Reindex(retry) PROVE Rest
    <2> DEFINE repaired == Enqueued(jobs, runs, Runs, setting)
    <2>1. /\ jobs' = [k \in JobKeys |-> IF retry /\ repaired[k].status \in {"done", "failed"}
                                       THEN NewRow(repaired[k].model) ELSE repaired[k]]
          /\ UNCHANGED <<vectorVars, setting, pc, held, body>>
      BY <1>6 DEF Reindex
    <2>2. repaired \in [JobKeys -> Rows]
      BY EnqueuedType DEF TypeOK
    <2>3. \A k \in JobKeys :
            \/ repaired[k] = jobs[k]
            \/ repaired[k].lease = NoLease /\ repaired[k].model = setting[k.profile] /\ runs[k.run] # 0
      BY EnqueuedRows DEF TypeOK
    <2>4. \A k \in JobKeys :
            repaired[k].status \in {"done", "failed"} =>
              repaired[k] # NoRow /\ NewRow(repaired[k].model).lease = NoLease
              /\ NewRow(repaired[k].model).model = repaired[k].model
      <3> HIDE DEF repaired
      <3> QED BY <2>2, NewRowType DEF Rows, NoRow
    <2> HIDE DEF repaired
    <2>5. \A k \in JobKeys :
            /\ jobs'[k] = jobs[k] \/ jobs'[k].lease = NoLease
            /\ jobs'[k] # NoRow => jobs[k] # NoRow \/ runs[k.run] # 0
            /\ \/ jobs'[k] = jobs[k]
               \/ jobs[k] # NoRow /\ jobs'[k].model = jobs[k].model
               \/ jobs'[k].model = setting[k.profile]
      BY <2>1, <2>3, <2>4
    <2>6. JobsStored' /\ Enabled'
      BY <2>1, <2>5 DEF JobsStored, Enabled, vectorVars
    <2>7. Fenced'
      BY <2>1, <2>5, UnleasedFenced DEF Unleased, vectorVars
    <2> QED BY <2>1, <2>6, <2>7 DEF FreshVectors, vectorVars
  <1>7. ASSUME NEW w \in Workers, Select(w) PROVE Rest
    BY <1>7 DEF Select, vectorVars, TypeOK, JobsStored, Fenced, Enabled, FreshVectors
  <1>8. ASSUME NEW w \in Workers, Claim(w) PROVE Rest
    <2>1. PICK c \in cand[w] :
            LET token == [by |-> w, at |-> seen[w]] IN
            \/ /\ Claimable(c, seen[w])
               /\ jobs' = [jobs EXCEPT ![c.key] = Claimed(jobs[c.key], token, seen[w] + Lease)]
               /\ held' = [held EXCEPT ![w] = [c EXCEPT !.lease = token]]
               /\ cand' = [cand EXCEPT ![w] = {}]
               /\ pc' = [pc EXCEPT ![w] = "read"]
            \/ /\ ~Claimable(c, seen[w])
               /\ cand' = [cand EXCEPT ![w] = @ \ {c}]
               /\ pc' = [pc EXCEPT ![w] = IF cand[w] = {c} THEN "idle" ELSE "claim"]
               /\ UNCHANGED <<jobs, held>>
      BY <1>8 DEF Claim
    <2>2. UNCHANGED <<vectorVars, setting, body>> /\ pc[w] = "claim"
      BY <1>8 DEF Claim
    <2> DEFINE token == [by |-> w, at |-> seen[w]]
    <2>3. CASE Claimable(c, seen[w])
      <3>1. c.key \in JobKeys /\ token \in Tokens /\ seen[w] + Lease \in Nat /\ c \in Candidates
        BY QueueAssumption DEF TypeOK, Candidates, Tokens
      <3> DEFINE row == Claimed(jobs[c.key], token, seen[w] + Lease)
      <3>2. /\ row.lease = token /\ row.model = jobs[c.key].model
            /\ jobs[c.key] # NoRow
        <4>1. jobs[c.key] \in Rows /\ jobs[c.key].status = "pending"
          BY <2>3, <3>1 DEF TypeOK, Claimable
        <4> QED BY <3>1, <4>1, ClaimedRow DEF NoRow
      <3> HIDE DEF row
      <3>3. /\ jobs' = [jobs EXCEPT ![c.key] = row]
            /\ held' = [held EXCEPT ![w] = [c EXCEPT !.lease = token]]
            /\ pc' = [pc EXCEPT ![w] = "read"]
        BY <2>1, <2>3 DEF row
      <3>4. JobsStored' /\ Enabled'
        BY <2>2, <3>1, <3>2, <3>3 DEF TypeOK, JobsStored, Enabled, vectorVars
      <3>5. [c EXCEPT !.lease = token].lease = token /\ token.by = w
        BY <3>1 DEF Candidates
      <3> HIDE DEF token
      <3>6. Fenced'
        <4> SUFFICES ASSUME NEW v \in Workers
                     PROVE  /\ pc'[v] \in {"read", "finish"} => held'[v].lease.by = v
                            /\ pc'[v] = "finish" /\ jobs'[held'[v].key].lease = held'[v].lease
                               => body'[v] = runs'[held'[v].key.run]
          BY DEF Fenced
        <4>1. CASE v = w
          BY <3>3, <3>5, <4>1 DEF TypeOK
        <4>2. CASE v # w
          <5>1. pc'[v] = pc[v] /\ held'[v] = held[v] /\ body' = body /\ runs' = runs
            BY <2>2, <3>3, <4>2 DEF TypeOK, vectorVars
          <5>2. ASSUME pc[v] = "finish", jobs'[held[v].key].lease = held[v].lease
                PROVE  jobs[held[v].key].lease = held[v].lease
            BY <3>1, <3>2, <3>3, <3>5, <4>2, <5>2 DEF TypeOK, Holding, Candidates, Fenced
          <5> QED BY <5>1, <5>2 DEF Fenced
        <4> QED BY <4>1, <4>2
      <3> QED BY <2>2, <3>4, <3>6 DEF FreshVectors, vectorVars
    <2>4. CASE ~Claimable(c, seen[w])
      <3>1. /\ pc' = [pc EXCEPT ![w] = IF cand[w] = {c} THEN "idle" ELSE "claim"]
            /\ UNCHANGED <<jobs, held>>
        BY <2>1, <2>4
      <3> QED BY <2>2, <3>1 DEF TypeOK, vectorVars, JobsStored, Fenced, Enabled, FreshVectors
    <2> QED BY <2>3, <2>4
  <1>9. ASSUME NEW w \in Workers, Read(w) PROVE Rest
    BY <1>9 DEF Read, vectorVars, TypeOK, JobsStored, Fenced, Enabled, FreshVectors
  <1>10. ASSUME NEW w \in Workers, Finish(w) PROVE Rest
    <2>1. PICK ok \in {FALSE} \cup {body[w] # 0} :
            /\ jobs' = IF Publishes(w)
                       THEN [jobs EXCEPT ![held[w].key] = Finished(jobs[held[w].key], held[w], ok)]
                       ELSE jobs
            /\ IF Publishes(w) /\ ok
               THEN \E d \in Dims :
                      StoreVector(held[w].key.run, held[w].model, [dim |-> d, of |-> body[w]])
               ELSE UNCHANGED <<vectors, generation>>
      BY <1>10 DEF Finish
    <2>2. /\ UNCHANGED <<runs, sweep, setting>> /\ pc[w] = "finish"
          /\ pc' = [pc EXCEPT ![w] = "idle"]
          /\ held' = [held EXCEPT ![w] = NoJob] /\ body' = [body EXCEPT ![w] = 0]
      BY <1>10 DEF Finish
    <2>3. held[w] \in Candidates /\ held[w].key \in JobKeys /\ held[w].key.run \in Runs
          /\ held[w].model \in Models
      BY <2>2 DEF Holding, Candidates, JobKeys
    <2>4. ASSUME Publishes(w)
          PROVE  jobs[held[w].key] # NoRow /\ body[w] = runs[held[w].key.run]
      BY <2>2, <2>3, <2>4, TokensDiffer DEF Publishes, Fenced, NoRow
    <2> DEFINE row == Finished(jobs[held[w].key], held[w], ok)
    <2>5. ASSUME Publishes(w)
          PROVE  row.lease = NoLease /\ row.model = jobs[held[w].key].model
      <3>1. jobs[held[w].key] \in Rows /\ jobs[held[w].key].status # "none"
        BY <2>3, <2>4, <2>5 DEF TypeOK, Rows
      <3> QED BY <2>3, <3>1, FinishedRow DEF TypeOK
    <2>6. jobs' = IF Publishes(w) THEN [jobs EXCEPT ![held[w].key] = row] ELSE jobs
      BY <2>1
    <2> HIDE DEF row
    <2>7. JobsStored' /\ Enabled'
      BY <2>2, <2>3, <2>4, <2>5, <2>6 DEF TypeOK, JobsStored, Enabled
    <2>8. Fenced'
      <3> SUFFICES ASSUME NEW v \in Workers
                   PROVE  /\ pc'[v] \in {"read", "finish"} => held'[v].lease.by = v
                          /\ pc'[v] = "finish" /\ jobs'[held'[v].key].lease = held'[v].lease
                             => body'[v] = runs'[held'[v].key.run]
        BY DEF Fenced
      <3>1. CASE v = w
        BY <2>2, <3>1 DEF TypeOK
      <3>2. CASE v # w
        <4>1. pc'[v] = pc[v] /\ held'[v] = held[v] /\ body'[v] = body[v] /\ runs' = runs
          BY <2>2, <3>2 DEF TypeOK
        <4>2. ASSUME pc[v] = "finish", jobs'[held[v].key].lease = held[v].lease
              PROVE  jobs[held[v].key].lease = held[v].lease
          BY <2>3, <2>5, <2>6, <4>2, TokensDiffer DEF TypeOK, Holding, Candidates
        <4> QED BY <4>1, <4>2 DEF Fenced
      <3> QED BY <3>1, <3>2
    <2>9. FreshVectors'
      <3>1. CASE Publishes(w) /\ ok
        <4>1. PICK d \in Dims :
                StoreVector(held[w].key.run, held[w].model, [dim |-> d, of |-> body[w]])
          BY <2>1, <3>1
        <4>2. [dim |-> d, of |-> body[w]].of = runs[held[w].key.run]
          BY <2>4, <3>1
        <4> DEFINE value == [dim |-> d, of |-> body[w]]
        <4>3. vectors' = IF runs[held[w].key.run] # 0
                         THEN [vectors EXCEPT ![held[w].key.run][held[w].model] = value] ELSE vectors
          BY <4>1 DEF StoreVector
        <4> HIDE DEF value
        <4> QED BY <2>2, <2>3, <4>2, <4>3 DEF TypeOK, VectorTypeOK, FreshVectors, value
      <3>2. CASE ~(Publishes(w) /\ ok)
        BY <2>1, <2>2, <3>2 DEF FreshVectors
      <3> QED BY <3>1, <3>2
    <2> QED BY <2>7, <2>8, <2>9
  <1>11. ASSUME NEW w \in Workers, Crash(w) PROVE Rest
    BY <1>11 DEF Crash, vectorVars, TypeOK, JobsStored, Fenced, Enabled, FreshVectors
  <1>12. ASSUME Tick PROVE Rest
    BY <1>12 DEF Tick, vectorVars, JobsStored, Fenced, Enabled, FreshVectors
  <1>13. ASSUME UNCHANGED vars PROVE Rest
    BY <1>13 DEF vars, vectorVars, queueVars, JobsStored, Fenced, Enabled, FreshVectors
  <1> QED
    BY <1>0, <1>1, <1>2, <1>3, <1>4, <1>5, <1>6, <1>7, <1>8, <1>9, <1>10, <1>11, <1>12, <1>13
       DEF Next, WorkerStep

\* However many workers, profiles and models, and whether or not transactions
\* overlap: a stored vector describes the execution stored under its run id.
THEOREM VectorsFresh == Spec => []FreshVectors
  <1>1. FreshInv => FreshVectors
    BY DEF FreshInv
  <1> QED BY <1>1, InitFresh, NextFresh, PTL DEF Spec

-----------------------------------------------------------------------------
(* What holds when transactions run one after the other.                   *)

\* Only the completion of a job adds or replaces a vector, under its model.
LEMMA PublishStep ==
  ASSUME FreshInv, [Next]_vars, NEW r \in Runs, NEW m \in Models,
         vectors'[r][m] # vectors[r][m], vectors'[r][m] # NoVector
  PROVE  \E k \in JobKeys : jobs[k] # NoRow /\ jobs[k].model = m
  <1>1. ASSUME NEW x \in Runs, Retain(x) PROVE FALSE
    <2>1. PICK models : DropRun(x, models)
      BY <1>1 DEF Retain, RetainRun, RetainCommit
    <2> QED BY <2>1 DEF DropRun, FreshInv, TypeOK, VectorTypeOK
  <1>2. ASSUME NEW w \in Workers, Finish(w)
        PROVE  \E k \in JobKeys : jobs[k] # NoRow /\ jobs[k].model = m
    <2>1. held[w] \in Candidates /\ held[w].key \in JobKeys /\ held[w].key.run \in Runs
          /\ held[w].model \in Models /\ pc[w] = "finish"
      BY <1>2 DEF Finish, FreshInv, Holding, Candidates, JobKeys
    <2>2. Publishes(w) /\ \E value :
             vectors' = [vectors EXCEPT ![held[w].key.run][held[w].model] = value]
      BY <1>2 DEF Finish, StoreVector
    <2>3. m = held[w].model
      BY <2>1, <2>2 DEF FreshInv, TypeOK, VectorTypeOK
    <2>4. jobs[held[w].key] # NoRow
      BY <2>1, <2>2, TokensDiffer DEF Publishes, FreshInv, NoRow
    <2> QED BY <2>1, <2>2, <2>3, <2>4 DEF Publishes
  <1>3. ASSUME UNCHANGED vectors PROVE FALSE
    BY <1>3
  <1> QED
    BY <1>1, <1>2, <1>3
       DEF Next, WorkerStep, SaveSettings, Insert, InsertDuringSave, InsertRun, RetainBegin,
           RetainSelect, Reindex, Select, Claim, Read, Crash, Tick, vars, vectorVars

\* On a database with one connection no vector is published under a model that
\* the settings in force do not enable: "Retired jobs cannot publish".
THEOREM RetiredSilent ==
  ASSUME Serial PROVE Spec => RetiredJobsSilent
  <1>1. FreshInv /\ [Next]_vars =>
          [\A r \in Runs, m \in Models :
             vectors'[r][m] # vectors[r][m] /\ vectors'[r][m] # NoVector
             => \E p \in Profiles : setting[p] = m]_vars
    <2> SUFFICES ASSUME FreshInv, [Next]_vars, NEW r \in Runs, NEW m \in Models,
                        vectors'[r][m] # vectors[r][m], vectors'[r][m] # NoVector
                 PROVE  \E p \in Profiles : setting[p] = m
      OBVIOUS
    <2>1. PICK k \in JobKeys : jobs[k] # NoRow /\ jobs[k].model = m
      BY PublishStep
    <2> QED BY <2>1, Serial DEF FreshInv, Enabled, JobKeys
  <1> QED BY <1>1, InitFresh, NextFresh, PTL DEF Spec, RetiredJobsSilent

\* On such a database whoever changes the vectors of a model leaves a generation
\* that was not in force before, so no cached index of it is served again.
THEOREM GenerationsAdvanced ==
  ASSUME Serial PROVE Spec => GenerationsAdvance
  <1>1. FreshInv /\ [Next]_vars => [Generations]_<<vectors, generation>>
    <2> SUFFICES ASSUME FreshInv, [Next]_vars PROVE Generations
      OBVIOUS
    <2>0. VectorTypeOK
      BY DEF FreshInv, TypeOK
    <2>1. ASSUME NEW x \in Runs, Retain(x) PROVE Generations
      <3>1. sweep = NoSweep /\ NoSweep.run = {}
        BY Serial DEF FreshInv, Enabled, NoSweep
      <3>2. RetainRun(x)
        BY <2>1, <3>1 DEF Retain, RetainCommit
      <3> QED BY <2>0, <3>2, RetainAdvances
    <2>2. ASSUME NEW w \in Workers, Finish(w) PROVE Generations
      <3>1. held[w].key.run \in Runs /\ held[w].model \in Models
        BY <2>2 DEF FreshInv, Finish, Holding, Candidates, JobKeys
      <3>2. \/ UNCHANGED <<vectors, generation>>
            \/ \E value : StoreVector(held[w].key.run, held[w].model, value)
        BY <2>2 DEF Finish
      <3> QED BY <2>0, <3>1, <3>2, StoreAdvances, KeptAdvances
    <2>3. CASE UNCHANGED <<vectors, generation>>
      BY <2>0, <2>3, KeptAdvances
    <2> QED
      BY <2>1, <2>2, <2>3
         DEF Next, WorkerStep, SaveSettings, Insert, InsertDuringSave, InsertRun, RetainBegin,
             RetainSelect, Reindex, Select, Claim, Read, Crash, Tick, vars, vectorVars
  <1> QED BY <1>1, InitFresh, NextFresh, PTL DEF Spec, GenerationsAdvance
=============================================================================
