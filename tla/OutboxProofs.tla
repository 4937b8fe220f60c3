---------------------------- MODULE OutboxProofs ----------------------------
(***************************************************************************)
(* Theorems about Outbox, for every set of runs, targets and workers and   *)
(* every value of the time constants.                                      *)
(***************************************************************************)
EXTENDS Outbox, TLAPS

\* The targets of a scope are ranked from 1 without gaps.
LEMMA RankType ==
  /\ Width \in {1, 2}
  /\ \A t \in Targets : Rank(t) \in {1, 2} /\ Rank(t) <= Width
  <1>1. CASE Targets = {"webhook", "s3"}
    BY <1>1 DEF Rank, Width
  <1>2. CASE Targets # {"webhook", "s3"}
    <2>1. \A t \in Targets : t = "s3" => "webhook" \notin Targets
      BY <1>2, OutboxAssumption
    <2> QED
      BY <1>2, <2>1 DEF Rank, Width
  <1> QED
    BY <1>1, <1>2

\* The placeholders for no row, no job and no sweep have the types of their tables.
LEMMA NoValues ==
  /\ NoRow \in Rows /\ NoJob \in Jobs /\ NoSweep \in [runs: SUBSET Runs, held: SUBSET Held]
  BY DEF NoRow, NoJob, NoSweep, Rows, Jobs

\* Enqueue and Bump keep the types of the tables they are applied to.
LEMMA EnqueueType ==
  ASSUME versions \in [Runs -> Nat], NEW rows \in [Keys -> Rows], NEW S \in SUBSET Runs,
         NEW op \in {"put", "delete"}
  PROVE  Enqueue(rows, S, op) \in [Keys -> Rows] /\ Bump(S) \in [Runs -> Nat]
  <1>1. \A k \in Keys : k.run \in Runs /\ k.target \in Targets
    BY DEF Keys
  <1>2. \A k \in Keys : versions[k.run] + Rank(k.target) \in Nat
    BY <1>1, RankType
  <1>3. \A k \in Keys : Requeued(rows[k], versions[k.run] + Rank(k.target)) \in Rows
    BY <1>2 DEF Requeued, Rows
  <1>4. Bump(S) \in [Runs -> Nat]
    BY OutboxAssumption DEF Bump, Width
  <1> QED
    BY <1>3, <1>4 DEF Enqueue

\* insert_tx keeps the types of runs, versions and outbox.
LEMMA WritePayloadType ==
  ASSUME TypeOK, NEW S \in SUBSET Runs, WritePayload(S)
  PROVE  TypeOK'
  <1>1. outbox' \in [Keys -> Rows] /\ versions' \in [Runs -> Nat]
    BY EnqueueType DEF TypeOK, WritePayload
  <1>2. runs' \in [Runs -> Nat]
    BY <1>1 DEF TypeOK, WritePayload
  <1> QED
    BY <1>1, <1>2 DEF TypeOK, WritePayload, workerVars, receiverVars

\* What retention finds leased is a set of keys.
LEMMA LeasesType ==
  ASSUME TypeOK, NEW S \in SUBSET Runs
  PROVE  LeasesOf(S) \in SUBSET Held
  <1>1. \A k \in Keys : /\ k.run \in Runs /\ k.target \in Targets
                        /\ outbox[k].avail \in Nat
    BY DEF TypeOK, Keys, Rows
  <1> QED
    BY <1>1 DEF LeasesOf, Held

\* retain_since keeps the types of runs, versions and outbox.
LEMMA RetainWritesType ==
  ASSUME TypeOK, NEW S \in SUBSET Runs, NEW held \in SUBSET Held, RetainWrites(S, held)
  PROVE  /\ runs' \in [Runs -> Nat] /\ versions' \in [Runs -> Nat]
         /\ outbox' \in [Keys -> Rows]
  <1> DEFINE Deletes == {k \in Keys : k.run \in S /\ k.op = "delete"}
             dropped == [k \in Keys |-> IF k.run \in S THEN NoRow ELSE outbox[k]]
             queued == Enqueue(dropped, S, "delete")
  <1>1. dropped \in [Keys -> Rows]
    BY NoValues DEF TypeOK
  <1>2. queued \in [Keys -> Rows] /\ Bump(S) \in [Runs -> Nat]
    BY <1>1, EnqueueType DEF TypeOK
  <1>3. {0} \cup {h.avail : h \in held} \subseteq Nat
    BY DEF Held
  <1>4. PICK due \in [Deletes -> {0} \cup {h.avail : h \in held}] :
          outbox' = [k \in Keys |-> IF k \in Deletes THEN [queued[k] EXCEPT !.avail = due[k]]
                                    ELSE queued[k]]
    BY DEF RetainWrites
  <1>5. \A k \in Deletes : due[k] \in Nat
    BY <1>3
  <1>6. \A k \in Deletes : [queued[k] EXCEPT !.avail = due[k]] \in Rows
    <2> SUFFICES ASSUME NEW k \in Deletes PROVE [queued[k] EXCEPT !.avail = due[k]] \in Rows
      OBVIOUS
    <2>1. queued[k] \in Rows
      BY <1>2
    <2> HIDE DEF queued
    <2> QED
      BY <2>1, <1>5 DEF Rows
  <1>7. outbox' \in [Keys -> Rows]
    <2> HIDE DEF queued, Deletes
    <2> QED BY <1>2, <1>4, <1>6
  <1>8. runs' \in [Runs -> Nat] /\ versions' \in [Runs -> Nat]
    BY <1>2 DEF RetainWrites, TypeOK
  <1> QED
    BY <1>7, <1>8

\* A request whose client went away stays a request, awaited by nobody.
LEMMA OrphanType ==
  ASSUME TypeOK, NEW w \in Workers, NEW dropped \in BOOLEAN, Orphan(w, dropped)
  PROVE  net' \subseteq Requests
  <1>1. \A m \in Requests : [m EXCEPT !.worker = NoOne] \in Requests
    BY DEF Requests
  <1> QED
    BY <1>1 DEF Orphan, TypeOK

\* A row that is claimed, or backed off, is a row of the outbox.
LEMMA RowType ==
  ASSUME NEW row \in Rows
  PROVE  /\ \A w \in Workers : \A until \in Nat : Claimed(row, w, until) \in Rows
         /\ now \in Nat => \A delay \in Nat : BackedOff(row, delay) \in Rows
  <1>1. \A w \in Workers : \A until \in Nat : Claimed(row, w, until) \in Rows
    BY DEF Claimed, Rows
  <1>2. \A due, attempts \in Nat :
          [row EXCEPT !.avail = due, !.lease = NoOne, !.attempts = attempts] \in Rows
    BY DEF Rows
  <1>3. row.attempts + 1 \in Nat
    BY DEF Rows
  <1>4. ASSUME now \in Nat, NEW delay \in Nat
        PROVE  BackedOff(row, delay) \in Rows
    <2>1. now + delay \in Nat
      BY <1>4
    <2> QED
      BY <1>2, <1>3, <2>1 DEF BackedOff
  <1> QED
    BY <1>1, <1>4

\* A worker with a job names an existing key of the outbox.
JobKeys == \A w \in Workers : pc[w] \in Holding => job[w].key \in Keys

\* A worker's step keeps every type.
LEMMA WorkerType ==
  ASSUME TypeOK, JobKeys, NEW w \in Workers,
         WorkerStep(w) \/ Fail(w) \/ Crash(w)
  PROVE  TypeOK' /\ JobKeys'
  <1> USE DEF workerVars, receiverVars
  <1>1. CASE Select(w)
    <2>1. {[key |-> k, version |-> outbox[k].version, avail |-> outbox[k].avail] : k \in Due}
            \subseteq Seen
      BY DEF TypeOK, Due, Seen, Rows
    <2> QED
      BY <1>1, <2>1 DEF Select, TypeOK, JobKeys, Holding
  <1>2. CASE Claim(w)
    <2>1. PICK c \in cand[w] :
            \/ /\ outbox' = [outbox EXCEPT ![c.key] =
                               Claimed(outbox[c.key], w, seen[w] + Lease)]
               /\ job' = [job EXCEPT ![w] =
                    [key |-> c.key, version |-> c.version, deadline |-> seen[w] + Lease,
                     attempts |-> outbox[c.key].attempts]]
               /\ cand' = [cand EXCEPT ![w] = {}]
               /\ pc' = [pc EXCEPT ![w] = "read"]
            \/ /\ cand' = [cand EXCEPT ![w] = @ \ {c}]
               /\ pc' = [pc EXCEPT ![w] = IF cand[w] = {c} THEN "idle" ELSE "claim"]
               /\ UNCHANGED <<outbox, job>>
      BY <1>2 DEF Claim
    <2>2. c.key \in Keys /\ c.version \in Nat /\ seen[w] + Lease \in Nat
      BY OutboxAssumption DEF TypeOK, Seen
    <2>3. outbox[c.key] \in Rows
      BY <2>2 DEF TypeOK
    <2>4. Claimed(outbox[c.key], w, seen[w] + Lease) \in Rows
      BY <2>2, <2>3, RowType
    <2>5. [key |-> c.key, version |-> c.version, deadline |-> seen[w] + Lease,
           attempts |-> outbox[c.key].attempts] \in Jobs
      BY <2>2, <2>3 DEF Rows, Jobs
    <2>6. outbox' \in [Keys -> Rows] /\ job' \in [Workers -> Jobs]
      <3>1. outbox \in [Keys -> Rows] /\ job \in [Workers -> Jobs]
        BY DEF TypeOK
      <3>2. CASE UNCHANGED <<outbox, job>>
        BY <3>1, <3>2
      <3>3. CASE outbox' = [outbox EXCEPT ![c.key] =
                              Claimed(outbox[c.key], w, seen[w] + Lease)]
        BY <3>1, <3>3, <2>1, <2>4, <2>5
      <3> QED
        BY <2>1, <3>2, <3>3
    <2>7. cand' \in [Workers -> SUBSET Seen] /\ seen' \in [Workers -> Nat]
      BY <1>2, <2>1 DEF TypeOK, Claim
    <2>8. JobKeys'
      BY <2>1, <2>2 DEF TypeOK, JobKeys, Holding
    <2>9. pc' \in [Workers -> {"idle", "claim", "read", "send", "wait", "ack", "retry"}]
      BY <2>1 DEF TypeOK
    <2>10. UNCHANGED <<runs, versions, now, body, net, inbox, receipts, object, sweep>>
      BY <1>2 DEF Claim
    <2> QED
      BY <2>6, <2>7, <2>8, <2>9, <2>10 DEF TypeOK
  <1>3. CASE Read(w)
    <2>1. runs[job[w].key.run] \in Nat
      BY <1>3 DEF Read, TypeOK, JobKeys, Holding, Keys
    <2> QED
      BY <1>3, <2>1 DEF Read, TypeOK, JobKeys, Holding
  <1>4. CASE Send(w)
    <2>1. Deadline(job[w].key) \in Nat
      BY OutboxAssumption DEF Deadline, TypeOK
    <2>2. job[w].key \in Keys /\ job[w] \in Jobs
      BY <1>4 DEF Send, JobKeys, Holding, TypeOK
    <2>3. [worker |-> w, key |-> job[w].key, version |-> job[w].version,
           body |-> body[w], until |-> Deadline(job[w].key)] \in Requests
      BY <2>1, <2>2 DEF Requests, Jobs, TypeOK
    <2> QED
      BY <1>4, <2>3 DEF Send, TypeOK, JobKeys, Holding
  <1>5. CASE Acknowledge(w)
    <2>1. outbox' \in [Keys -> Rows]
      BY <1>5, NoValues DEF Acknowledge, TypeOK
    <2> QED
      BY <1>5, <2>1, NoValues DEF Acknowledge, Release, TypeOK, JobKeys, Holding
  <1>6. CASE Retry(w)
    <2>1. job[w].key \in Keys /\ job[w] \in Jobs /\ outbox[job[w].key] \in Rows
      BY <1>6 DEF Retry, JobKeys, Holding, TypeOK
    <2>2. RetryDelay(job[w].attempts) \in Nat
      BY <2>1, OutboxAssumption DEF RetryDelay, Jobs
    <2>3. BackedOff(outbox[job[w].key], RetryDelay(job[w].attempts)) \in Rows
      BY <2>1, <2>2, RowType DEF TypeOK
    <2>4. outbox' \in [Keys -> Rows]
      BY <1>6, <2>1, <2>3 DEF Retry, TypeOK
    <2> QED
      BY <1>6, <2>4, NoValues DEF Retry, Release, TypeOK, JobKeys, Holding
  <1>7. CASE Fail(w)
    <2>1. net' \subseteq Requests
      BY <1>7, OrphanType, OutboxAssumption DEF Fail
    <2>2. JobKeys'
      BY <1>7 DEF Fail, TypeOK, JobKeys, Holding
    <2> QED
      BY <1>7, <2>1, <2>2 DEF Fail, TypeOK
  <1>8. CASE Crash(w)
    <2>1. net' \subseteq Requests
      BY <1>8, OrphanType DEF Crash
    <2>2. JobKeys'
      BY <1>8 DEF Crash, TypeOK, JobKeys, Holding
    <2> QED
      BY <1>8, <2>1, <2>2, NoValues DEF Crash, TypeOK
  <1> QED
    BY <1>1, <1>2, <1>3, <1>4, <1>5, <1>6, <1>7, <1>8 DEF WorkerStep

\* A request that is awaited is the one its worker sent for its job.
Awaited ==
  /\ \A m \in net : m.worker # NoOne =>
       /\ pc[m.worker] = "wait"
       /\ job[m.worker].key = m.key /\ job[m.worker].version = m.version
       /\ body[m.worker] = m.body
  /\ \A m, n \in net : m.worker = n.worker /\ m.worker # NoOne => m = n

\* Orphaning a worker's request leaves the others awaited by their workers.
LEMMA OrphanAwaited ==
  ASSUME TypeOK, Awaited, NEW w \in Workers, NEW dropped \in BOOLEAN, Orphan(w, dropped),
         NEW m \in net', m.worker # NoOne
  PROVE  m \in net /\ m.worker # w
  <1>1. PICK x \in net : m = IF x.worker = w THEN [x EXCEPT !.worker = NoOne] ELSE x
    BY DEF Orphan
  <1>2. CASE x.worker = w
    BY <1>1, <1>2 DEF TypeOK, Requests
  <1> QED
    BY <1>1, <1>2

\* A worker awaits at most one request, of the delivery it holds.
LEMMA WorkerAwaited ==
  ASSUME TypeOK, Awaited, NEW w \in Workers,
         WorkerStep(w) \/ Fail(w) \/ Crash(w)
  PROVE  Awaited'
  <1> USE DEF workerVars, receiverVars
  <1>0. \A m \in net : m.worker \in Workers \cup {NoOne}
    BY DEF TypeOK, Requests
  <1>1. CASE pc[w] # "wait" /\ net' = net /\ (\A v \in Workers \ {w} :
               pc'[v] = pc[v] /\ job'[v] = job[v] /\ body'[v] = body[v])
    BY <1>0, <1>1 DEF Awaited
  <1>2. CASE Select(w)
    BY <1>1, <1>2 DEF Select, TypeOK
  <1>3. CASE Claim(w)
    <2>1. \A v \in Workers \ {w} : pc'[v] = pc[v] /\ job'[v] = job[v] /\ body'[v] = body[v]
      BY <1>3 DEF Claim, TypeOK
    <2> QED
      BY <1>1, <1>3, <2>1 DEF Claim
  <1>4. CASE Read(w)
    BY <1>1, <1>4 DEF Read, TypeOK
  <1>5. CASE Acknowledge(w)
    BY <1>1, <1>5 DEF Acknowledge, Release, TypeOK
  <1>6. CASE Retry(w)
    BY <1>1, <1>6 DEF Retry, Release, TypeOK
  <1>7. CASE Send(w)
    <2> DEFINE n == [worker |-> w, key |-> job[w].key, version |-> job[w].version,
                     body |-> body[w], until |-> Deadline(job[w].key)]
    <2>1. /\ net' = net \cup {n} /\ n.worker = w /\ n.key = job[w].key
          /\ n.version = job[w].version /\ n.body = body[w]
      BY <1>7 DEF Send
    <2> HIDE DEF n
    <2>2. \A m \in net : m.worker # w
      BY <1>7, OutboxAssumption DEF Awaited, Send
    <2>3. pc' = [pc EXCEPT ![w] = "wait"] /\ UNCHANGED <<job, body>>
      BY <1>7 DEF Send
    <2> QED
      BY <1>0, <2>1, <2>2, <2>3 DEF Awaited, TypeOK
  <1>8. CASE Fail(w) \/ Crash(w)
    <2>1. \A m \in net' : m.worker # NoOne => m \in net /\ m.worker # w
      BY <1>8, OrphanAwaited, OutboxAssumption DEF Fail, Crash
    <2>2. \A v \in Workers \ {w} : pc'[v] = pc[v] /\ job'[v] = job[v] /\ body'[v] = body[v]
      BY <1>8 DEF Fail, Crash, TypeOK
    <2> QED
      BY <1>0, <2>1, <2>2 DEF Awaited
  <1> QED
    BY <1>2, <1>3, <1>4, <1>5, <1>6, <1>7, <1>8 DEF WorkerStep

\* A receiver's step keeps the types and answers only the worker that awaits.
LEMMA ReceiveStep ==
  ASSUME TypeOK, JobKeys, Awaited, NEW m \in net, Receive(m) \/ Lose(m)
  PROVE  TypeOK' /\ JobKeys' /\ Awaited'
  <1> USE DEF workerVars, receiverVars
  <1>1. CASE Lose(m)
    BY <1>1 DEF Lose, TypeOK, JobKeys, Awaited, Holding
  <1>2. m \in Requests /\ m.key \in Keys /\ m.key.run \in Runs
    BY DEF TypeOK, Requests, Keys
  <1>3. ASSUME Receive(m)
        PROVE  /\ UNCHANGED <<runs, versions, outbox, now, cand, seen, job, body, sweep>>
               /\ inbox' \in [Runs -> [version: Nat, payload: Nat, deleted: BOOLEAN]]
               /\ receipts' \subseteq [key: Keys, version: Nat, body: Nat]
               /\ object' \in [Runs -> Nat]
               /\ \E ok \in BOOLEAN : Answer(m, ok)
    <2>1. m.version \in Nat /\ m.body \in Nat
      BY <1>2 DEF Requests
    <2>2. CASE Accept(m)
      <3> DEFINE receipt == [key |-> m.key, version |-> m.version, body |-> m.body]
                 del == m.key.op = "delete"
                 entry == [version |-> m.version, deleted |-> del,
                           payload |-> IF del THEN 0 ELSE m.body]
      <3>1. receipt \in [key: Keys, version: Nat, body: Nat]
        BY <1>2, <2>1
      <3>2. entry \in [version: Nat, payload: Nat, deleted: BOOLEAN]
        BY <2>1
      <3>3. \/ /\ Answer(m, receipt \in receipts) /\ UNCHANGED <<inbox, receipts>>
            \/ /\ receipts' = receipts \cup {receipt} /\ Answer(m, TRUE)
               /\ inbox' = inbox \/ inbox' = [inbox EXCEPT ![m.key.run] = entry]
        BY <2>2 DEF Accept, Supersedes
      <3>4. (receipt \in receipts) \in BOOLEAN
        OBVIOUS
      <3>5. \E ok \in BOOLEAN : Answer(m, ok)
        BY <3>3, <3>4
      <3> HIDE DEF receipt, entry
      <3>6. inbox' \in [Runs -> [version: Nat, payload: Nat, deleted: BOOLEAN]]
        BY <3>2, <3>3 DEF TypeOK
      <3>7. receipts' \subseteq [key: Keys, version: Nat, body: Nat]
        BY <3>1, <3>3 DEF TypeOK
      <3> QED
        BY <1>3, <2>2, <3>5, <3>6, <3>7 DEF Receive, Accept, TypeOK
    <2>3. CASE Store(m)
      BY <1>2, <1>3, <2>1, <2>3 DEF Receive, Store, TypeOK
    <2> QED
      BY <1>3, <2>2, <2>3 DEF Receive
  <1>4. CASE Receive(m)
    <2>1. PICK ok \in BOOLEAN : Answer(m, ok)
      BY <1>3, <1>4
    <2>2. CASE m.worker = NoOne
      BY <1>3, <1>4, <2>1, <2>2 DEF Answer, TypeOK, JobKeys, Awaited
    <2>3. CASE m.worker # NoOne
      <3>1. m.worker \in Workers /\ pc[m.worker] = "wait" /\ job[m.worker].key \in Keys
        BY <1>2, <2>3 DEF Awaited, Requests
      <3>2. net' = net \ {m} /\ (pc' = pc \/ \E a \in {"ack", "retry"} :
                                     pc' = [pc EXCEPT ![m.worker] = a])
        BY <2>1, <2>3 DEF Answer
      <3>3. pc' \in [Workers -> {"idle", "claim", "read", "send", "wait", "ack", "retry"}]
        BY <3>1, <3>2 DEF TypeOK
      <3>4. TypeOK'
        BY <1>3, <1>4, <3>2, <3>3 DEF TypeOK
      <3>5. JobKeys'
        BY <1>3, <1>4, <3>1, <3>2 DEF TypeOK, JobKeys
      <3>6. Awaited'
        <4>1. \A n \in net' : n \in net /\ n.worker \in Workers \cup {NoOne}
                              /\ (n.worker # NoOne => n.worker # m.worker)
          BY <3>2, <2>3 DEF Awaited, TypeOK, Requests
        <4> QED
          BY <1>3, <1>4, <3>2, <4>1 DEF Awaited, TypeOK
      <3> QED
        BY <3>4, <3>5, <3>6
    <2> QED
      BY <2>2, <2>3
  <1> QED
    BY <1>1, <1>4

\* The inductive invariant holds initially.
LEMMA InitInv == Init => TypeOK /\ JobKeys /\ Awaited
  BY NoValues, OutboxAssumption DEF Init, TypeOK, JobKeys, Awaited, Holding

\* The inductive invariant is kept by every step.
LEMMA NextInv ==
  ASSUME TypeOK, JobKeys, Awaited, [Next]_vars
  PROVE  TypeOK' /\ JobKeys' /\ Awaited'
  <1> USE DEF workerVars, receiverVars
  <1>1. ASSUME NEW S \in SUBSET Runs, Insert(S) \/ Rotate(S)
        PROVE  TypeOK' /\ JobKeys' /\ Awaited'
    <2>1. WritePayload(S)
      BY <1>1 DEF Insert, Rotate
    <2> QED
      BY <2>1, WritePayloadType DEF WritePayload, JobKeys, Awaited
  <1>2. ASSUME NEW S \in SUBSET Runs, Retain(S)
        PROVE  TypeOK' /\ JobKeys' /\ Awaited'
    <2>1. RetainWrites(S, LeasesOf(S)) /\ UNCHANGED sweep
      BY <1>2 DEF Retain
    <2> QED
      BY <2>1, LeasesType, RetainWritesType DEF RetainWrites, TypeOK, JobKeys, Awaited
  <1>3. ASSUME NEW S \in SUBSET Runs, RetainSelect(S)
        PROVE  TypeOK' /\ JobKeys' /\ Awaited'
    <2>1. sweep' \in [runs: SUBSET Runs, held: SUBSET Held]
      BY <1>3, LeasesType DEF RetainSelect
    <2> QED
      BY <1>3, <2>1 DEF RetainSelect, TypeOK, JobKeys, Awaited
  <1>4. CASE RetainCommit
    <2>1. sweep.runs \in SUBSET Runs /\ sweep.held \in SUBSET Held
      BY DEF TypeOK
    <2>2. RetainWrites(sweep.runs, sweep.held) /\ sweep' = NoSweep
      BY <1>4 DEF RetainCommit
    <2> QED
      BY <2>1, <2>2, RetainWritesType, NoValues DEF RetainWrites, TypeOK, JobKeys, Awaited
  <1>5. ASSUME NEW w \in Workers, WorkerStep(w) \/ Fail(w) \/ Crash(w)
        PROVE  TypeOK' /\ JobKeys' /\ Awaited'
    BY <1>5, WorkerType, WorkerAwaited
  <1>6. ASSUME NEW m \in net, Receive(m) \/ Lose(m)
        PROVE  TypeOK' /\ JobKeys' /\ Awaited'
    BY <1>6, ReceiveStep
  <1>7. CASE Tick
    BY <1>7 DEF Tick, TypeOK, JobKeys, Awaited
  <1>8. CASE UNCHANGED vars
    BY <1>8 DEF vars, TypeOK, JobKeys, Awaited
  <1> QED
    BY <1>1, <1>2, <1>3, <1>4, <1>5, <1>6, <1>7, <1>8 DEF Next, Retention, Delivering

\* Every variable keeps its type, whatever the instance: no transaction, lease,
\* request or receipt is ever malformed.
THEOREM TypeCorrect == Spec => []TypeOK
  <1>1. Init => TypeOK /\ JobKeys /\ Awaited
    BY InitInv
  <1>2. TypeOK /\ JobKeys /\ Awaited /\ [Next]_vars => (TypeOK /\ JobKeys /\ Awaited)'
    BY NextInv
  <1> QED
    BY <1>1, <1>2, PTL DEF Spec

-----------------------------------------------------------------------------
(* The lease protocol.                                                     *)

\* Versions are drawn upwards: a row, a candidate and a job are no newer than
\* the counter of their run, and what a SELECT returned was due.
Bounded ==
  /\ \A k \in Keys : outbox[k].version <= versions[k.run]
  /\ \A w \in Workers : \A c \in cand[w] :
       0 < c.version /\ c.version <= versions[c.key.run] /\ c.avail <= now
  /\ \A w \in Workers : pc[w] \in Holding =>
       0 < job[w].version /\ job[w].version <= versions[job[w].key.run]

\* While a claim is unexpired its row carries its token and its deadline, or
\* was replaced: the id the worker holds names no row any more.
Leased ==
  \A w \in Workers :
    (pc[w] \in Holding /\ outbox[job[w].key].version = job[w].version)
    => \/ job[w].deadline <= now
       \/ outbox[job[w].key].lease = w /\ outbox[job[w].key].avail = job[w].deadline

LeaseInv == TypeOK /\ JobKeys /\ Awaited /\ Bounded /\ Leased /\ LeaseExclusive

\* What insert, rotation and retention of S have in common: each row of S for
\* the operation is enqueued under a version never drawn before, and each other
\* row of S stays or goes.
Rewritten(S, op) ==
  /\ UNCHANGED <<now, workerVars, net, receiverVars>>
  /\ \A r \in Runs :
       /\ versions'[r] = IF r \in S THEN versions[r] + Width ELSE versions[r]
       /\ runs'[r] = IF r \in S THEN (IF op = "put" THEN versions'[r] ELSE 0) ELSE runs[r]
  /\ \A k \in Keys :
       IF k.run \in S /\ k.op = op
       THEN outbox'[k].version = versions[k.run] + Rank(k.target)
       ELSE outbox'[k] = outbox[k] \/ (k.run \in S /\ outbox'[k].version = 0)

\* insert_tx rewrites a row under a version that was never assigned.
LEMMA WritePayloadRewrites ==
  ASSUME TypeOK, NEW S \in SUBSET Runs, WritePayload(S)
  PROVE  Rewritten(S, "put")
  <1>1. \A r \in Runs :
          /\ versions'[r] = IF r \in S THEN versions[r] + Width ELSE versions[r]
          /\ runs'[r] = IF r \in S THEN versions'[r] ELSE runs[r]
    BY DEF TypeOK, WritePayload, Bump
  <1>2. \A k \in Keys : outbox'[k] = IF k.run \in S /\ k.op = "put"
                                    THEN Requeued(outbox[k], versions[k.run] + Rank(k.target))
                                    ELSE outbox[k]
    BY DEF TypeOK, WritePayload, Enqueue
  <1>3. \A row, version : Requeued(row, version).version = version
    BY DEF Requeued
  <1>4. UNCHANGED <<now, workerVars, net, receiverVars>>
    BY DEF WritePayload
  <1> QED
    BY <1>1, <1>2, <1>3, <1>4 DEF Rewritten

\* So does retain_since.
LEMMA RetainWritesRewrites ==
  ASSUME TypeOK, NEW S \in SUBSET Runs, NEW held \in SUBSET Held, RetainWrites(S, held)
  PROVE  Rewritten(S, "delete")
  <1> DEFINE Deletes == {k \in Keys : k.run \in S /\ k.op = "delete"}
             dropped == [k \in Keys |-> IF k.run \in S THEN NoRow ELSE outbox[k]]
             queued == Enqueue(dropped, S, "delete")
  <1>1. \A r \in Runs :
          /\ versions'[r] = IF r \in S THEN versions[r] + Width ELSE versions[r]
          /\ runs'[r] = IF r \in S THEN 0 ELSE runs[r]
    BY DEF TypeOK, RetainWrites, Bump
  <1>3. \A k \in Keys : queued[k] = IF k \in Deletes
                                    THEN Requeued(dropped[k], versions[k.run] + Rank(k.target))
                                    ELSE dropped[k]
    BY DEF Enqueue
  <1>4. \A k \in Deletes : queued[k].version = versions[k.run] + Rank(k.target)
    <2> SUFFICES ASSUME NEW k \in Deletes
                 PROVE  queued[k].version = versions[k.run] + Rank(k.target)
      OBVIOUS
    <2> HIDE DEF queued, dropped
    <2>1. queued[k] = Requeued(dropped[k], versions[k.run] + Rank(k.target))
      BY <1>3
    <2>2. \A row, version : Requeued(row, version).version = version
      BY DEF Requeued
    <2> QED
      BY <2>1, <2>2
  <1>5. \A k \in Keys \ Deletes : queued[k] = outbox[k] \/ (k.run \in S /\ queued[k].version = 0)
    BY <1>3 DEF NoRow
  <1>6. queued \in [Keys -> Rows]
    BY NoValues, EnqueueType DEF TypeOK
  <1>7. PICK due \in [Deletes -> {0} \cup {h.avail : h \in held}] :
          outbox' = [k \in Keys |-> IF k \in Deletes THEN [queued[k] EXCEPT !.avail = due[k]]
                                    ELSE queued[k]]
    BY DEF RetainWrites
  <1>8. UNCHANGED <<now, workerVars, net, receiverVars>>
    BY DEF RetainWrites
  <1> HIDE DEF queued, dropped
  <1>9. \A k \in Deletes : outbox'[k].version = versions[k.run] + Rank(k.target)
    <2> SUFFICES ASSUME NEW k \in Deletes
                 PROVE  outbox'[k].version = versions[k.run] + Rank(k.target)
      OBVIOUS
    <2>1. outbox'[k] = [queued[k] EXCEPT !.avail = due[k]] /\ queued[k] \in Rows
      BY <1>6, <1>7
    <2>2. outbox'[k].version = queued[k].version
      BY <2>1 DEF Rows
    <2> QED
      BY <1>4, <2>2
  <1>10. \A k \in Keys \ Deletes :
           outbox'[k] = outbox[k] \/ (k.run \in S /\ outbox'[k].version = 0)
    BY <1>5, <1>7
  <1> QED
    BY <1>1, <1>8, <1>9, <1>10 DEF Rewritten

\* Rewriting rows under new versions leaves every unexpired lease exclusive.
LEMMA RewrittenLeases ==
  ASSUME TypeOK, TypeOK', JobKeys, Bounded, Leased, LeaseExclusive,
         NEW S \in SUBSET Runs, NEW op, Rewritten(S, op)
  PROVE  Bounded' /\ Leased' /\ LeaseExclusive'
  <1>0. /\ UNCHANGED <<now, workerVars>>
        /\ \A r \in Runs : versions[r] <= versions'[r]
        /\ \A k \in Keys : \/ outbox'[k] = outbox[k]
                           \/ outbox'[k].version = 0
                           \/ /\ versions[k.run] < outbox'[k].version
                              /\ outbox'[k].version <= versions'[k.run]
    <2>1. \A r \in Runs : /\ versions[r] \in Nat
                          /\ versions'[r] = IF r \in S THEN versions[r] + Width ELSE versions[r]
      BY DEF TypeOK, Rewritten
    <2>2. \A k \in Keys : k.run \in Runs /\ k.target \in Targets
      BY DEF Keys
    <2>3. \A k \in Keys : \/ outbox'[k] = outbox[k]
                          \/ outbox'[k].version = 0
                          \/ k.run \in S /\ outbox'[k].version = versions[k.run] + Rank(k.target)
      BY DEF Rewritten
    <2> QED
      BY <2>1, <2>2, <2>3, RankType DEF Rewritten
  <1>1. /\ \A k \in Keys : k.run \in Runs /\ outbox[k] \in Rows
        /\ \A w \in Workers : pc[w] \in Holding => job[w].key \in Keys /\ job[w].version \in Nat
        /\ \A w \in Workers : \A c \in cand[w] : c.key \in Keys /\ c.version \in Nat
    <2>1. \A k \in Keys : k.run \in Runs /\ outbox[k] \in Rows
      BY DEF TypeOK, Keys
    <2>2. \A w \in Workers : job[w] \in Jobs /\ cand[w] \subseteq Seen
      BY DEF TypeOK
    <2> QED
      BY <2>1, <2>2 DEF JobKeys, Seen, Jobs
  <1>2. \A r \in Runs : versions[r] \in Nat /\ versions'[r] \in Nat /\ versions[r] <= versions'[r]
    BY <1>0 DEF TypeOK
  <1>3. Bounded'
    BY <1>0, <1>1, <1>2 DEF Bounded, workerVars, Rows
  <1>4. Leased'
    BY <1>0, <1>1, <1>2 DEF Leased, Bounded, workerVars, Rows
  <1>5. LeaseExclusive'
    BY <1>0 DEF LeaseExclusive, workerVars
  <1> QED
    BY <1>3, <1>4, <1>5

\* The claim of a candidate replaces no claim that has not expired.
LEMMA ClaimLeases ==
  ASSUME TypeOK, JobKeys, Bounded, Leased, LeaseExclusive,
         NEW w \in Workers, Claim(w)
  PROVE  Bounded' /\ Leased' /\ LeaseExclusive'
  <1>0. /\ UNCHANGED <<versions, now>> /\ pc[w] = "claim"
        /\ \A k \in Keys : outbox[k] \in Rows
        /\ \A v \in Workers : job[v] \in Jobs /\ cand[v] \subseteq Seen
        /\ now \in Nat
    BY DEF Claim, TypeOK
  <1>1. CASE outbox' = outbox /\ job' = job /\ \A v \in Workers : cand'[v] \subseteq cand[v]
                /\ (pc'[v] \in Holding => pc[v] \in Holding)
    <2>1. Bounded'
      BY <1>0, <1>1 DEF Bounded
    <2>2. Leased' /\ LeaseExclusive'
      BY <1>0, <1>1 DEF Leased, LeaseExclusive
    <2> QED
      BY <2>1, <2>2
  <1>2. ASSUME NEW c \in cand[w], Unclaimed(c),
               outbox' = [outbox EXCEPT ![c.key] = Claimed(outbox[c.key], w, seen[w] + Lease)],
               job' = [job EXCEPT ![w] =
                  [key |-> c.key, version |-> c.version, deadline |-> seen[w] + Lease,
                   attempts |-> outbox[c.key].attempts]],
               cand' = [cand EXCEPT ![w] = {}], pc' = [pc EXCEPT ![w] = "read"]
        PROVE  Bounded' /\ Leased' /\ LeaseExclusive'
    <2>1. c.key \in Keys /\ c.version \in Nat /\ c.avail \in Nat
      BY <1>0 DEF Seen
    <2>2. /\ outbox[c.key].version = c.version /\ outbox[c.key].avail = c.avail
          /\ 0 < c.version /\ c.version <= versions[c.key.run] /\ c.avail <= now
      BY <1>2 DEF Unclaimed, Bounded
    <2>3. /\ outbox'[c.key].version = c.version /\ outbox'[c.key].lease = w
          /\ outbox'[c.key].avail = seen[w] + Lease
          /\ \A k \in Keys \ {c.key} : outbox'[k] = outbox[k]
      <3>1. outbox'[c.key] = Claimed(outbox[c.key], w, seen[w] + Lease)
        BY <1>2, <2>1 DEF TypeOK
      <3>2. outbox[c.key] \in Rows
        BY <1>0, <2>1
      <3> QED
        BY <1>2, <2>1, <2>2, <3>1, <3>2 DEF TypeOK, Claimed, Rows
    <2>4. /\ job'[w].key = c.key /\ job'[w].version = c.version
          /\ job'[w].deadline = seen[w] + Lease /\ pc'[w] = "read"
          /\ \A v \in Workers \ {w} : job'[v] = job[v] /\ pc'[v] = pc[v] /\ cand'[v] = cand[v]
          /\ cand'[w] = {}
      BY <1>2 DEF TypeOK
    <2>5. \A v \in Workers \ {w} :
            (pc[v] \in Holding /\ job[v].key = c.key /\ job[v].version = c.version)
            => job[v].deadline <= now
      <3> SUFFICES ASSUME NEW v \in Workers \ {w}, pc[v] \in Holding, job[v].key = c.key,
                          job[v].version = c.version
                   PROVE  job[v].deadline <= now
        OBVIOUS
      <3>1. \/ job[v].deadline <= now
            \/ outbox[c.key].avail = job[v].deadline
        BY <2>2 DEF Leased
      <3> QED
        BY <2>2, <3>1
    <2>6. Bounded'
      <3>1. \A k \in Keys : outbox'[k].version <= versions[k.run]
        BY <2>1, <2>2, <2>3 DEF Bounded
      <3>2. \A v \in Workers : \A d \in cand'[v] :
              0 < d.version /\ d.version <= versions[d.key.run] /\ d.avail <= now
        BY <2>4 DEF Bounded
      <3>3. \A v \in Workers : pc'[v] \in Holding =>
              0 < job'[v].version /\ job'[v].version <= versions[job'[v].key.run]
        BY <2>2, <2>4 DEF Bounded
      <3> QED
        BY <1>0, <3>1, <3>2, <3>3 DEF Bounded
    <2>7. Leased'
      <3> SUFFICES ASSUME NEW v \in Workers, pc'[v] \in Holding,
                          outbox'[job'[v].key].version = job'[v].version
                   PROVE  \/ job'[v].deadline <= now
                          \/ /\ outbox'[job'[v].key].lease = v
                             /\ outbox'[job'[v].key].avail = job'[v].deadline
        BY <1>0 DEF Leased
      <3>1. CASE v = w
        BY <2>3, <2>4, <3>1
      <3>2. CASE v # w /\ job[v].key = c.key
        BY <2>3, <2>4, <2>5, <3>2
      <3>3. CASE v # w /\ job[v].key # c.key
        BY <2>3, <2>4, <3>3 DEF Leased, JobKeys
      <3> QED
        BY <3>1, <3>2, <3>3
    <2>8. LeaseExclusive'
      BY <1>0, <2>4, <2>5 DEF LeaseExclusive
    <2> QED
      BY <2>6, <2>7, <2>8
  <1>3. PICK c \in cand[w] :
          \/ /\ Unclaimed(c)
             /\ outbox' = [outbox EXCEPT ![c.key] = Claimed(outbox[c.key], w, seen[w] + Lease)]
             /\ job' = [job EXCEPT ![w] =
                  [key |-> c.key, version |-> c.version, deadline |-> seen[w] + Lease,
                   attempts |-> outbox[c.key].attempts]]
             /\ cand' = [cand EXCEPT ![w] = {}]
             /\ pc' = [pc EXCEPT ![w] = "read"]
          \/ /\ cand' = [cand EXCEPT ![w] = @ \ {c}]
             /\ pc' = [pc EXCEPT ![w] = IF cand[w] = {c} THEN "idle" ELSE "claim"]
             /\ UNCHANGED <<outbox, job>>
    BY DEF Claim
  <1>4. CASE /\ cand' = [cand EXCEPT ![w] = @ \ {c}]
             /\ pc' = [pc EXCEPT ![w] = IF cand[w] = {c} THEN "idle" ELSE "claim"]
             /\ UNCHANGED <<outbox, job>>
    BY <1>1, <1>4 DEF TypeOK, Holding
  <1> QED
    BY <1>2, <1>3, <1>4

\* A worker that gives up its job, or moves on with it, changes no other lease.
LEMMA WorkerLeases ==
  ASSUME TypeOK, JobKeys, Bounded, Leased, LeaseExclusive,
         NEW w \in Workers, WorkerStep(w) \/ Fail(w) \/ Crash(w)
  PROVE  Bounded' /\ Leased' /\ LeaseExclusive'
  <1> USE DEF workerVars, receiverVars
  <1>0. /\ \A k \in Keys : outbox[k] \in Rows /\ k.run \in Runs
        /\ \A v \in Workers : job[v] \in Jobs /\ cand[v] \subseteq Seen
        /\ now \in Nat /\ \A r \in Runs : versions[r] \in Nat
    BY DEF TypeOK, Keys
  <1>1. ASSUME UNCHANGED <<versions, now>>,
               \A k \in Keys : \/ outbox'[k] = outbox[k]
                              \/ outbox'[k].version = 0
                              \/ /\ pc[w] \in Holding /\ outbox[k].lease = w
                                 /\ outbox'[k].version = outbox[k].version
                                 /\ pc'[w] \notin Holding,
               \A v \in Workers : cand'[v] \subseteq cand[v],
               \A v \in Workers : pc'[v] \in Holding => pc[v] \in Holding /\ job'[v] = job[v]
        PROVE  Bounded' /\ Leased' /\ LeaseExclusive'
    <2>1. Bounded'
      BY <1>0, <1>1 DEF Bounded
    <2>2. Leased'
      <3> SUFFICES ASSUME NEW v \in Workers, pc'[v] \in Holding,
                          outbox'[job'[v].key].version = job'[v].version
                   PROVE  \/ job'[v].deadline <= now
                          \/ /\ outbox'[job'[v].key].lease = v
                             /\ outbox'[job'[v].key].avail = job'[v].deadline
        BY <1>1 DEF Leased
      <3>1. job'[v] = job[v] /\ pc[v] \in Holding /\ job[v].key \in Keys /\ 0 < job[v].version
        BY <1>1 DEF JobKeys, Bounded
      <3>2. CASE outbox'[job[v].key] = outbox[job[v].key]
        BY <3>1, <3>2 DEF Leased
      <3>3. CASE /\ outbox[job[v].key].lease = w /\ v # w
                 /\ outbox'[job[v].key].version = outbox[job[v].key].version
        BY <3>1, <3>3 DEF Leased
      <3> QED
        BY <1>1, <3>1, <3>2, <3>3
    <2>3. LeaseExclusive'
      BY <1>1 DEF LeaseExclusive
    <2> QED
      BY <2>1, <2>2, <2>3
  <1>2. CASE Select(w)
    <2>1. UNCHANGED <<versions, now, outbox, job>> /\ \A v \in Workers \ {w} :
            cand'[v] = cand[v] /\ pc'[v] = pc[v]
      BY <1>2 DEF Select, TypeOK
    <2>2. pc'[w] = "claim" /\ \A c \in cand'[w] :
            \E k \in Due : c.key = k /\ c.version = outbox[k].version /\ c.avail = outbox[k].avail
      BY <1>2 DEF Select, TypeOK
    <2>3. \A c \in cand'[w] : 0 < c.version /\ c.version <= versions[c.key.run] /\ c.avail <= now
      BY <1>0, <2>2 DEF Due, Exists, Bounded, Rows
    <2>4. Bounded'
      BY <2>1, <2>2, <2>3 DEF Bounded, Holding
    <2>5. Leased' /\ LeaseExclusive'
      BY <2>1, <2>2 DEF Leased, LeaseExclusive, Holding
    <2> QED
      BY <2>4, <2>5
  <1>3. CASE Claim(w)
    BY <1>3, ClaimLeases
  <1>4. CASE Read(w)
    BY <1>1, <1>4 DEF Read, TypeOK, Holding
  <1>5. CASE Send(w)
    BY <1>1, <1>5 DEF Send, TypeOK, Holding
  <1>6. CASE Fail(w)
    BY <1>1, <1>6 DEF Fail, TypeOK, Holding
  <1>7. CASE Crash(w)
    BY <1>1, <1>7 DEF Crash, TypeOK, Holding
  <1>8. ASSUME Release(w)
        PROVE  /\ UNCHANGED <<versions, now, cand>> /\ pc'[w] = "idle"
               /\ \A v \in Workers \ {w} : pc'[v] = pc[v] /\ job'[v] = job[v]
    BY <1>8 DEF Release, TypeOK
  <1>9. CASE Acknowledge(w)
    <2>1. \A k \in Keys : outbox'[k] = outbox[k] \/ outbox'[k].version = 0
      BY <1>9 DEF Acknowledge, TypeOK, NoRow
    <2> QED
      BY <1>1, <1>8, <1>9, <2>1 DEF Acknowledge, Holding
  <1>10. CASE Retry(w)
    <2>1. pc[w] = "retry" /\ job[w].key \in Keys
      BY <1>10 DEF Retry, JobKeys, Holding
    <2>2. \A row \in Rows, delay \in Nat : BackedOff(row, delay).version = row.version
      BY DEF BackedOff, Rows
    <2>3. RetryDelay(job[w].attempts) \in Nat
      BY <1>0, OutboxAssumption DEF RetryDelay, Jobs
    <2>4. \A k \in Keys : \/ outbox'[k] = outbox[k]
                          \/ outbox[k].lease = w /\ outbox'[k].version = outbox[k].version
      BY <1>0, <1>10, <2>1, <2>2, <2>3 DEF Retry, Owns, TypeOK
    <2> QED
      BY <1>1, <1>8, <1>10, <2>1, <2>4 DEF Retry, Holding
  <1> QED
    BY <1>2, <1>3, <1>4, <1>5, <1>6, <1>7, <1>9, <1>10 DEF WorkerStep

\* No step makes two unexpired claims of one delivery.
LEMMA LeaseStep ==
  ASSUME LeaseInv, [Next]_vars
  PROVE  LeaseInv'
  <1> USE DEF LeaseInv
  <1>1. TypeOK' /\ JobKeys' /\ Awaited'
    BY NextInv
  <1>2. ASSUME NEW S \in SUBSET Runs, NEW op, Rewritten(S, op)
        PROVE  LeaseInv'
    BY <1>1, <1>2, RewrittenLeases
  <1>3. ASSUME NEW S \in SUBSET Runs, Insert(S) \/ Rotate(S)
        PROVE  LeaseInv'
    <2>1. Rewritten(S, "put")
      BY <1>3, WritePayloadRewrites DEF Insert, Rotate
    <2> QED
      BY <1>2, <2>1
  <1>4. CASE Retention
    <2>1. ASSUME NEW S \in SUBSET Runs, Retain(S)
          PROVE  LeaseInv'
      <3>1. Rewritten(S, "delete")
        BY <2>1, LeasesType, RetainWritesRewrites DEF Retain
      <3> QED
        BY <1>2, <3>1
    <2>2. CASE RetainCommit
      <3>1. sweep.runs \in SUBSET Runs /\ sweep.held \in SUBSET Held
        BY DEF TypeOK
      <3>2. Rewritten(sweep.runs, "delete")
        BY <2>2, <3>1, RetainWritesRewrites DEF RetainCommit
      <3> QED
        BY <1>2, <3>1, <3>2
    <2>3. ASSUME NEW S \in SUBSET Runs, RetainSelect(S)
          PROVE  LeaseInv'
      BY <1>1, <2>3 DEF RetainSelect, workerVars, Bounded, Leased, LeaseExclusive
    <2> QED
      BY <1>4, <2>1, <2>2, <2>3 DEF Retention
  <1>5. ASSUME NEW w \in Workers, WorkerStep(w) \/ Fail(w) \/ Crash(w)
        PROVE  LeaseInv'
    BY <1>1, <1>5, WorkerLeases
  <1>6. ASSUME NEW m \in net, Receive(m) \/ Lose(m)
        PROVE  LeaseInv'
    <2>1. UNCHANGED <<versions, outbox, now, cand, job>>
      BY <1>6 DEF Receive, Lose, workerVars
    <2>2. \A w \in Workers : pc'[w] \in Holding => pc[w] \in Holding
      <3>1. CASE UNCHANGED pc
        BY <3>1
      <3>2. CASE m.worker # NoOne /\ \E ok \in BOOLEAN :
                   pc' = [pc EXCEPT ![m.worker] = IF ok THEN "ack" ELSE "retry"]
        BY <3>2 DEF Awaited, TypeOK, Holding
      <3> QED
        BY <1>6, <3>1, <3>2 DEF Receive, Lose, Accept, Store, Answer, workerVars
    <2>3. Bounded'
      BY <2>1, <2>2 DEF Bounded
    <2>4. Leased' /\ LeaseExclusive'
      BY <2>1, <2>2 DEF Leased, LeaseExclusive
    <2> QED
      BY <1>1, <2>3, <2>4
  <1>7. CASE Tick
    <2>1. UNCHANGED <<versions, outbox, workerVars>> /\ now' = now + 1 /\ now \in Nat
      BY <1>7 DEF Tick, TypeOK
    <2>2. \A w \in Workers : job[w].deadline \in Nat /\ \A c \in cand[w] : c.avail \in Nat
      BY DEF TypeOK, Jobs, Seen
    <2>3. Bounded'
      BY <2>1, <2>2 DEF Bounded, workerVars
    <2>4. Leased'
      BY <2>1, <2>2 DEF Leased, workerVars
    <2>5. LeaseExclusive'
      BY <2>1, <2>2 DEF LeaseExclusive, workerVars
    <2> QED
      BY <1>1, <2>3, <2>4, <2>5
  <1>8. CASE UNCHANGED vars
    BY <1>1, <1>8 DEF vars, workerVars, Bounded, Leased, LeaseExclusive
  <1> QED
    BY <1>3, <1>4, <1>5, <1>6, <1>7, <1>8 DEF Next, Delivering

\* claim_outbox fences claims for any number of workers, whatever they crash
\* through, however long they stall and however often a row is re-enqueued.
THEOREM LeaseFencing == Spec => []LeaseExclusive
  <1>1. Init => LeaseInv
    BY InitInv DEF Init, LeaseInv, Bounded, Leased, LeaseExclusive, Holding, NoRow, Keys
  <1>2. LeaseInv /\ [Next]_vars => LeaseInv'
    BY LeaseStep
  <1>3. LeaseInv => LeaseExclusive
    BY DEF LeaseInv
  <1> QED
    BY <1>1, <1>2, <1>3, PTL DEF Spec
-----------------------------------------------------------------------------
(* The webhook inbox.                                                      *)

\* Version v of delivery k is the last one drawn for the webhook.
Latest(k, v) == k.target = "webhook" /\ v = Current(k.run, "webhook")

\* Version v of delivery k was drawn, and if it is the last one for the
\* webhook, k is the operation the database asks for.
Drawn(k, v) ==
  /\ 0 < v
  /\ k.target = "webhook" => v <= Current(k.run, "webhook")
  /\ Latest(k, v) => k = CurrentKey(k.run, "webhook")

\* Whatever carries the last version, a row, a job or a request, is of the
\* operation and the payload of the database; a row of that operation does.
Newest ==
  /\ \A k \in Keys : Exists(k) =>
       /\ Drawn(k, outbox[k].version)
       /\ k = CurrentKey(k.run, "webhook") => Latest(k, outbox[k].version)
  /\ \A w \in Workers : \A c \in cand[w] : Drawn(c.key, c.version)
  /\ \A w \in Workers : pc[w] \in Holding => Drawn(job[w].key, job[w].version)
  /\ \A w \in Workers : pc[w] \in {"send", "wait", "ack"} /\ Latest(job[w].key, job[w].version)
                          => body[w] = runs[job[w].key.run]
  /\ \A m \in net : /\ Drawn(m.key, m.version)
                    /\ Latest(m.key, m.version) => m.body = runs[m.key.run]

\* The inbox holds what the database holds.
Mirrored(r) ==
  inbox[r] = [version |-> Current(r, "webhook"), payload |-> runs[r], deleted |-> runs[r] = 0]

\* The inbox is as new as every receipt, and holds the payload of the last
\* version once it has that version, as it does when a worker got its answer.
Received ==
  /\ \A x \in receipts : x.version <= inbox[x.key.run].version
  /\ \A r \in Runs : inbox[r].version # 0 =>
       /\ inbox[r].version <= Current(r, "webhook")
       /\ inbox[r].version = Current(r, "webhook") => Mirrored(r)
  /\ \A w \in Workers : pc[w] = "ack" /\ Latest(job[w].key, job[w].version)
                          => Mirrored(job[w].key.run)

MirrorInv == TypeOK /\ JobKeys /\ Awaited /\ Newest /\ Received /\ WebhookMirror

\* The webhook has the first of the versions that a write draws.
LEMMA HookVersion ==
  /\ Rank("webhook") = 1 /\ Width \in {1, 2}
  /\ \A r : Current(r, "webhook") = versions[r] - Width + 1
  /\ \A r : Current(r, "webhook")' = versions'[r] - Width + 1
  BY RankType DEF Rank, Current

\* What insert, rotation and retention leave behind carries no last version any
\* more; what they enqueue does.
LEMMA RewrittenMirror ==
  ASSUME MirrorInv, TypeOK', NEW S \in SUBSET Runs, NEW op \in {"put", "delete"}, Rewritten(S, op)
  PROVE  Newest' /\ Received' /\ WebhookMirror'
  <1> USE DEF MirrorInv
  <1>0. /\ UNCHANGED <<now, pc, cand, seen, job, body, net, inbox, receipts, object>>
        /\ \A k \in Keys : k.run \in Runs /\ k.target \in Targets /\ k.op \in {"put", "delete"}
        /\ \A r \in Runs : versions[r] \in Nat /\ versions'[r] \in Nat /\ runs'[r] \in Nat
        /\ \A k \in Keys : outbox[k].version \in Nat /\ outbox'[k].version \in Nat
    BY DEF Rewritten, workerVars, receiverVars, TypeOK, Keys, Rows
  <1>1. ASSUME NEW r \in Runs, r \notin S
        PROVE  /\ versions'[r] = versions[r] /\ runs'[r] = runs[r]
               /\ Current(r, "webhook")' = Current(r, "webhook")
               /\ CurrentKey(r, "webhook")' = CurrentKey(r, "webhook")
    BY <1>1 DEF Rewritten, Current, CurrentKey
  <1>2. ASSUME NEW r \in S
        PROVE  /\ Current(r, "webhook") < Current(r, "webhook")'
               /\ CurrentKey(r, "webhook")' = [run |-> r, target |-> "webhook", op |-> op]
               /\ Current(r, "webhook")' = versions[r] + 1
    <2>1. versions'[r] = versions[r] + Width /\ runs'[r] = (IF op = "put" THEN versions'[r] ELSE 0)
      BY DEF Rewritten
    <2> QED
      BY <1>0, <2>1, HookVersion DEF CurrentKey
  <1>3. ASSUME NEW k \in Keys, NEW v \in Nat, Drawn(k, v)
        PROVE  /\ Drawn(k, v)'
               /\ Latest(k, v)' => Latest(k, v) /\ k.run \notin S
    <2>1. CASE k.run \in S
      <3>1. k.target = "webhook" => v < Current(k.run, "webhook")'
        <4>1. versions[k.run] \in Nat
          BY <1>0
        <4> QED
          BY <1>2, <1>3, <2>1, <4>1, HookVersion DEF Drawn
      <3> QED
        <4>1. Current(k.run, "webhook")' \in Int
          BY <1>0, HookVersion
        <4>2. ~Latest(k, v)'
          BY <3>1, <4>1 DEF Latest
        <4> QED
          BY <1>3, <3>1, <4>1, <4>2 DEF Drawn
    <2>2. CASE k.run \notin S
      BY <1>0, <1>1, <1>3, <2>2 DEF Drawn, Latest
    <2> QED
      BY <2>1, <2>2
  <1>4. ASSUME NEW k \in Keys, Exists(k)'
        PROVE  /\ Drawn(k, outbox[k].version)'
               /\ (k = CurrentKey(k.run, "webhook"))' => Latest(k, outbox[k].version)'
    <2>1. CASE k.run \in S /\ k.op = op
      <3>1. outbox'[k].version = versions[k.run] + Rank(k.target)
        BY <2>1 DEF Rewritten
      <3>2. k.target = "webhook" => k = [run |-> k.run, target |-> "webhook", op |-> op]
        BY <2>1 DEF Keys
      <3>3. versions[k.run] \in Nat /\ Rank(k.target) \in {1, 2}
        BY <1>0, RankType
      <3>4. k.target = "webhook" => Latest(k, outbox[k].version)' /\ (k = CurrentKey(k.run, "webhook"))'
        BY <1>2, <2>1, <3>1, <3>2, HookVersion DEF Latest
      <3>5. 0 < outbox'[k].version
        BY <3>1, <3>3
      <3>6. k.target # "webhook" => ~Latest(k, outbox[k].version)' /\ ~(k = CurrentKey(k.run, "webhook"))'
        BY DEF Latest, CurrentKey
      <3>7. Latest(k, outbox[k].version)' => (k.target = "webhook" => outbox'[k].version <= Current(k.run, "webhook")')
        BY <1>0 DEF Latest
      <3> QED
        BY <3>4, <3>5, <3>6, <3>7 DEF Drawn
    <2>2. CASE ~(k.run \in S /\ k.op = op)
      <3>1. outbox'[k] = outbox[k]
        BY <1>4, <2>2 DEF Rewritten, Exists
      <3>2. Exists(k) /\ Drawn(k, outbox[k].version)
        BY <1>4, <3>1 DEF Exists, Newest
      <3>3. Drawn(k, outbox[k].version)'
        BY <1>0, <1>3, <3>1, <3>2 DEF Drawn, Latest
      <3>4. (k = CurrentKey(k.run, "webhook"))' => k.run \notin S
        BY <1>2, <2>2
      <3>5. k.run \notin S /\ k = CurrentKey(k.run, "webhook") => Latest(k, outbox[k].version)'
        BY <1>0, <1>1, <3>1, <3>2 DEF Newest, Latest
      <3> QED
        BY <1>0, <1>1, <3>3, <3>4, <3>5
    <2> QED
      BY <2>1, <2>2
  <1>5. Newest'
    <2>1. \A w \in Workers : \A c \in cand[w] : c.key \in Keys /\ c.version \in Nat
      BY DEF TypeOK, Seen
    <2>2. \A w \in Workers : pc[w] \in Holding => job[w].key \in Keys /\ job[w].version \in Nat
      BY DEF TypeOK, JobKeys, Jobs
    <2>3. \A m \in net : m.key \in Keys /\ m.version \in Nat
      BY DEF TypeOK, Requests
    <2>4. \A w \in Workers : \A c \in cand'[w] : Drawn(c.key, c.version)'
      BY <1>0, <1>3, <2>1 DEF Newest
    <2>5. \A w \in Workers : pc'[w] \in Holding =>
            /\ Drawn(job[w].key, job[w].version)'
            /\ Latest(job[w].key, job[w].version)' =>
                 Latest(job[w].key, job[w].version) /\ runs'[job[w].key.run] = runs[job[w].key.run]
      BY <1>0, <1>1, <1>3, <2>2 DEF Newest
    <2>6. \A m \in net' : /\ Drawn(m.key, m.version)'
                          /\ Latest(m.key, m.version)' => m.body = runs'[m.key.run]
      BY <1>0, <1>1, <1>3, <2>3 DEF Newest
    <2> QED
      BY <1>0, <1>4, <2>4, <2>5, <2>6 DEF Newest, Holding
  <1>6. ASSUME NEW r \in Runs, r \notin S
        PROVE  Mirrored(r)' = Mirrored(r)
    BY <1>0, <1>1, <1>6 DEF Mirrored
  <1>7. Received'
    <2>1. ASSUME NEW r \in Runs, inbox'[r].version # 0
          PROVE  /\ inbox'[r].version <= Current(r, "webhook")'
                 /\ inbox'[r].version = Current(r, "webhook")' => Mirrored(r)'
      <3>1. inbox[r].version \in Nat /\ versions[r] \in Nat /\ versions'[r] \in Nat
        BY <1>0 DEF TypeOK
      <3>2. inbox[r].version <= Current(r, "webhook")
        BY <1>0, <2>1 DEF Received
      <3> QED
        BY <1>0, <1>1, <1>2, <1>6, <2>1, <3>1, <3>2, HookVersion DEF Received
    <2>2. ASSUME NEW w \in Workers, pc'[w] = "ack", Latest(job[w].key, job[w].version)'
          PROVE  Mirrored(job[w].key.run)'
      <3>1. job[w].key \in Keys /\ job[w].version \in Nat /\ Drawn(job[w].key, job[w].version)
        BY <1>0, <2>2 DEF TypeOK, JobKeys, Jobs, Newest, Holding
      <3>2. Latest(job[w].key, job[w].version) /\ job[w].key.run \in Runs \ S
        BY <1>0, <1>3, <2>2, <3>1
      <3> QED
        BY <1>0, <1>6, <2>2, <3>2 DEF Received
    <2> QED
      BY <1>0, <2>1, <2>2 DEF Received
  <1>8. WebhookMirror'
    <2> SUFFICES ASSUME "webhook" \in Targets, NEW r \in Runs, versions'[r] # 0,
                        ~Exists(CurrentKey(r, "webhook"))'
                 PROVE  Mirrored(r)'
      BY DEF WebhookMirror, Mirrored
    <2>1. CurrentKey(r, "webhook")' \in Keys
      BY DEF CurrentKey, Keys
    <2>2. CASE r \in S
      <3>1. CurrentKey(r, "webhook")' = [run |-> r, target |-> "webhook", op |-> op]
        BY <1>2, <2>2
      <3>2. outbox'[CurrentKey(r, "webhook")'].version = versions[r] + 1
        BY <2>1, <2>2, <3>1, HookVersion DEF Rewritten
      <3> QED
        BY <1>0, <3>2 DEF Exists
    <2>3. CASE r \notin S
      <3>1. CurrentKey(r, "webhook")' = CurrentKey(r, "webhook") /\ versions'[r] = versions[r]
        BY <1>1, <2>3
      <3>2. CurrentKey(r, "webhook").run = r
        BY DEF CurrentKey
      <3>3. outbox'[CurrentKey(r, "webhook")] = outbox[CurrentKey(r, "webhook")]
        BY <2>1, <2>3, <3>1, <3>2 DEF Rewritten
      <3>4. ~Exists(CurrentKey(r, "webhook"))
        BY <3>1, <3>3 DEF Exists
      <3> QED
        BY <1>6, <2>3, <3>1, <3>4 DEF WebhookMirror, Mirrored
    <2> QED
      BY <2>2, <2>3
  <1> QED
    BY <1>5, <1>7, <1>8

\* What Newest and Received say of a worker at p with job j and payload b.
Fits(p, j, b) ==
  /\ p \in Holding => Drawn(j.key, j.version)
  /\ p \in {"send", "wait", "ack"} /\ Latest(j.key, j.version) => b = runs[j.key.run]
  /\ p = "ack" /\ Latest(j.key, j.version) => Mirrored(j.key.run)

LEMMA WorkersFit == MirrorInv => \A w \in Workers : Fits(pc[w], job[w], body[w])
  BY DEF MirrorInv, Newest, Received, Fits, Holding

\* A step that writes neither the database nor the inbox, and drops a row only
\* when the inbox is up to date.
LEMMA SteadyMirror ==
  ASSUME MirrorInv, UNCHANGED <<runs, versions, inbox, receipts>>,
         \A k \in Keys : \/ outbox'[k].version = outbox[k].version
                         \/ /\ outbox'[k].version = 0
                            /\ k = CurrentKey(k.run, "webhook") => Mirrored(k.run),
         \A w \in Workers : \A c \in cand'[w] : Drawn(c.key, c.version),
         \A w \in Workers : Fits(pc'[w], job'[w], body'[w]),
         \A m \in net' : /\ Drawn(m.key, m.version)
                         /\ Latest(m.key, m.version) => m.body = runs[m.key.run]
  PROVE  Newest' /\ Received' /\ WebhookMirror'
  <1> USE DEF MirrorInv
  <1>1. /\ \A r : Current(r, "webhook")' = Current(r, "webhook")
        /\ \A r : CurrentKey(r, "webhook")' = CurrentKey(r, "webhook")
        /\ \A r : Mirrored(r)' = Mirrored(r)
    BY DEF Current, CurrentKey, Mirrored
  <1>2. /\ \A k, v : Drawn(k, v)' = Drawn(k, v)
        /\ \A k, v : Latest(k, v)' = Latest(k, v)
    BY <1>1 DEF Drawn, Latest
  <1>3. \A k \in Keys : Exists(k)' =>
          /\ Drawn(k, outbox[k].version)'
          /\ (k = CurrentKey(k.run, "webhook"))' => Latest(k, outbox[k].version)'
    BY <1>1, <1>2 DEF Newest, Exists
  <1>4. \A w \in Workers :
          /\ pc'[w] \in Holding => Drawn(job[w].key, job[w].version)'
          /\ pc'[w] \in {"send", "wait", "ack"} /\ Latest(job[w].key, job[w].version)'
               => body'[w] = runs'[job'[w].key.run]
          /\ pc'[w] = "ack" /\ Latest(job[w].key, job[w].version)'
               => Mirrored(job[w].key.run)'
    BY <1>1, <1>2 DEF Fits
  <1>5. Newest'
    BY <1>2, <1>3, <1>4 DEF Newest
  <1>6. Received'
    BY <1>1, <1>4 DEF Received
  <1>7. WebhookMirror'
    <2> SUFFICES ASSUME "webhook" \in Targets, NEW r \in Runs, versions'[r] # 0,
                        ~Exists(CurrentKey(r, "webhook"))'
                 PROVE  Mirrored(r)'
      BY DEF WebhookMirror, Mirrored
    <2>1. CurrentKey(r, "webhook") \in Keys /\ CurrentKey(r, "webhook").run = r
      BY DEF CurrentKey, Keys
    <2>2. outbox'[CurrentKey(r, "webhook")].version = 0
      BY <1>1 DEF Exists
    <2>3. ~Exists(CurrentKey(r, "webhook")) => Mirrored(r)
      BY DEF WebhookMirror, Mirrored
    <2> QED
      BY <1>1, <2>1, <2>2, <2>3 DEF Exists
  <1> QED
    BY <1>5, <1>6, <1>7

\* A worker passes on what it was given, and drops the row of the last version
\* only after the inbox has confirmed that version.
LEMMA WorkerMirror ==
  ASSUME MirrorInv, NEW w \in Workers, WorkerStep(w) \/ Fail(w) \/ Crash(w)
  PROVE  Newest' /\ Received' /\ WebhookMirror'
  <1> USE DEF MirrorInv, workerVars, receiverVars
  <1>0. /\ UNCHANGED <<runs, versions, inbox, receipts>>
        /\ \A v \in Workers : Fits(pc[v], job[v], body[v])
        /\ \A v \in Workers : \A c \in cand[v] : Drawn(c.key, c.version)
        /\ \A m \in net : /\ Drawn(m.key, m.version)
                          /\ Latest(m.key, m.version) => m.body = runs[m.key.run]
        /\ \A k \in Keys : outbox[k] \in Rows
    BY WorkersFit DEF WorkerStep, Select, Claim, Read, Send, Acknowledge, Retry, Fail, Crash,
                      Release, Newest, TypeOK
  <1>1. ASSUME \A k \in Keys : outbox'[k].version = outbox[k].version,
               \A v \in Workers : cand'[v] \subseteq cand[v],
               \A v \in Workers \ {w} : pc'[v] = pc[v] /\ job'[v] = job[v] /\ body'[v] = body[v],
               Fits(pc'[w], job'[w], body'[w]),
               net' = net
        PROVE  Newest' /\ Received' /\ WebhookMirror'
    <2>1. \A v \in Workers : Fits(pc'[v], job'[v], body'[v])
      BY <1>0, <1>1
    <2> QED
      BY <1>0, <1>1, <2>1, SteadyMirror
  <1>2. CASE Select(w)
    <2>1. \A c \in cand'[w] : \E k \in Due : c.key = k /\ c.version = outbox[k].version
      BY <1>2 DEF Select, TypeOK
    <2>2. \A c \in cand'[w] : Drawn(c.key, c.version)
      BY <2>1 DEF Due, Newest
    <2>3. \A v \in Workers : \A c \in cand'[v] : Drawn(c.key, c.version)
      BY <1>0, <1>2, <2>2 DEF Select, TypeOK
    <2>4. \A v \in Workers : Fits(pc'[v], job'[v], body'[v])
      <3>1. Fits("claim", job[w], body[w])
        BY DEF Fits, Holding
      <3> QED
        BY <1>0, <1>2, <3>1 DEF Select, TypeOK
    <2> QED
      BY <1>0, <1>2, <2>3, <2>4, SteadyMirror DEF Select
  <1>3. CASE Claim(w)
    <2>1. PICK c \in cand[w] :
            \/ /\ Unclaimed(c)
               /\ outbox' = [outbox EXCEPT ![c.key] = Claimed(outbox[c.key], w, seen[w] + Lease)]
               /\ job' = [job EXCEPT ![w] =
                    [key |-> c.key, version |-> c.version, deadline |-> seen[w] + Lease,
                     attempts |-> outbox[c.key].attempts]]
               /\ cand' = [cand EXCEPT ![w] = {}]
               /\ pc' = [pc EXCEPT ![w] = "read"]
            \/ /\ cand' = [cand EXCEPT ![w] = @ \ {c}]
               /\ pc' = [pc EXCEPT ![w] = IF cand[w] = {c} THEN "idle" ELSE "claim"]
               /\ UNCHANGED <<outbox, job>>
      BY <1>3 DEF Claim
    <2>2. Drawn(c.key, c.version) /\ c.key \in Keys
      BY <1>0 DEF TypeOK, Seen
    <2>3. \A row \in Rows : \A until : Claimed(row, w, until).version = row.version
      BY DEF Claimed, Rows
    <2>4. \A k \in Keys : outbox'[k].version = outbox[k].version
      BY <1>0, <2>1, <2>2, <2>3 DEF TypeOK
    <2>5. \A v \in Workers : cand'[v] \subseteq cand[v]
      BY <2>1 DEF TypeOK
    <2>6. \A v \in Workers \ {w} : pc'[v] = pc[v] /\ job'[v] = job[v] /\ body'[v] = body[v]
      BY <1>3, <2>1 DEF Claim, TypeOK
    <2>7. Fits(pc'[w], job'[w], body'[w])
      <3>1. \/ pc'[w] \in {"idle", "claim"}
            \/ pc'[w] = "read" /\ job'[w].key = c.key /\ job'[w].version = c.version
        BY <2>1 DEF TypeOK
      <3> QED
        BY <2>2, <3>1 DEF Fits, Holding
    <2> QED
      BY <1>1, <1>3, <2>4, <2>5, <2>6, <2>7 DEF Claim
  <1>4. CASE Read(w)
    <2>1. /\ job[w].key \in Keys /\ Drawn(job[w].key, job[w].version)
          /\ job'[w] = job[w] /\ body'[w] = runs[job[w].key.run]
          /\ pc'[w] = (IF job[w].key.op = "put" /\ body'[w] = 0 THEN "ack" ELSE "send")
      BY <1>4 DEF Read, JobKeys, Newest, Holding, TypeOK
    <2>2. Latest(job[w].key, job[w].version) => pc'[w] = "send"
      BY <2>1 DEF Drawn, CurrentKey
    <2>3. Fits(pc'[w], job'[w], body'[w])
      BY <2>1, <2>2 DEF Fits
    <2> QED
      BY <1>1, <1>4, <2>3 DEF Read, TypeOK
  <1>5. CASE Send(w)
    <2> DEFINE n == [worker |-> w, key |-> job[w].key, version |-> job[w].version,
                     body |-> body[w], until |-> Deadline(job[w].key)]
    <2>1. /\ net' = net \cup {n} /\ n.key = job[w].key
          /\ n.version = job[w].version /\ n.body = body[w]
      BY <1>5 DEF Send
    <2> HIDE DEF n
    <2>2. pc[w] = "send" /\ pc'[w] = "wait" /\ UNCHANGED <<job, body, cand, outbox>>
      BY <1>5 DEF Send, TypeOK
    <2>3. /\ Drawn(job[w].key, job[w].version)
          /\ Latest(job[w].key, job[w].version) => body[w] = runs[job[w].key.run]
      BY <2>2 DEF Newest, Holding
    <2>4. \A m \in net' : /\ Drawn(m.key, m.version)
                          /\ Latest(m.key, m.version) => m.body = runs[m.key.run]
      BY <1>0, <2>1, <2>3
    <2>5. Fits(pc'[w], job'[w], body'[w])
      BY <2>2, <2>3 DEF Fits, Holding
    <2>6. \A v \in Workers : Fits(pc'[v], job'[v], body'[v])
      BY <1>0, <1>5, <2>5 DEF Send, TypeOK
    <2> QED
      BY <1>0, <2>2, <2>4, <2>6, SteadyMirror
  <1>6. CASE Acknowledge(w)
    <2>1. pc[w] = "ack" /\ job[w].key \in Keys /\ Release(w)
      BY <1>6 DEF Acknowledge, JobKeys, Holding
    <2>2. ASSUME NEW k \in Keys
          PROVE  \/ outbox'[k].version = outbox[k].version
                 \/ /\ outbox'[k].version = 0
                    /\ k = CurrentKey(k.run, "webhook") => Mirrored(k.run)
      <3>1. CASE Owns(w) /\ outbox' = [outbox EXCEPT ![job[w].key] = NoRow] /\ k = job[w].key
        <4>1. outbox[k].version = job[w].version /\ 0 < job[w].version
          BY <2>1, <3>1 DEF Owns, Newest, Holding, Drawn
        <4>2. outbox'[k].version = 0
          BY <3>1 DEF TypeOK, NoRow
        <4>3. Exists(k)
          BY <4>1 DEF Exists, TypeOK, Jobs
        <4>4. k = CurrentKey(k.run, "webhook") => Latest(job[w].key, job[w].version)
          BY <3>1, <4>1, <4>3 DEF Newest
        <4> QED
          BY <2>1, <3>1, <4>2, <4>4 DEF Received
      <3>2. CASE outbox'[k] = outbox[k]
        BY <3>2
      <3> QED
        BY <1>6, <3>1, <3>2 DEF Acknowledge, TypeOK
    <2>3. Fits(pc'[w], job'[w], body'[w])
      BY <2>1 DEF Release, TypeOK, Fits, Holding
    <2>4. \A v \in Workers : Fits(pc'[v], job'[v], body'[v])
      BY <1>0, <2>1, <2>3 DEF Release, TypeOK
    <2> QED
      BY <1>0, <2>1, <2>2, <2>4, SteadyMirror DEF Release
  <1>7. CASE Retry(w)
    <2>1. job[w].key \in Keys /\ Release(w)
      BY <1>7 DEF Retry, JobKeys, Holding
    <2>2. \A row \in Rows : \A delay : BackedOff(row, delay).version = row.version
      BY DEF BackedOff, Rows
    <2>3. \A k \in Keys : outbox'[k].version = outbox[k].version
      BY <1>0, <1>7, <2>1, <2>2 DEF Retry, TypeOK
    <2>4. Fits(pc'[w], job'[w], body'[w])
      BY <2>1 DEF Release, TypeOK, Fits, Holding
    <2> QED
      BY <1>1, <2>1, <2>3, <2>4 DEF Release, TypeOK
  <1>8. CASE Fail(w) \/ Crash(w)
    <2>1. \A m \in net' : \E x \in net : m.key = x.key /\ m.version = x.version /\ m.body = x.body
      <3>1. \A x \in net : LET y == [x EXCEPT !.worker = NoOne]
                           IN  y.key = x.key /\ y.version = x.version /\ y.body = x.body
        BY DEF TypeOK, Requests
      <3>2. PICK dropped \in BOOLEAN : Orphan(w, dropped)
        BY <1>8, OutboxAssumption DEF Fail, Crash
      <3>3. \A m \in net' : \E x \in net : m = IF x.worker = w THEN [x EXCEPT !.worker = NoOne] ELSE x
        BY <3>2 DEF Orphan
      <3> QED
        BY <3>1, <3>3
    <2>2. \A m \in net' : /\ Drawn(m.key, m.version)
                          /\ Latest(m.key, m.version) => m.body = runs[m.key.run]
      BY <1>0, <2>1
    <2>3. /\ outbox' = outbox /\ pc'[w] \in {"idle", "retry"}
          /\ (pc'[w] = "retry" => pc[w] = "wait" /\ job'[w] = job[w])
          /\ \A v \in Workers \ {w} : pc'[v] = pc[v] /\ job'[v] = job[v] /\ body'[v] = body[v]
          /\ \A v \in Workers : cand'[v] \subseteq cand[v]
      BY <1>8 DEF Fail, Crash, TypeOK
    <2>4. Fits(pc'[w], job'[w], body'[w])
      BY <1>0, <2>3 DEF Fits, Holding
    <2>5. \A v \in Workers : Fits(pc'[v], job'[v], body'[v])
      BY <1>0, <2>3, <2>4
    <2> QED
      BY <1>0, <2>2, <2>3, <2>5, SteadyMirror
  <1> QED
    BY <1>2, <1>3, <1>4, <1>5, <1>6, <1>7, <1>8 DEF WorkerStep

\* A receiver that takes a request stores nothing newer than the database has,
\* and answers when it is as new as the request.
LEMMA ReceiveMirror ==
  ASSUME MirrorInv, NEW m \in net, Receive(m) \/ Lose(m)
  PROVE  Newest' /\ Received' /\ WebhookMirror'
  <1> USE DEF MirrorInv, workerVars, receiverVars
  <1>0. /\ UNCHANGED <<runs, versions, outbox, cand, job, body>> /\ net' \subseteq net
        /\ \/ pc' = pc
           \/ /\ m.worker # NoOne
              /\ \E a \in {"ack", "retry"} : pc' = [pc EXCEPT ![m.worker] = a]
    BY DEF Receive, Lose, Accept, Store, Answer
  <1>1. /\ m.key \in Keys /\ m.key.run \in Runs /\ m.version \in Nat /\ m.body \in Nat
        /\ m.worker \in Workers \cup {NoOne} /\ m.key.op \in {"put", "delete"}
        /\ Drawn(m.key, m.version)
        /\ Latest(m.key, m.version) => m.body = runs[m.key.run]
        /\ \A r \in Runs : inbox[r].version \in Nat /\ versions[r] \in Nat
    BY DEF TypeOK, Requests, Keys, Newest
  <1>2. /\ \A r : Current(r, "webhook")' = Current(r, "webhook")
        /\ \A r : CurrentKey(r, "webhook")' = CurrentKey(r, "webhook")
        /\ \A k, v : Drawn(k, v)' = Drawn(k, v)
        /\ \A k, v : Latest(k, v)' = Latest(k, v)
    BY <1>0 DEF Current, CurrentKey, Drawn, Latest
  <1>3. \A w \in Workers : pc'[w] # pc[w] =>
          /\ m.worker = w /\ pc[w] = "wait" /\ pc'[w] \in {"ack", "retry"}
          /\ job[w].key = m.key /\ job[w].version = m.version
    BY <1>0, <1>1 DEF Awaited, TypeOK
  <1>4. Newest'
    <2>1. \A k \in Keys : Exists(k)' =>
            /\ Drawn(k, outbox[k].version)'
            /\ (k = CurrentKey(k.run, "webhook"))' => Latest(k, outbox[k].version)'
      BY <1>0, <1>2 DEF Newest, Exists
    <2>2. \A w \in Workers :
            /\ pc'[w] \in Holding => pc[w] \in Holding
            /\ pc'[w] \in {"send", "wait", "ack"} => pc[w] \in {"send", "wait", "ack"}
      BY <1>3 DEF Holding
    <2>3. \A w \in Workers :
            /\ pc'[w] \in Holding => Drawn(job[w].key, job[w].version)'
            /\ pc'[w] \in {"send", "wait", "ack"} /\ Latest(job[w].key, job[w].version)'
                 => body'[w] = runs'[job'[w].key.run]
      BY <1>0, <1>2, <2>2 DEF Newest
    <2> QED
      BY <1>0, <1>2, <2>1, <2>3 DEF Newest
  <1>5. ASSUME NEW r \in Runs
        PROVE  /\ Mirrored(r) => inbox[r].version = Current(r, "webhook")
               /\ inbox'[r] = inbox[r] => Mirrored(r)' = Mirrored(r)
    BY <1>0, <1>2 DEF Mirrored
  <1>6. /\ \A r \in Runs :
             \/ inbox'[r] = inbox[r]
             \/ /\ r = m.key.run /\ m.key.target = "webhook"
                /\ inbox[r].version < m.version
                /\ inbox'[r] = [version |-> m.version, deleted |-> m.key.op = "delete",
                                payload |-> IF m.key.op = "delete" THEN 0 ELSE m.body]
        /\ \A x \in receipts' : x \in receipts \/ (x.key = m.key /\ x.version = m.version
                                                   /\ m.version <= inbox'[m.key.run].version)
        /\ \A w \in Workers : pc'[w] = "ack" /\ pc[w] # "ack" /\ m.key.target = "webhook"
                                => m.version <= inbox'[m.key.run].version
    <2>1. CASE UNCHANGED <<inbox, receipts, pc>>
      BY <2>1
    <2>2. CASE Store(m) /\ UNCHANGED <<inbox, receipts>>
      BY <2>2 DEF Store
    <2>3. CASE Accept(m)
      <3> DEFINE receipt == [key |-> m.key, version |-> m.version, body |-> m.body]
                 entry == [version |-> m.version, deleted |-> m.key.op = "delete",
                           payload |-> IF m.key.op = "delete" THEN 0 ELSE m.body]
      <3>1. CASE UNCHANGED <<inbox, receipts>> /\ Answer(m, receipt \in receipts)
        <4>1. ASSUME NEW w \in Workers, pc'[w] = "ack", pc[w] # "ack"
              PROVE  m.version <= inbox'[m.key.run].version
          <5>1. receipt \in receipts
            BY <1>1, <3>1, <4>1 DEF Answer, TypeOK
          <5> QED
            BY <3>1, <5>1 DEF Received
        <4> QED
          BY <3>1, <4>1
      <3>2. CASE /\ receipts' = receipts \cup {receipt}
                 /\ inbox' = IF m.version > inbox[m.key.run].version
                             THEN [inbox EXCEPT ![m.key.run] = entry] ELSE inbox
        <4>1. /\ receipt.key = m.key /\ receipt.version = m.version /\ entry.version = m.version
          OBVIOUS
        <4>2. \A r \in Runs : \/ inbox'[r] = inbox[r]
                              \/ /\ r = m.key.run /\ inbox[r].version < m.version
                                 /\ inbox'[r] = entry
          BY <1>1, <3>2 DEF TypeOK
        <4>3. m.version <= inbox'[m.key.run].version
          BY <1>1, <3>2, <4>1 DEF TypeOK
        <4> HIDE DEF receipt
        <4>4. \A x \in receipts' : x \in receipts \/ (x.key = m.key /\ x.version = m.version)
          BY <3>2, <4>1
        <4> QED
          BY <2>3, <4>2, <4>3, <4>4 DEF Accept, Supersedes
      <3> QED
        BY <2>3, <3>1, <3>2 DEF Accept, Supersedes
    <2> QED
      BY <2>1, <2>2, <2>3 DEF Receive, Lose, Store
  <1>7. ASSUME NEW r \in Runs
        PROVE  /\ inbox[r].version <= inbox'[r].version
               /\ inbox'[r].version # 0 =>
                    /\ inbox'[r].version <= Current(r, "webhook")
                    /\ inbox'[r].version = Current(r, "webhook") => Mirrored(r)'
    <2>1. CASE inbox'[r] = inbox[r]
      BY <1>1, <1>5, <2>1 DEF Received
    <2>2. CASE inbox'[r] # inbox[r]
      <3>1. /\ r = m.key.run /\ m.key.target = "webhook" /\ inbox[r].version < m.version
            /\ inbox'[r] = [version |-> m.version, deleted |-> m.key.op = "delete",
                            payload |-> IF m.key.op = "delete" THEN 0 ELSE m.body]
        BY <1>6, <2>2
      <3>2. m.version <= Current(r, "webhook")
        BY <1>1, <3>1 DEF Drawn
      <3>3. ASSUME m.version = Current(r, "webhook")
            PROVE  Mirrored(r)'
        <4>1. Latest(m.key, m.version)
          BY <3>1, <3>3 DEF Latest
        <4>2. m.key.op = (IF runs[r] = 0 THEN "delete" ELSE "put") /\ m.body = runs[r]
          BY <1>1, <3>1, <4>1 DEF Drawn, CurrentKey
        <4> QED
          BY <1>0, <1>2, <3>1, <3>3, <4>2 DEF Mirrored
      <3> QED
        BY <1>1, <3>1, <3>2, <3>3
    <2> QED
      BY <2>1, <2>2
  <1>8. ASSUME NEW r \in Runs, Mirrored(r)
        PROVE  Mirrored(r)'
    <2>1. inbox[r].version = Current(r, "webhook")
      BY <1>5, <1>8
    <2>2. inbox'[r] = inbox[r]
      <3>1. r = m.key.run /\ m.key.target = "webhook" => m.version <= inbox[r].version
        BY <1>1, <2>1 DEF Drawn
      <3> QED
        BY <1>1, <1>6, <3>1
    <2> QED
      BY <1>5, <1>8, <2>2
  <1>9. Received'
    <2>1. \A x \in receipts' : x.version <= inbox'[x.key.run].version
      <3> SUFFICES ASSUME NEW x \in receipts'
                   PROVE  x.version <= inbox'[x.key.run].version
        OBVIOUS
      <3>1. CASE x \in receipts
        <4>1. x.key.run \in Runs /\ x.version \in Nat
          BY <3>1 DEF TypeOK, Keys
        <4>2. x.version <= inbox[x.key.run].version
          BY <3>1 DEF Received
        <4>3. inbox[x.key.run].version \in Nat
          BY <1>1, <4>1
        <4>4. inbox'[x.key.run].version \in Nat
          BY <1>1, <1>6, <4>1
        <4> QED
          BY <1>7, <4>1, <4>2, <4>3, <4>4
      <3> QED
        BY <1>6, <3>1
    <2>2. ASSUME NEW w \in Workers, pc'[w] = "ack", Latest(job[w].key, job[w].version)'
          PROVE  Mirrored(job[w].key.run)'
      <3>0. Latest(job[w].key, job[w].version)
        BY <1>0, <1>2, <2>2
      <3>1. CASE pc[w] = "ack"
        <4>1. job[w].key.run \in Runs
          BY <3>1 DEF JobKeys, Holding, Keys
        <4> QED
          BY <1>0, <1>8, <3>0, <3>1, <4>1 DEF Received
      <3>2. CASE pc[w] # "ack"
        <4>1. job[w].key = m.key /\ job[w].version = m.version
          BY <1>3, <2>2, <3>2
        <4>2. m.key.target = "webhook" /\ m.version = Current(m.key.run, "webhook")
          BY <3>0, <4>1 DEF Latest
        <4>3. m.version <= inbox'[m.key.run].version
          BY <1>6, <2>2, <3>2, <4>2
        <4>4. 0 < m.version
          BY <1>1 DEF Drawn
        <4>5. inbox'[m.key.run].version \in Nat
          BY <1>1, <1>6
        <4> QED
          BY <1>0, <1>1, <1>7, <4>1, <4>2, <4>3, <4>4, <4>5
      <3> QED
        BY <3>1, <3>2
    <2>3. \A r \in Runs : inbox'[r].version # 0 =>
            /\ inbox'[r].version <= Current(r, "webhook")'
            /\ inbox'[r].version = Current(r, "webhook")' => Mirrored(r)'
      BY <1>2, <1>7
    <2> QED
      BY <1>0, <2>1, <2>2, <2>3 DEF Received
  <1>10. WebhookMirror'
    <2> SUFFICES ASSUME "webhook" \in Targets, NEW r \in Runs, versions'[r] # 0,
                        ~Exists(CurrentKey(r, "webhook"))'
                 PROVE  Mirrored(r)'
      BY DEF WebhookMirror, Mirrored
    <2>1. Mirrored(r)
      BY <1>0, <1>2 DEF WebhookMirror, Mirrored, Exists
    <2> QED
      BY <1>8, <2>1
  <1> QED
    BY <1>4, <1>9, <1>10

\* No step leaves the inbox behind a database that is done with its row.
LEMMA MirrorStep ==
  ASSUME MirrorInv, [Next]_vars
  PROVE  MirrorInv'
  <1> USE DEF MirrorInv
  <1>1. TypeOK' /\ JobKeys' /\ Awaited'
    BY NextInv
  <1>2. ASSUME NEW S \in SUBSET Runs, NEW op \in {"put", "delete"}, Rewritten(S, op)
        PROVE  MirrorInv'
    BY <1>1, <1>2, RewrittenMirror
  <1>3. ASSUME NEW S \in SUBSET Runs, Insert(S) \/ Rotate(S)
        PROVE  MirrorInv'
    <2>1. Rewritten(S, "put")
      BY <1>3, WritePayloadRewrites DEF Insert, Rotate
    <2> QED
      BY <1>2, <2>1
  <1>4. ASSUME UNCHANGED <<runs, versions, outbox, workerVars, net, receiverVars>>
        PROVE  MirrorInv'
    <2>1. /\ \A k \in Keys : outbox'[k].version = outbox[k].version
          /\ \A w \in Workers : \A c \in cand'[w] : Drawn(c.key, c.version)
          /\ \A w \in Workers : Fits(pc'[w], job'[w], body'[w])
          /\ \A m \in net' : /\ Drawn(m.key, m.version)
                             /\ Latest(m.key, m.version) => m.body = runs[m.key.run]
      BY <1>4, WorkersFit DEF workerVars, Newest
    <2> QED
      BY <1>1, <1>4, <2>1, SteadyMirror DEF receiverVars
  <1>5. CASE Retention
    <2>1. ASSUME NEW S \in SUBSET Runs, Retain(S)
          PROVE  MirrorInv'
      <3>1. Rewritten(S, "delete")
        BY <2>1, LeasesType, RetainWritesRewrites DEF Retain
      <3> QED
        BY <1>2, <3>1
    <2>2. CASE RetainCommit
      <3>1. sweep.runs \in SUBSET Runs /\ sweep.held \in SUBSET Held
        BY DEF TypeOK
      <3>2. Rewritten(sweep.runs, "delete")
        BY <2>2, <3>1, RetainWritesRewrites DEF RetainCommit
      <3> QED
        BY <1>2, <3>1, <3>2
    <2>3. ASSUME NEW S \in SUBSET Runs, RetainSelect(S)
          PROVE  MirrorInv'
      BY <1>4, <2>3 DEF RetainSelect
    <2> QED
      BY <1>5, <2>1, <2>2, <2>3 DEF Retention
  <1>6. ASSUME NEW w \in Workers, WorkerStep(w) \/ Fail(w) \/ Crash(w)
        PROVE  MirrorInv'
    BY <1>1, <1>6, WorkerMirror
  <1>7. ASSUME NEW m \in net, Receive(m) \/ Lose(m)
        PROVE  MirrorInv'
    BY <1>1, <1>7, ReceiveMirror
  <1>8. CASE Tick \/ UNCHANGED vars
    BY <1>4, <1>8 DEF Tick, vars
  <1> QED
    BY <1>3, <1>5, <1>6, <1>7, <1>8 DEF Next, Delivering

\* Nothing is stored, so nothing has to be mirrored.
LEMMA MirrorInit == Init => MirrorInv
  <1> SUFFICES ASSUME Init PROVE MirrorInv
    OBVIOUS
  <1>1. TypeOK /\ JobKeys /\ Awaited
    BY InitInv
  <1>2. Newest
    BY DEF Init, Newest, Exists, NoRow, Holding
  <1>3. Received
    BY DEF Init, Received
  <1>4. WebhookMirror
    BY DEF Init, WebhookMirror
  <1> QED
    BY <1>1, <1>2, <1>3, <1>4 DEF MirrorInv

\* A webhook inbox ends as the database does, for any number of runs and
\* workers, whatever is lost, repeated or late and however claims run out.
THEOREM WebhookMirrors == Spec => []WebhookMirror
  <1>1. Init => MirrorInv
    BY MirrorInit
  <1>2. MirrorInv /\ [Next]_vars => MirrorInv'
    BY MirrorStep
  <1>3. MirrorInv => WebhookMirror
    BY DEF MirrorInv
  <1> QED
    BY <1>1, <1>2, <1>3, PTL DEF Spec

-----------------------------------------------------------------------------
(* The object store.                                                       *)

\* What may still reach the object store: the delivery of a worker that is about
\* to send it, with the last instant before its deadline, and a request on its
\* way, with the last instant at which it is served.
Sending(w) == pc[w] \in {"read", "send"} /\ job[w].key.target = "s3"
Open(m) == m.key.target = "s3" /\ now <= m.until
Promise(w) == [worker |-> w, key |-> job[w].key, version |-> job[w].version,
               until |-> job[w].deadline - 1]
Asked(m) == [worker |-> m.worker, key |-> m.key, version |-> m.version, until |-> m.until]
Engaged == {Promise(w) : w \in {x \in Workers : Sending(x)}}
           \cup {Asked(m) : m \in {x \in net : Open(x)}}

\* A run has one row for the object store, of the operation the database asks for.
OneRow ==
  \A k \in Keys : k.target = "s3" /\ Exists(k) => k = CurrentKey(k.run, "s3")

\* A worker sends what it claimed no later than MaxStall after its SELECT.
Paced ==
  \A w \in Workers :
    /\ pc[w] \in {"claim", "read", "send"} => now <= seen[w] + MaxStall
    /\ pc[w] \in {"read", "send"} => job[w].deadline = seen[w] + Lease

\* A request carries a version that was drawn.
NetBounded == \A m \in net : 0 < m.version /\ m.version <= versions[m.key.run]

\* While a delivery may still be served, the row of its run is not due; until the
\* row is replaced it is leased; and what may reach the object of a stored run is
\* a PUT.
FencedBy(a) ==
  /\ Exists(CurrentKey(a.key.run, "s3"))
  /\ a.until < outbox[CurrentKey(a.key.run, "s3")].avail
  /\ outbox[a.key].version = a.version => outbox[a.key].lease # NoOne
  /\ runs[a.key.run] # 0 => a.key.op = "put"
Fenced ==
  /\ \A a \in Engaged : FencedBy(a)
  /\ \A a, b \in Engaged : a.key.run = b.key.run => a.key = b.key

\* A worker that owns its row is the only one whose delivery may be served; it
\* sends the stored payload, and has its answer when the object holds that.
Owned(w) == pc[w] \in Holding /\ job[w].key.target = "s3" /\ Owns(w)
Alone(w) == \A a \in Engaged : a.key.run = job[w].key.run => a.worker = w
Faithful(w) ==
  /\ pc[w] \in {"send", "wait"} /\ job[w].key.op = "put" => body[w] = runs[job[w].key.run]
  /\ pc[w] = "ack" => object[job[w].key.run] = runs[job[w].key.run]
Owners == \A w \in Workers : Owned(w) => Alone(w) /\ Faithful(w)

\* Without a row the object is what the run is.
Delivered ==
  "s3" \in Targets =>
    \A r \in Runs : ~Exists(CurrentKey(r, "s3")) => object[r] = runs[r]

ObjectInv == LeaseInv /\ OneRow /\ Paced /\ NetBounded /\ Fenced /\ Owners /\ Delivered

\* The row of a run for the object store.
LEMMA CurrentKeyType ==
  ASSUME NEW r \in Runs, "s3" \in Targets
  PROVE  /\ CurrentKey(r, "s3") \in Keys /\ CurrentKey(r, "s3").run = r
         /\ CurrentKey(r, "s3").target = "s3"
         /\ CurrentKey(r, "s3").op = IF runs[r] = 0 THEN "delete" ELSE "put"
  BY DEF CurrentKey, Keys

\* Keys differ in their run, target or operation.
LEMMA KeyEquality ==
  ASSUME NEW k \in Keys, NEW l \in Keys, k.run = l.run, k.target = l.target, k.op = l.op
  PROVE  k = l
  BY DEF Keys

\* What may be served is typed, was drawn, and is not over.
LEMMA EngagedType ==
  ASSUME LeaseInv, Paced, NetBounded, MaxStall + Timeout < Lease, NEW a \in Engaged
  PROVE  /\ a.key \in Keys /\ a.key.target = "s3" /\ "s3" \in Targets /\ a.key.run \in Runs
         /\ a.key.op \in {"put", "delete"}
         /\ a.version \in Nat /\ 0 < a.version /\ a.version <= versions[a.key.run]
         /\ a.until \in Int /\ now <= a.until
  <1>0. now \in Nat /\ MaxStall \in Nat /\ Timeout \in Nat /\ Lease \in Nat
        /\ \A k \in Keys : k.run \in Runs /\ k.target \in Targets /\ k.op \in {"put", "delete"}
    BY OutboxAssumption DEF LeaseInv, TypeOK, Keys
  <1>1. ASSUME NEW w \in Workers, Sending(w), a = Promise(w)
        PROVE  /\ a.key \in Keys /\ a.key.target = "s3"
               /\ a.version \in Nat /\ 0 < a.version /\ a.version <= versions[a.key.run]
               /\ a.until \in Int /\ now <= a.until
    <2>1. /\ a.key = job[w].key /\ a.version = job[w].version /\ a.until = job[w].deadline - 1
          /\ pc[w] \in Holding /\ pc[w] \in {"read", "send"}
      BY <1>1 DEF Promise, Sending, Holding
    <2>2. job[w] \in Jobs /\ seen[w] \in Nat
      BY DEF LeaseInv, TypeOK
    <2>3. job[w].key \in Keys /\ 0 < job[w].version /\ job[w].version <= versions[job[w].key.run]
      BY <2>1 DEF LeaseInv, JobKeys, Bounded
    <2>4. now <= seen[w] + MaxStall /\ job[w].deadline = seen[w] + Lease
      BY <2>1 DEF Paced
    <2>5. now <= job[w].deadline - 1 /\ job[w].deadline \in Nat /\ job[w].version \in Nat
      BY <1>0, <2>2, <2>4 DEF Jobs
    <2> QED BY <1>1, <2>1, <2>3, <2>5 DEF Sending
  <1>2. ASSUME NEW m \in net, Open(m), a = Asked(m)
        PROVE  /\ a.key \in Keys /\ a.key.target = "s3"
               /\ a.version \in Nat /\ 0 < a.version /\ a.version <= versions[a.key.run]
               /\ a.until \in Int /\ now <= a.until
    <2>1. m \in Requests
      BY DEF LeaseInv, TypeOK
    <2> QED BY <1>2, <2>1 DEF Asked, Open, NetBounded, Requests
  <1>3. /\ a.key \in Keys /\ a.key.target = "s3"
        /\ a.version \in Nat /\ 0 < a.version /\ a.version <= versions[a.key.run]
        /\ a.until \in Int /\ now <= a.until
    BY <1>1, <1>2 DEF Engaged
  <1> QED BY <1>0, <1>3

\* A row that is due has nothing under way.
LEMMA DueAlone ==
  ASSUME ObjectInv, MaxStall + Timeout < Lease,
         NEW k \in Keys, k.target = "s3", Exists(k), outbox[k].avail <= now
  PROVE  \A a \in Engaged : a.key.run # k.run
  <1> SUFFICES ASSUME NEW a \in Engaged, a.key.run = k.run PROVE FALSE
    OBVIOUS
  <1>1. now <= a.until /\ a.until \in Int /\ now \in Nat
    BY EngagedType DEF ObjectInv, LeaseInv, TypeOK
  <1>2. k = CurrentKey(a.key.run, "s3")
    BY DEF ObjectInv, OneRow
  <1>3. a.until < outbox[k].avail /\ outbox[k].avail \in Nat
    BY <1>2 DEF ObjectInv, Fenced, FencedBy, LeaseInv, TypeOK, Rows
  <1> QED BY <1>1, <1>3

\* The row a worker owns is the one of its run.
LEMMA OwnedRow ==
  ASSUME ObjectInv, NEW w \in Workers, Owned(w)
  PROVE  /\ job[w].key \in Keys /\ job[w].key.target = "s3" /\ job[w].key.run \in Runs
         /\ "s3" \in Targets /\ Exists(job[w].key) /\ outbox[job[w].key].lease = w
         /\ job[w].key = CurrentKey(job[w].key.run, "s3")
  <1>1. job[w].key \in Keys /\ 0 < job[w].version
    BY DEF Owned, ObjectInv, LeaseInv, JobKeys, Bounded
  <1>2. Exists(job[w].key) /\ outbox[job[w].key].lease = w /\ job[w].key.target = "s3"
    BY <1>1 DEF Owned, Owns, Exists
  <1> QED BY <1>1, <1>2 DEF ObjectInv, OneRow, Keys

\* When it has its answer, or knows of none, nothing is under way for its run.
LEMMA SettledAlone ==
  ASSUME ObjectInv, NEW w \in Workers, Owned(w), pc[w] \in {"ack", "retry"}
  PROVE  \A a \in Engaged : a.key.run # job[w].key.run
  <1> SUFFICES ASSUME NEW a \in Engaged, a.key.run = job[w].key.run PROVE FALSE
    OBVIOUS
  <1>1. a.worker = w
    BY DEF ObjectInv, Owners, Alone
  <1>2. ASSUME NEW v \in Workers, Sending(v), a = Promise(v) PROVE FALSE
    BY <1>1, <1>2 DEF Promise, Sending
  <1>3. ASSUME NEW m \in net, a = Asked(m) PROVE FALSE
    BY <1>1, <1>3, OutboxAssumption DEF Asked, ObjectInv, LeaseInv, Awaited
  <1> QED BY <1>2, <1>3 DEF Engaged

\* Its last instant is a number.
LEMMA UntilType == ASSUME TypeOK' PROVE \A a \in Engaged' : a.until \in Int
  <1>1. \A w \in Workers : Promise(w)'.until \in Int
    BY DEF TypeOK, Jobs, Promise
  <1>2. \A m \in net' : Asked(m).until \in Int
    BY DEF TypeOK, Requests, Asked
  <1> QED BY <1>1, <1>2 DEF Engaged, Asked

\* Each delivery that may still be served is one of before, for no longer, and of
\* the same worker unless that is w, which died.
Kept(w) ==
  \A a \in Engaged' : \E b \in Engaged :
    /\ a.key = b.key /\ a.version = b.version /\ a.until <= b.until
    /\ a.worker = b.worker \/ (b.worker = w /\ pc'[w] = "idle")

\* A step that adds nothing under way and changes no row and no run keeps the
\* invariant, if the owners stay faithful.
LEMMA KeptStep ==
  ASSUME ObjectInv, LeaseInv', MaxStall + Timeout < Lease, NEW w,
         UNCHANGED <<runs, versions, outbox>>, Kept(w), Paced', NetBounded',
         \A v \in Workers : pc'[v] \in Holding => pc[v] \in Holding /\ job'[v] = job[v],
         \A v \in Workers : Owned(v)' => Faithful(v)',
         Delivered'
  PROVE  ObjectInv'
  <1>1. \A k : Exists(k)' = Exists(k)
    BY DEF Exists
  <1>2. \A r : CurrentKey(r, "s3")' = CurrentKey(r, "s3")
    BY DEF CurrentKey, Current
  <1>3. OneRow'
    BY <1>1, <1>2 DEF ObjectInv, OneRow
  <1>4. \A b \in Engaged : b.until \in Int
    BY EngagedType DEF ObjectInv
  <1>5. \A a \in Engaged' : a.until \in Int
    BY UntilType DEF LeaseInv
  <1>6. Fenced'
    <2>1. ASSUME NEW a \in Engaged' PROVE FencedBy(a)'
      <3>1. PICK b \in Engaged : a.key = b.key /\ a.version = b.version /\ a.until <= b.until
        BY DEF Kept
      <3>2. FencedBy(b) /\ b.key.run \in Runs /\ "s3" \in Targets
        BY EngagedType DEF ObjectInv, Fenced
      <3>3. CurrentKey(a.key.run, "s3") \in Keys
        BY <3>1, <3>2, CurrentKeyType
      <3>4. outbox[CurrentKey(a.key.run, "s3")].avail \in Nat
        BY <3>3 DEF ObjectInv, LeaseInv, TypeOK, Rows
      <3>5. a.until < outbox[CurrentKey(a.key.run, "s3")].avail
        BY <1>4, <1>5, <3>1, <3>2, <3>4 DEF FencedBy
      <3> QED BY <1>1, <1>2, <3>1, <3>2, <3>5 DEF FencedBy
    <2>2. ASSUME NEW a \in Engaged', NEW b \in Engaged', a.key.run = b.key.run PROVE a.key = b.key
      BY <2>2 DEF Kept, ObjectInv, Fenced
    <2> QED BY <2>1, <2>2 DEF Fenced
  <1>7. Owners'
    <2> SUFFICES ASSUME NEW v \in Workers, Owned(v)' PROVE Alone(v)'
      BY DEF Owners
    <2>1. pc'[v] \in Holding /\ pc[v] \in Holding /\ job'[v] = job[v]
      BY DEF Owned
    <2>2. Owned(v)
      BY <2>1 DEF Owned, Owns
    <2>3. ASSUME NEW a \in Engaged', a.key.run = job'[v].key.run PROVE a.worker = v
      <3>1. PICK b \in Engaged : /\ a.key = b.key
                                 /\ a.worker = b.worker \/ (b.worker = w /\ pc'[w] = "idle")
        BY DEF Kept
      <3>2. b.worker = v
        BY <2>1, <2>2, <2>3, <3>1 DEF ObjectInv, Owners, Alone
      <3> QED BY <2>1, <3>1, <3>2 DEF Holding
    <2> QED BY <2>3 DEF Alone
  <1> QED BY <1>3, <1>6, <1>7 DEF ObjectInv

\* What insert, rotation and retention of S do to the rows of the object store: the
\* operation's row is moved behind whatever may still be served, and no other is left.
MovedBehind(S, op) ==
  /\ \A k \in Keys : k.run \in S /\ k.target = "s3" /\ k.op # op => outbox'[k].version = 0
  /\ \A a \in Engaged : \A k \in Keys :
       a.key.run \in S /\ k = [run |-> a.key.run, target |-> "s3", op |-> op] =>
         a.until < outbox'[k].avail
  /\ op = "put" => \A a \in Engaged : a.key.run \in S => a.key.op = "put"

\* Then the invariant is kept: what is under way carries an older version.
LEMMA RewrittenObjects ==
  ASSUME ObjectInv, LeaseInv', MaxStall + Timeout < Lease,
         NEW S \in SUBSET Runs, NEW op \in {"put", "delete"}, Rewritten(S, op), MovedBehind(S, op)
  PROVE  ObjectInv'
  <1>0. /\ UNCHANGED <<now, pc, cand, seen, job, body, net, object>>
        /\ \A r \in Runs : versions[r] \in Nat /\ versions'[r] \in Nat
        /\ \A k \in Keys : k.run \in Runs /\ k.target \in Targets /\ k.op \in {"put", "delete"}
        /\ \A t \in Targets : Rank(t) \in {1, 2}
        /\ Width \in {1, 2}
    BY RankType DEF Rewritten, workerVars, receiverVars, ObjectInv, LeaseInv, TypeOK, Keys
  <1>1. /\ \A r \in S : versions'[r] = versions[r] + Width
                        /\ (runs'[r] = 0 <=> op = "delete")
        /\ \A r \in Runs \ S : versions'[r] = versions[r] /\ runs'[r] = runs[r]
    BY <1>0 DEF Rewritten
  <1>2. /\ \A k \in Keys : k.run \in S /\ k.op = op =>
             outbox'[k].version = versions[k.run] + Rank(k.target)
        /\ \A k \in Keys : k.run \notin S => outbox'[k] = outbox[k]
    BY DEF Rewritten
  <1>3. Engaged' = Engaged
    BY <1>0 DEF Engaged, Sending, Open, Promise, Asked
  <1>4. ASSUME NEW r \in S, "s3" \in Targets
        PROVE  /\ CurrentKey(r, "s3")' = [run |-> r, target |-> "s3", op |-> op]
               /\ CurrentKey(r, "s3")' \in Keys /\ Exists(CurrentKey(r, "s3"))'
    <2>1. CurrentKey(r, "s3")' = [run |-> r, target |-> "s3", op |-> op]
      BY <1>1 DEF CurrentKey
    <2>2. [run |-> r, target |-> "s3", op |-> op] \in Keys
      BY <1>4 DEF Keys
    <2>3. outbox'[[run |-> r, target |-> "s3", op |-> op]].version = versions[r] + Rank("s3")
      BY <1>2, <2>2
    <2>4. versions[r] + Rank("s3") # 0
      BY <1>0, <1>4
    <2> QED BY <2>1, <2>2, <2>3, <2>4 DEF Exists
  <1>5. ASSUME NEW r \in Runs \ S, "s3" \in Targets
        PROVE  /\ CurrentKey(r, "s3")' = CurrentKey(r, "s3")
               /\ outbox'[CurrentKey(r, "s3")] = outbox[CurrentKey(r, "s3")]
    <2>1. CurrentKey(r, "s3") \in Keys /\ CurrentKey(r, "s3").run = r
      BY <1>5, CurrentKeyType
    <2> QED BY <1>1, <1>2, <2>1 DEF CurrentKey
  <1>6. OneRow'
    <2> SUFFICES ASSUME NEW k \in Keys, k.target = "s3", Exists(k)' PROVE k = CurrentKey(k.run, "s3")'
      BY DEF OneRow
    <2>1. "s3" \in Targets /\ k.run \in Runs
      BY <1>0
    <2>2. CASE k.run \in S
      <3>1. k.op = op
        BY <2>2 DEF MovedBehind, Exists
      <3>2. k = [run |-> k.run, target |-> "s3", op |-> op]
        BY <3>1 DEF Keys
      <3> QED BY <1>4, <2>1, <2>2, <3>2
    <2>3. CASE k.run \notin S
      <3>1. Exists(k)
        BY <1>2, <2>3 DEF Exists
      <3>2. k = CurrentKey(k.run, "s3")
        BY <3>1 DEF ObjectInv, OneRow
      <3> QED BY <1>5, <2>1, <2>3, <3>2
    <2> QED BY <2>2, <2>3
  <1>7. Paced' /\ NetBounded'
    <2>1. Paced'
      BY <1>0 DEF ObjectInv, Paced
    <2>2. \A m \in net : m.key.run \in Runs /\ m.version \in Nat
      BY <1>0 DEF ObjectInv, LeaseInv, TypeOK, Requests
    <2>3. \A r \in Runs : versions[r] <= versions'[r]
      BY <1>0, <1>1
    <2>4. NetBounded'
      BY <1>0, <2>2, <2>3 DEF ObjectInv, NetBounded
    <2> QED BY <2>1, <2>4
  <1>8. Fenced'
    <2>1. ASSUME NEW a \in Engaged PROVE FencedBy(a)'
      <3>1. /\ a.key \in Keys /\ a.key.target = "s3" /\ "s3" \in Targets /\ a.key.run \in Runs
            /\ a.version \in Nat /\ 0 < a.version /\ a.version <= versions[a.key.run]
        BY EngagedType DEF ObjectInv
      <3>2. FencedBy(a)
        BY DEF ObjectInv, Fenced
      <3>3. CASE a.key.run \notin S
        BY <1>1, <1>2, <1>5, <3>1, <3>2, <3>3 DEF FencedBy, Exists
      <3>4. CASE a.key.run \in S
        <4>1. a.until < outbox'[CurrentKey(a.key.run, "s3")'].avail
          BY <1>4, <3>1, <3>4 DEF MovedBehind
        <4>2. outbox'[a.key].version # a.version
          <5>1. CASE a.key.op = op
            <6>1. outbox'[a.key].version = versions[a.key.run] + Rank("s3")
              BY <1>2, <3>1, <3>4, <5>1
            <6> QED BY <1>0, <3>1, <6>1
          <5>2. CASE a.key.op # op
            BY <3>1, <3>4, <5>2 DEF MovedBehind
          <5> QED BY <5>1, <5>2
        <4>3. runs'[a.key.run] # 0 => a.key.op = "put"
          BY <1>1, <3>4 DEF MovedBehind
        <4> QED BY <1>4, <3>1, <3>4, <4>1, <4>2, <4>3 DEF FencedBy
      <3> QED BY <3>3, <3>4
    <2> QED BY <1>3, <2>1 DEF Fenced, ObjectInv
  <1>9. Owners'
    <2> SUFFICES ASSUME NEW v \in Workers, Owned(v)' PROVE Alone(v)' /\ Faithful(v)'
      BY DEF Owners
    <2>1. /\ job[v].key \in Keys /\ job[v].key.run \in Runs /\ job[v].key.target = "s3"
          /\ job[v].version \in Nat
          /\ 0 < job[v].version /\ job[v].version <= versions[job[v].key.run]
      BY <1>0 DEF Owned, ObjectInv, LeaseInv, JobKeys, Bounded, TypeOK, Jobs
    <2>2. outbox'[job[v].key].version = job[v].version
      BY <1>0 DEF Owned, Owns
    <2>3. CASE job[v].key.run \in S
      <3>1. CASE job[v].key.op = op
        <4>1. outbox'[job[v].key].version = versions[job[v].key.run] + Rank("s3")
          BY <1>2, <2>1, <2>3, <3>1
        <4> QED BY <1>0, <2>1, <2>2, <4>1
      <3>2. CASE job[v].key.op # op
        BY <2>1, <2>2, <2>3, <3>2 DEF MovedBehind
      <3> QED BY <3>1, <3>2
    <2>4. CASE job[v].key.run \notin S
      <3>1. Owned(v)
        BY <1>0, <1>2, <2>1, <2>4 DEF Owned, Owns
      <3>2. Alone(v) /\ Faithful(v)
        BY <3>1 DEF ObjectInv, Owners
      <3>3. runs'[job[v].key.run] = runs[job[v].key.run]
        BY <1>1, <2>1, <2>4
      <3> QED BY <1>0, <1>3, <3>2, <3>3 DEF Alone, Faithful
    <2> QED BY <2>3, <2>4
  <1>10. Delivered'
    <2> SUFFICES ASSUME "s3" \in Targets, NEW r \in Runs, ~Exists(CurrentKey(r, "s3"))'
                 PROVE  object'[r] = runs'[r]
      BY DEF Delivered
    <2>1. r \notin S
      BY <1>4
    <2>2. ~Exists(CurrentKey(r, "s3"))
      BY <1>5, <2>1 DEF Exists
    <2> QED BY <1>0, <1>1, <2>1, <2>2 DEF ObjectInv, Delivered
  <1> QED BY <1>6, <1>7, <1>8, <1>9, <1>10 DEF ObjectInv

\* insert_tx and rotate_encryption keep the time at which the row is due; before a
\* run is exported again its namesake's delete was delivered.
LEMMA WriteObjects ==
  ASSUME ObjectInv, LeaseInv', MaxStall + Timeout < Lease, Orderly,
         NEW S \in SUBSET Runs, Insert(S) \/ Rotate(S)
  PROVE  ObjectInv'
  <1>1. WritePayload(S) /\ Rewritten(S, "put")
    BY WritePayloadRewrites DEF Insert, Rotate, ObjectInv, LeaseInv
  <1>2. \A k \in Keys : outbox'[k] = IF k.run \in S /\ k.op = "put"
                                    THEN Requeued(outbox[k], versions[k.run] + Rank(k.target))
                                    ELSE outbox[k]
    BY <1>1 DEF WritePayload, Enqueue
  <1>3. \A r \in S : runs'[r] # 0
    <2>1. \A r \in S : runs'[r] = versions[r] + Width /\ versions[r] \in Nat
      BY <1>1 DEF Rewritten, ObjectInv, LeaseInv, TypeOK
    <2> QED BY <2>1, RankType
  <1>4. ASSUME NEW r \in S, "s3" \in Targets, runs[r] = 0
        PROVE  ~Exists(CurrentKey(r, "s3")) /\ \A a \in Engaged : a.key.run # r
    <2>1. ~Exists(CurrentKey(r, "s3"))
      BY <1>3, <1>4 DEF Orderly
    <2> QED BY <2>1 DEF ObjectInv, Fenced, FencedBy
  <1>5. ASSUME NEW k \in Keys, k.run \in S, k.target = "s3", k.op # "put"
        PROVE  outbox'[k].version = 0
    <2>1. outbox'[k] = outbox[k] /\ "s3" \in Targets /\ k.op = "delete"
      BY <1>2, <1>5 DEF Keys
    <2>2. CASE runs[k.run] = 0
      <3>1. k = CurrentKey(k.run, "s3")
        BY <1>5, <2>1, <2>2, CurrentKeyType, KeyEquality
      <3> QED BY <1>4, <1>5, <2>1, <2>2, <3>1 DEF Exists
    <2>3. CASE runs[k.run] # 0
      <3>1. k # CurrentKey(k.run, "s3")
        BY <2>1, <2>3 DEF CurrentKey
      <3> QED BY <1>5, <2>1, <3>1 DEF ObjectInv, OneRow, Exists
    <2> QED BY <2>2, <2>3
  <1>6. ASSUME NEW a \in Engaged, a.key.run \in S
        PROVE  /\ a.key.op = "put"
               /\ \A k \in Keys : k = [run |-> a.key.run, target |-> "s3", op |-> "put"] =>
                    a.until < outbox'[k].avail
    <2>1. "s3" \in Targets /\ runs[a.key.run] # 0
      BY <1>4, <1>6, EngagedType DEF ObjectInv
    <2>2. FencedBy(a)
      BY DEF ObjectInv, Fenced
    <2>3. ASSUME NEW k \in Keys, k = [run |-> a.key.run, target |-> "s3", op |-> "put"]
          PROVE  a.until < outbox'[k].avail
      <3>1. k = CurrentKey(a.key.run, "s3")
        BY <2>1, <2>3 DEF CurrentKey
      <3>2. outbox'[k] = Requeued(outbox[k], versions[k.run] + Rank(k.target))
        BY <1>2, <1>6, <2>3
      <3>3. outbox'[k].avail = outbox[k].avail
        BY <3>2 DEF Requeued
      <3> QED BY <2>2, <3>1, <3>3 DEF FencedBy
    <2> QED BY <2>1, <2>2, <2>3 DEF FencedBy
  <1>7. MovedBehind(S, "put")
    BY <1>5, <1>6 DEF MovedBehind
  <1> QED BY <1>1, <1>7, RewrittenObjects

\* retain_since, when no statement runs between its own, moves a delete behind the
\* lease of the PUT it finds; and it finds that lease while the PUT may be served.
LEMMA RetainObjects ==
  ASSUME ObjectInv, LeaseInv', MaxStall + Timeout < Lease, Orderly,
         NEW S \in SUBSET Runs, Retain(S)
  PROVE  ObjectInv'
  <1> DEFINE held == LeasesOf(S)
             Deadlines(k) == {h.avail : h \in {x \in held : x.run = k.run /\ x.target = k.target}}
             Deletes == {k \in Keys : k.run \in S /\ k.op = "delete"}
             dropped == [k \in Keys |-> IF k.run \in S THEN NoRow ELSE outbox[k]]
             queued == Enqueue(dropped, S, "delete")
  <1>1. RetainWrites(S, held) /\ S \subseteq Live
    BY DEF Retain
  <1>2. Rewritten(S, "delete")
    BY <1>1, LeasesType, RetainWritesRewrites DEF ObjectInv, LeaseInv
  <1>3. PICK due \in [Deletes -> {0} \cup {h.avail : h \in held}] :
          /\ \A k \in Deletes : due[k] \in (IF Deadlines(k) = {} THEN {0} ELSE Deadlines(k))
          /\ outbox' = [k \in Keys |-> IF k \in Deletes THEN [queued[k] EXCEPT !.avail = due[k]]
                                       ELSE queued[k]]
    BY <1>1 DEF RetainWrites
  <1>4. /\ \A k \in Keys \ Deletes : queued[k] = IF k.run \in S THEN NoRow ELSE outbox[k]
        /\ \A k \in Deletes : queued[k] = Requeued(NoRow, versions[k.run] + Rank(k.target))
    BY DEF Enqueue
  <1>5. \A k \in Deletes : outbox'[k].avail = due[k]
    <2>1. \A v : "avail" \in DOMAIN Requeued(NoRow, v)
      BY DEF Requeued
    <2>2. \A k \in Deletes : "avail" \in DOMAIN queued[k]
      <3> HIDE DEF queued, Deletes
      <3> QED BY <1>4, <2>1
    <2> HIDE DEF queued
    <2> QED BY <1>3, <2>2
  <1>6. ASSUME NEW k \in Keys, k.run \in S, k.target = "s3", k.op # "delete"
        PROVE  outbox'[k].version = 0
    <2>1. k \in Keys \ Deletes
      BY <1>6
    <2>2. outbox'[k] = NoRow
      <3> HIDE DEF queued, Deletes
      <3> QED BY <1>3, <1>4, <1>6, <2>1
    <2> QED BY <2>2 DEF NoRow
  <1>7. ASSUME NEW a \in Engaged, a.key.run \in S,
               NEW d \in Keys, d = [run |-> a.key.run, target |-> "s3", op |-> "delete"]
        PROVE  a.until < outbox'[d].avail
    <2> DEFINE r == a.key.run
               put == CurrentKey(r, "s3")
    <2>1. /\ a.key \in Keys /\ a.key.target = "s3" /\ "s3" \in Targets /\ r \in Runs
          /\ a.version \in Nat /\ 0 < a.version
      BY EngagedType DEF ObjectInv
    <2>2. runs[r] # 0 /\ runs'[r] = 0
      <3>1. runs[r] # 0
        BY <1>1, <1>7 DEF Live
      <3>2. runs'[r] = 0
        BY <1>2, <1>7 DEF Rewritten
      <3> QED BY <3>1, <3>2
    <2>3. FencedBy(a)
      BY DEF ObjectInv, Fenced
    <2>4. put \in Keys /\ put.run = r /\ put.target = "s3" /\ put.op = "put"
      BY <2>1, <2>2, CurrentKeyType
    <2>5. a.key = put
      <3>1. a.key.op = "put"
        BY <2>2, <2>3 DEF FencedBy
      <3> HIDE DEF put
      <3> QED BY <2>1, <2>4, <3>1, KeyEquality
    <2>6. a.version = outbox[put].version
      <3>1. ~Overtaken(put)
        BY <2>1, <2>2 DEF Orderly
      <3>2. ASSUME NEW w \in Workers, Sending(w), a = Promise(w) PROVE a.version = outbox[put].version
        BY <2>5, <3>1, <3>2 DEF Overtaken, Sending, Promise
      <3>3. ASSUME NEW m \in net, Open(m), a = Asked(m) PROVE a.version = outbox[put].version
        BY <2>5, <3>1, <3>3 DEF Overtaken, Open, Asked
      <3> QED BY <3>2, <3>3 DEF Engaged
    <2>7. Exists(put) /\ outbox[put].lease # NoOne /\ a.until < outbox[put].avail
      BY <2>3, <2>5, <2>6 DEF FencedBy
    <2> DEFINE lease == [run |-> r, target |-> "s3", avail |-> outbox[put].avail]
    <2>8. lease \in held
      <3> HIDE DEF put
      <3> QED BY <1>7, <2>4, <2>7 DEF LeasesOf
    <2>9. \A h \in held : h.run = r /\ h.target = "s3" => h.avail = outbox[put].avail
      <3> SUFFICES ASSUME NEW k \in Keys, Exists(k), k.run = r, k.target = "s3"
                   PROVE  k = put
        BY DEF LeasesOf
      <3> QED BY DEF ObjectInv, OneRow
    <2>10. d \in Deletes /\ d.run = r /\ d.target = "s3"
      BY <1>7
    <2>11. Deadlines(d) # {} /\ \A x \in Deadlines(d) : x = outbox[put].avail
      <3>1. lease.run = r /\ lease.target = "s3" /\ lease.avail = outbox[put].avail
        OBVIOUS
      <3> HIDE DEF held, lease, put, r
      <3> QED BY <2>8, <2>9, <2>10, <3>1
    <2>12. due[d] = outbox[put].avail
      <3> HIDE DEF Deadlines, Deletes, put, queued
      <3> QED BY <1>3, <2>10, <2>11
    <2> HIDE DEF put, Deletes
    <2> QED BY <1>5, <2>7, <2>10, <2>12
  <1>8. MovedBehind(S, "delete")
    BY <1>6, <1>7 DEF MovedBehind
  <1> QED BY <1>2, <1>8, RewrittenObjects

\* A claim is made on a row that is due, so nothing else is under way for its run.
LEMMA ClaimObjects ==
  ASSUME ObjectInv, LeaseInv', MaxStall + Timeout < Lease, NEW w \in Workers, Claim(w)
  PROVE  ObjectInv'
  <1>0. /\ UNCHANGED <<runs, versions, now, body, net, object>> /\ pc[w] = "claim"
        /\ now \in Nat /\ seen[w] \in Nat /\ Lease \in Nat
        /\ \A k \in Keys : outbox[k] \in Rows
        /\ \A v \in Workers : job[v] \in Jobs /\ cand[v] \subseteq Seen
        /\ \A v \in Workers \ {w} : /\ pc'[v] = pc[v] /\ job'[v] = job[v] /\ seen'[v] = seen[v]
        /\ pc'[w] \in {"read", "claim", "idle"}
    BY OutboxAssumption DEF Claim, receiverVars, ObjectInv, LeaseInv, TypeOK
  <1>1. Paced' /\ NetBounded'
    <2>1. pc'[w] # "idle" => seen'[w] = seen[w]
      BY <1>0 DEF Claim, ObjectInv, LeaseInv, TypeOK
    <2>2. pc'[w] = "read" => job'[w].deadline = seen[w] + Lease
      BY <1>0 DEF Claim, ObjectInv, LeaseInv, TypeOK
    <2>3. now <= seen[w] + MaxStall
      BY <1>0 DEF ObjectInv, Paced
    <2>4. Paced'
      BY <1>0, <2>1, <2>2, <2>3 DEF ObjectInv, Paced
    <2> QED BY <1>0, <2>4 DEF ObjectInv, NetBounded
  <1>2. CASE UNCHANGED <<outbox, job>> /\ pc'[w] \in {"claim", "idle"}
    <2>1. Engaged' = Engaged
      BY <1>0, <1>2 DEF Engaged, Sending, Open, Promise, Asked
    <2>2. Kept(w)
      BY <2>1, EngagedType DEF Kept, ObjectInv
    <2>3. \A v \in Workers : pc'[v] \in Holding => v # w /\ pc[v] \in Holding /\ job'[v] = job[v]
      BY <1>0, <1>2 DEF Holding
    <2>4. \A v \in Workers : Owned(v)' => Faithful(v)'
      BY <1>0, <1>2, <2>3 DEF ObjectInv, Owners, Owned, Owns, Faithful
    <2>5. Delivered'
      BY <1>0, <1>2 DEF ObjectInv, Delivered, Exists, CurrentKey
    <2> QED BY <1>0, <1>1, <1>2, <2>2, <2>3, <2>4, <2>5, KeptStep
  <1>3. ASSUME NEW c \in cand[w], Unclaimed(c),
               outbox' = [outbox EXCEPT ![c.key] = Claimed(outbox[c.key], w, seen[w] + Lease)],
               job' = [job EXCEPT ![w] =
                  [key |-> c.key, version |-> c.version, deadline |-> seen[w] + Lease,
                   attempts |-> outbox[c.key].attempts]],
               pc' = [pc EXCEPT ![w] = "read"]
        PROVE  ObjectInv'
    <2>1. c.key \in Keys /\ c.version \in Nat /\ c.avail \in Nat
      BY <1>0 DEF Seen
    <2>2. /\ outbox[c.key].version = c.version /\ outbox[c.key].avail <= now /\ Exists(c.key)
      BY <1>3 DEF Unclaimed, Bounded, ObjectInv, LeaseInv, Exists
    <2>3. /\ outbox'[c.key].version = c.version /\ outbox'[c.key].lease = w
          /\ outbox'[c.key].avail = seen[w] + Lease
          /\ \A k \in Keys \ {c.key} : outbox'[k] = outbox[k]
      <3>1. outbox'[c.key] = Claimed(outbox[c.key], w, seen[w] + Lease)
        BY <1>3, <2>1 DEF ObjectInv, LeaseInv, TypeOK
      <3>2. outbox[c.key] \in Rows
        BY <1>0, <2>1
      <3> QED
        BY <1>3, <2>1, <2>2, <3>1, <3>2 DEF ObjectInv, LeaseInv, TypeOK, Claimed, Rows
    <2>4. /\ job'[w].key = c.key /\ job'[w].version = c.version
          /\ job'[w].deadline = seen[w] + Lease /\ pc'[w] = "read"
      BY <1>3 DEF ObjectInv, LeaseInv, TypeOK
    <2>5. \A k \in Keys : Exists(k)' = Exists(k) /\ outbox'[k].version = outbox[k].version
      BY <2>2, <2>3 DEF Exists
    <2>6. \A r : CurrentKey(r, "s3")' = CurrentKey(r, "s3")
      BY <1>0 DEF CurrentKey
    <2>7. OneRow'
      BY <2>5, <2>6 DEF ObjectInv, OneRow
    <2>8. PICK claim : /\ claim = Promise(w)' /\ claim.key = c.key /\ claim.version = c.version
                        /\ claim.until = seen[w] + Lease - 1 /\ claim.worker = w
      <3>1. Promise(w)' = [worker |-> w, key |-> c.key, version |-> c.version,
                           until |-> seen[w] + Lease - 1]
        <4> DEFINE j == job'[w]
        <4>1. Promise(w)' = [worker |-> w, key |-> j.key, version |-> j.version,
                             until |-> j.deadline - 1]
          BY DEF Promise
        <4>2. j.key = c.key /\ j.version = c.version /\ j.deadline = seen[w] + Lease
          BY <2>4
        <4> HIDE DEF j
        <4>3. j.deadline - 1 = seen[w] + Lease - 1
          BY <1>0, <4>2
        <4> QED BY <4>1, <4>2, <4>3, Zenon
      <3> QED BY <3>1
    <2>9. ASSUME NEW a \in Engaged'
          PROVE  a \in Engaged \/ (c.key.target = "s3" /\ a = claim)
      <3>1. ASSUME NEW v \in Workers, Sending(v)', a = Promise(v)'
            PROVE  a \in Engaged \/ (c.key.target = "s3" /\ a = claim)
        <4>1. CASE v = w
          BY <2>4, <2>8, <3>1, <4>1 DEF Sending
        <4>2. CASE v # w
          BY <1>0, <3>1, <4>2 DEF Engaged, Sending, Promise
        <4> QED BY <4>1, <4>2
      <3>2. ASSUME NEW m \in net', Open(m)', a = Asked(m) PROVE a \in Engaged
        BY <1>0, <3>2 DEF Engaged, Open
      <3> QED BY <3>1, <3>2 DEF Engaged, Asked
    <2>10. c.key.target = "s3" => \A a \in Engaged : a.key.run # c.key.run
      BY <2>1, <2>2, DueAlone
    <2>11. c.key.target = "s3" => c.key = CurrentKey(c.key.run, "s3")
      BY <2>1, <2>2 DEF ObjectInv, OneRow
    <2>12. ASSUME NEW a \in Engaged PROVE FencedBy(a)'
      <3>1. FencedBy(a) /\ a.key \in Keys /\ "s3" \in Targets /\ a.key.run \in Runs /\ a.key.target = "s3"
        BY EngagedType DEF ObjectInv, Fenced
      <3>2. CurrentKey(a.key.run, "s3") \in Keys /\ CurrentKey(a.key.run, "s3").run = a.key.run
            /\ CurrentKey(a.key.run, "s3").target = "s3"
        BY <3>1, CurrentKeyType
      <3>3. CurrentKey(a.key.run, "s3") # c.key /\ a.key # c.key
        BY <2>10, <3>1, <3>2
      <3> QED BY <1>0, <2>3, <2>5, <2>6, <3>1, <3>2, <3>3 DEF FencedBy
    <2>13. ASSUME c.key.target = "s3" PROVE FencedBy(claim)'
      <3>1. runs[c.key.run] # 0 => c.key.op = "put"
        BY <2>11, <2>13 DEF CurrentKey
      <3>2. c.key.run = claim.key.run /\ Exists(c.key)' /\ outbox'[c.key].lease # NoOne
        BY <2>1, <2>2, <2>3, <2>5, <2>8, OutboxAssumption
      <3>3. claim.until < outbox'[c.key].avail
        BY <1>0, <2>3, <2>8
      <3> QED BY <1>0, <2>6, <2>8, <2>11, <2>13, <3>1, <3>2, <3>3 DEF FencedBy
    <2>14. Fenced'
      <3>1. \A a \in Engaged' : FencedBy(a)'
        BY <2>9, <2>12, <2>13
      <3>2. \A a, b \in Engaged' : a.key.run = b.key.run => a.key = b.key
        BY <2>9, <2>10, <2>8 DEF ObjectInv, Fenced
      <3> QED BY <3>1, <3>2 DEF Fenced
    <2>15. Owners'
      <3> SUFFICES ASSUME NEW v \in Workers, Owned(v)' PROVE Alone(v)' /\ Faithful(v)'
        BY DEF Owners
      <3>1. CASE v = w
        <4>1. c.key.target = "s3"
          BY <2>4, <3>1 DEF Owned
        <4> QED BY <2>4, <2>9, <2>10, <2>8, <3>1, <4>1 DEF Alone, Faithful
      <3>2. CASE v # w
        <4>1. pc'[v] = pc[v] /\ job'[v] = job[v] /\ pc[v] \in Holding /\ job[v].key \in Keys
          BY <1>0, <3>2 DEF Owned, ObjectInv, LeaseInv, JobKeys
        <4>2. job[v].key # c.key
          BY <2>3, <3>2, <4>1 DEF Owned, Owns
        <4>3. Owned(v)
          BY <2>3, <4>1, <4>2 DEF Owned, Owns
        <4>4. Alone(v) /\ Faithful(v) /\ Exists(job[v].key) /\ job[v].key.target = "s3"
              /\ job[v].key = CurrentKey(job[v].key.run, "s3")
          BY <4>3, OwnedRow DEF ObjectInv, Owners
        <4>5. c.key.target = "s3" => c.key.run # job[v].key.run
          BY <2>11, <4>2, <4>4
        <4> QED BY <1>0, <2>9, <2>8, <4>1, <4>4, <4>5 DEF Alone, Faithful
      <3> QED BY <3>1, <3>2
    <2>16. Delivered'
      <3> SUFFICES ASSUME "s3" \in Targets, NEW r \in Runs, ~Exists(CurrentKey(r, "s3"))'
                   PROVE  object'[r] = runs'[r]
        BY DEF Delivered
      <3>1. CurrentKey(r, "s3") \in Keys
        BY CurrentKeyType
      <3>2. ~Exists(CurrentKey(r, "s3"))
        BY <2>5, <2>6, <3>1 DEF Exists
      <3> QED BY <1>0, <3>2 DEF ObjectInv, Delivered
    <2> QED BY <1>1, <2>7, <2>14, <2>15, <2>16 DEF ObjectInv
  <1>4. PICK c \in cand[w] :
          \/ /\ Unclaimed(c)
             /\ outbox' = [outbox EXCEPT ![c.key] = Claimed(outbox[c.key], w, seen[w] + Lease)]
             /\ job' = [job EXCEPT ![w] =
                  [key |-> c.key, version |-> c.version, deadline |-> seen[w] + Lease,
                   attempts |-> outbox[c.key].attempts]]
             /\ pc' = [pc EXCEPT ![w] = "read"]
          \/ /\ pc' = [pc EXCEPT ![w] = IF cand[w] = {c} THEN "idle" ELSE "claim"]
             /\ UNCHANGED <<outbox, job>>
    BY DEF Claim
  <1>5. CASE /\ pc' = [pc EXCEPT ![w] = IF cand[w] = {c} THEN "idle" ELSE "claim"]
             /\ UNCHANGED <<outbox, job>>
    BY <1>2, <1>5 DEF ObjectInv, LeaseInv, TypeOK
  <1> QED BY <1>3, <1>4, <1>5

\* A worker polls, reads the run, sends, gives up or dies: whatever is under way was
\* so before.  A request is served no later than the deadline of the claim it is for.
LEMMA StepObjects ==
  ASSUME ObjectInv, LeaseInv', MaxStall + Timeout < Lease, ~LateRequests, NEW w \in Workers,
         Select(w) \/ Read(w) \/ Send(w) \/ Fail(w) \/ Crash(w)
  PROVE  ObjectInv'
  <1> USE DEF receiverVars
  <1>0. /\ UNCHANGED <<runs, versions, outbox, now, object>>
        /\ now \in Nat /\ seen[w] \in Nat /\ MaxStall \in Nat /\ Timeout \in Nat /\ Lease \in Nat
        /\ \A v \in Workers : job[v] \in Jobs
        /\ \A v \in Workers \ {w} : /\ pc'[v] = pc[v] /\ job'[v] = job[v] /\ seen'[v] = seen[v]
                                    /\ body'[v] = body[v]
    BY OutboxAssumption DEF Select, Read, Send, Fail, Crash, ObjectInv, LeaseInv, TypeOK
  <1>1. Delivered'
    BY <1>0 DEF ObjectInv, Delivered, Exists, CurrentKey
  <1>2. \A b \in Engaged : b.until \in Int
    BY EngagedType DEF ObjectInv
  <1>3. ASSUME NEW v \in Workers \ {w}, Owned(v)' PROVE Faithful(v)'
    BY <1>0, <1>3 DEF ObjectInv, Owners, Owned, Owns, Faithful
  <1>4. ASSUME pc'[w] \in Holding => pc[w] \in Holding /\ job'[w] = job[w],
               Paced', NetBounded', Kept(w), Owned(w)' => Faithful(w)'
        PROVE  ObjectInv'
    <2>1. \A v \in Workers : pc'[v] \in Holding => pc[v] \in Holding /\ job'[v] = job[v]
      BY <1>0, <1>4
    <2>2. \A v \in Workers : Owned(v)' => Faithful(v)'
      BY <1>3, <1>4
    <2> QED BY <1>0, <1>1, <1>4, <2>1, <2>2, KeptStep
  <1>5. ASSUME NEW v \in Workers \ {w}, Sending(v)' PROVE Promise(v)' \in Engaged
    BY <1>0, <1>5 DEF Sending, Promise, Engaged
  <1>6. ASSUME \A m \in net' : m \in net, pc'[w] \in {"read", "send"} => Sending(w) = Sending(w)' /\ job'[w] = job[w]
        PROVE  Kept(w) /\ NetBounded'
    <2>1. ASSUME NEW a \in Engaged' PROVE a \in Engaged
      <3>1. ASSUME NEW v \in Workers, Sending(v)', a = Promise(v)' PROVE a \in Engaged
        <4>1. CASE v = w
          BY <1>6, <3>1, <4>1 DEF Sending, Promise, Engaged
        <4> QED BY <1>5, <3>1, <4>1
      <3>2. ASSUME NEW m \in net', Open(m)', a = Asked(m) PROVE a \in Engaged
        BY <1>0, <1>6, <3>2 DEF Engaged, Open
      <3> QED BY <3>1, <3>2 DEF Engaged, Asked
    <2>2. Kept(w)
      BY <1>2, <2>1 DEF Kept
    <2> QED BY <1>0, <1>6, <2>2 DEF ObjectInv, NetBounded
  <1>7. CASE Select(w)
    <2>1. pc[w] = "idle" /\ pc'[w] = "claim" /\ seen'[w] = now /\ UNCHANGED <<net, job>>
      BY <1>7 DEF Select, ObjectInv, LeaseInv, TypeOK
    <2>2. Paced'
      BY <1>0, <2>1 DEF ObjectInv, Paced
    <2> QED BY <1>4, <1>6, <2>1, <2>2 DEF Holding, Owned
  <1>8. CASE Read(w)
    <2>1. /\ pc[w] = "read" /\ body'[w] = runs[job[w].key.run] /\ UNCHANGED <<net, job, seen>>
          /\ pc'[w] = IF job[w].key.op = "put" /\ runs[job[w].key.run] = 0 THEN "ack" ELSE "send"
      BY <1>8 DEF Read, ObjectInv, LeaseInv, TypeOK
    <2>2. Paced'
      BY <1>0, <2>1 DEF ObjectInv, Paced
    <2>3. ASSUME Owned(w)' PROVE Faithful(w)'
      <3>1. Owned(w)
        BY <1>0, <2>1, <2>3 DEF Owned, Owns, Holding
      <3>2. job[w].key = CurrentKey(job[w].key.run, "s3")
        BY <3>1, OwnedRow
      <3>3. job[w].key.op = "put" => runs[job[w].key.run] # 0
        BY <3>2 DEF CurrentKey
      <3> QED BY <1>0, <2>1, <3>3 DEF Faithful
    <2>4. pc'[w] = "send" => Sending(w) = Sending(w)'
      BY <2>1 DEF Sending
    <2> QED BY <1>4, <1>6, <2>1, <2>2, <2>3, <2>4 DEF Holding
  <1>9. CASE Send(w)
    <2>0. PICK m : m = [worker |-> w, key |-> job[w].key, version |-> job[w].version,
                        body |-> body[w], until |-> Deadline(job[w].key)]
      OBVIOUS
    <2>1. /\ pc[w] = "send" /\ pc'[w] = "wait" /\ UNCHANGED <<job, body>>
          /\ net' = net \cup {m}
      BY <1>9, <2>0 DEF Send, ObjectInv, LeaseInv, TypeOK
    <2>2. Paced'
      BY <1>0, <2>1 DEF ObjectInv, Paced
    <2>3. /\ job[w].key \in Keys /\ 0 < job[w].version /\ job[w].version <= versions[job[w].key.run]
      BY <2>1 DEF ObjectInv, LeaseInv, JobKeys, Bounded, Holding
    <2>4. NetBounded'
      BY <1>0, <2>0, <2>1, <2>3 DEF ObjectInv, NetBounded
    <2>5. ASSUME Open(m)'
          PROVE  Promise(w) \in Engaged /\ m.until <= Promise(w).until
      <3>1. job[w].key.target = "s3" /\ m.until = now + Timeout
        BY <2>0, <2>5 DEF Open, Deadline
      <3>2. Promise(w) \in Engaged
        BY <2>1, <3>1 DEF Engaged, Sending
      <3>3. now <= seen[w] + MaxStall /\ job[w].deadline = seen[w] + Lease
        BY <2>1 DEF ObjectInv, Paced
      <3>4. now + Timeout <= job[w].deadline - 1
        BY <1>0, <3>3
      <3> QED BY <3>1, <3>2, <3>4 DEF Promise
    <2>6. ASSUME NEW a \in Engaged' PROVE \E b \in Engaged :
            a.key = b.key /\ a.version = b.version /\ a.until <= b.until /\ a.worker = b.worker
      <3>1. ASSUME NEW v \in Workers, Sending(v)', a = Promise(v)' PROVE a \in Engaged
        <4>1. v # w
          BY <2>1, <3>1 DEF Sending
        <4> QED BY <1>5, <3>1, <4>1
      <3>2. ASSUME NEW n \in net', Open(n)', a = Asked(n), n # m PROVE a \in Engaged
        BY <1>0, <2>1, <3>2 DEF Engaged, Open
      <3>3. ASSUME Open(m)', a = Asked(m)
            PROVE  a.key = Promise(w).key /\ a.version = Promise(w).version /\ a.worker = Promise(w).worker
                   /\ a.until = m.until
        BY <2>0, <3>3 DEF Asked, Promise
      <3>4. a \in Engaged \/ (Open(m)' /\ a = Asked(m))
        BY <3>1, <3>2 DEF Engaged, Asked
      <3>5. CASE a \in Engaged
        BY <1>2, <3>5
      <3>6. CASE Open(m)' /\ a = Asked(m)
        BY <2>5, <3>3, <3>6
      <3> QED BY <3>4, <3>5, <3>6
    <2>7. Kept(w)
      BY <2>6 DEF Kept
    <2>8. ASSUME Owned(w)' PROVE Faithful(w)'
      <3>1. Owned(w)
        BY <1>0, <2>1, <2>8 DEF Owned, Owns, Holding
      <3> QED BY <1>0, <2>1, <3>1 DEF Faithful, ObjectInv, Owners
    <2> QED BY <1>4, <2>1, <2>2, <2>4, <2>7, <2>8 DEF Holding
  <1>10. CASE Fail(w)
    <2>1. pc[w] = "wait" /\ pc'[w] = "retry" /\ UNCHANGED <<job, seen>> /\ Orphan(w, TRUE)
      BY <1>10 DEF Fail, ObjectInv, LeaseInv, TypeOK
    <2>2. \A m \in net' : m \in net
      BY <2>1 DEF Orphan
    <2>3. Paced'
      BY <1>0, <2>1 DEF ObjectInv, Paced
    <2> QED BY <1>4, <1>6, <2>1, <2>2, <2>3 DEF Holding, Faithful
  <1>11. CASE Crash(w)
    <2>1. pc'[w] = "idle" /\ Orphan(w, FALSE)
      BY <1>11 DEF Crash, ObjectInv, LeaseInv, TypeOK
    <2>2. ASSUME NEW m \in net'
          PROVE  \E x \in net : /\ m.key = x.key /\ m.version = x.version /\ m.until = x.until
                                /\ m.worker = x.worker \/ x.worker = w
      <3>1. PICK x \in net : m = IF x.worker = w THEN [x EXCEPT !.worker = NoOne] ELSE x
        BY <2>1 DEF Orphan
      <3>2. x \in Requests
        BY DEF ObjectInv, LeaseInv, TypeOK
      <3> QED BY <3>1, <3>2 DEF Requests
    <2>3. NetBounded'
      BY <1>0, <2>2 DEF ObjectInv, NetBounded
    <2>4. Paced'
      BY <1>0, <2>1 DEF ObjectInv, Paced
    <2>5. ASSUME NEW a \in Engaged' PROVE \E b \in Engaged :
            /\ a.key = b.key /\ a.version = b.version /\ a.until <= b.until
            /\ a.worker = b.worker \/ b.worker = w
      <3>1. ASSUME NEW v \in Workers, Sending(v)', a = Promise(v)' PROVE a \in Engaged
        <4>1. v # w
          BY <2>1, <3>1 DEF Sending
        <4> QED BY <1>5, <3>1, <4>1
      <3>2. ASSUME NEW m \in net', Open(m)', a = Asked(m)
            PROVE  \E b \in Engaged : /\ a.key = b.key /\ a.version = b.version /\ a.until = b.until
                                      /\ a.worker = b.worker \/ b.worker = w
        <4>1. PICK x \in net : /\ m.key = x.key /\ m.version = x.version /\ m.until = x.until
                               /\ m.worker = x.worker \/ x.worker = w
          BY <2>2
        <4>2. Asked(x) \in Engaged
          BY <1>0, <3>2, <4>1 DEF Engaged, Open
        <4> QED BY <3>2, <4>1, <4>2 DEF Asked
      <3>3. a \in Engaged => a.until \in Int
        BY <1>2
      <3>4. \A b \in Engaged : a.until = b.until => a.until <= b.until
        BY <1>2
      <3> QED BY <3>1, <3>2, <3>4 DEF Engaged, Asked
    <2>6. Kept(w)
      BY <2>1, <2>5 DEF Kept
    <2> QED BY <1>4, <2>1, <2>3, <2>4, <2>6 DEF Holding, Owned
  <1> QED BY <1>7, <1>8, <1>9, <1>10, <1>11


\* A worker with its answer, or without one, gives up its row when nothing is under
\* way for its run; it drops the row only when the object is what the run is.
LEMMA ReleaseObjects ==
  ASSUME ObjectInv, LeaseInv', MaxStall + Timeout < Lease, NEW w \in Workers,
         Acknowledge(w) \/ Retry(w)
  PROVE  ObjectInv'
  <1>0. /\ UNCHANGED <<runs, versions, now, net, object>> /\ pc[w] \in {"ack", "retry"}
        /\ pc'[w] = "idle" /\ job[w].key \in Keys
        /\ \A k \in Keys : outbox[k] \in Rows /\ outbox'[k] \in Rows
        /\ \A v \in Workers \ {w} : /\ pc'[v] = pc[v] /\ job'[v] = job[v] /\ seen'[v] = seen[v]
                                    /\ body'[v] = body[v]
    BY DEF Acknowledge, Retry, Release, receiverVars, ObjectInv, LeaseInv, TypeOK, JobKeys, Holding
  <1>1. ASSUME NEW k \in Keys, k.target = "s3", outbox'[k] # outbox[k]
        PROVE  /\ Owned(w) /\ k = job[w].key /\ outbox'[k].lease = NoOne
               /\ outbox'[k].version # outbox[k].version => pc[w] = "ack" /\ outbox'[k].version = 0
    <2>1. CASE Acknowledge(w)
      <3>1. pc[w] = "ack" /\ Owns(w) /\ k = job[w].key /\ outbox'[k] = NoRow
        BY <1>1, <2>1 DEF Acknowledge, ObjectInv, LeaseInv, TypeOK
      <3> QED BY <1>1, <3>1 DEF Owned, Holding, NoRow
    <2>2. CASE Retry(w)
      <3>1. /\ Owns(w) /\ k = job[w].key /\ pc[w] = "retry"
            /\ outbox'[k] = BackedOff(outbox[k], RetryDelay(job[w].attempts))
        BY <1>1, <2>2 DEF Retry, ObjectInv, LeaseInv, TypeOK
      <3>2. \A row \in Rows : \A delay : /\ BackedOff(row, delay).version = row.version
                                         /\ BackedOff(row, delay).lease = NoOne
        BY DEF BackedOff, Rows
      <3> QED BY <1>0, <1>1, <3>1, <3>2 DEF Owned, Holding
    <2> QED BY <2>1, <2>2
  <1>2. Engaged' = Engaged
    BY <1>0 DEF Engaged, Sending, Open, Promise, Asked
  <1>3. \A r : CurrentKey(r, "s3")' = CurrentKey(r, "s3")
    BY <1>0 DEF CurrentKey
  <1>4. ASSUME NEW k \in Keys, k.target = "s3", NEW a \in Engaged, a.key.run = k.run
        PROVE  outbox'[k] = outbox[k]
    BY <1>0, <1>1, <1>4, SettledAlone
  <1>5. OneRow'
    <2>1. \A k \in Keys : k.target = "s3" /\ Exists(k)' => Exists(k)
      BY <1>1 DEF Exists
    <2> QED BY <1>3, <2>1 DEF ObjectInv, OneRow
  <1>6. Paced' /\ NetBounded'
    BY <1>0 DEF ObjectInv, Paced, NetBounded
  <1>7. Fenced'
    <2>1. ASSUME NEW a \in Engaged PROVE FencedBy(a)'
      <3>1. FencedBy(a) /\ a.key \in Keys /\ "s3" \in Targets /\ a.key.run \in Runs /\ a.key.target = "s3"
        BY EngagedType DEF ObjectInv, Fenced
      <3>2. CurrentKey(a.key.run, "s3") \in Keys /\ CurrentKey(a.key.run, "s3").run = a.key.run
            /\ CurrentKey(a.key.run, "s3").target = "s3"
        BY <3>1, CurrentKeyType
      <3>3. outbox'[a.key] = outbox[a.key]
            /\ outbox'[CurrentKey(a.key.run, "s3")] = outbox[CurrentKey(a.key.run, "s3")]
        BY <1>4, <3>1, <3>2
      <3> QED BY <1>0, <1>3, <3>1, <3>3 DEF FencedBy, Exists
    <2> QED BY <1>2, <2>1 DEF ObjectInv, Fenced
  <1>8. Owners'
    <2> SUFFICES ASSUME NEW v \in Workers, Owned(v)' PROVE Alone(v)' /\ Faithful(v)'
      BY DEF Owners
    <2>1. /\ v # w /\ pc'[v] = pc[v] /\ job'[v] = job[v] /\ body'[v] = body[v]
          /\ pc[v] \in Holding /\ job[v].key \in Keys /\ job[v].key.target = "s3"
      BY <1>0 DEF Owned, Holding, ObjectInv, LeaseInv, JobKeys
    <2>2. outbox'[job[v].key] = outbox[job[v].key]
      <3> SUFFICES ASSUME outbox'[job[v].key] # outbox[job[v].key] PROVE FALSE
        OBVIOUS
      <3>1. outbox'[job[v].key].lease = NoOne
        BY <1>1, <2>1
      <3>2. outbox'[job[v].key].lease = v
        BY <2>1 DEF Owned, Owns
      <3> QED BY <3>1, <3>2, OutboxAssumption
    <2>3. Owned(v)
      BY <2>1, <2>2 DEF Owned, Owns
    <2> QED BY <1>0, <1>2, <2>1, <2>3 DEF ObjectInv, Owners, Alone, Faithful
  <1>9. Delivered'
    <2> SUFFICES ASSUME "s3" \in Targets, NEW r \in Runs, ~Exists(CurrentKey(r, "s3"))'
                 PROVE  object'[r] = runs'[r]
      BY DEF Delivered
    <2>1. CurrentKey(r, "s3") \in Keys /\ CurrentKey(r, "s3").target = "s3" /\ CurrentKey(r, "s3").run = r
      BY CurrentKeyType
    <2>2. CASE ~Exists(CurrentKey(r, "s3"))
      BY <1>0, <2>2 DEF ObjectInv, Delivered
    <2>3. CASE Exists(CurrentKey(r, "s3"))
      <3>1. outbox'[CurrentKey(r, "s3")].version # outbox[CurrentKey(r, "s3")].version
        BY <1>3, <2>3 DEF Exists
      <3>2. Owned(w) /\ CurrentKey(r, "s3") = job[w].key /\ pc[w] = "ack"
        BY <1>1, <2>1, <3>1
      <3> QED BY <1>0, <2>1, <3>2 DEF ObjectInv, Owners, Faithful
    <2> QED BY <2>2, <2>3
  <1> QED BY <1>5, <1>6, <1>7, <1>8, <1>9 DEF ObjectInv

\* A request is served, or lost, or time passes: fewer may be served than before. The
\* one the store serves is of the worker that owns the row, if any worker does.
LEMMA ReceiveObjects ==
  ASSUME ObjectInv, LeaseInv', MaxStall + Timeout < Lease, NEW m \in net, Receive(m) \/ Lose(m)
  PROVE  ObjectInv'
  <1>0. /\ UNCHANGED <<runs, versions, outbox, now, seen, job, body>> /\ m \in Requests
        /\ net' \subseteq net
    BY DEF Receive, Lose, Accept, Store, Answer, workerVars, ObjectInv, LeaseInv, TypeOK
  <1>1. ASSUME NEW v \in Workers, pc'[v] # pc[v]
        PROVE  /\ v = m.worker /\ pc[v] = "wait" /\ pc'[v] \in {"ack", "retry"}
               /\ job[v].key = m.key /\ body[v] = m.body
    <2>1. v = m.worker /\ m.worker # NoOne /\ pc'[v] \in {"ack", "retry"}
      BY <1>1 DEF Receive, Lose, Accept, Store, Answer, workerVars, ObjectInv, LeaseInv, TypeOK
    <2> QED BY <2>1 DEF ObjectInv, LeaseInv, Awaited
  <1>2. \A v \in Workers : pc'[v] \in Holding => pc[v] \in Holding /\ job'[v] = job[v]
    BY <1>0, <1>1 DEF Holding
  <1>3. \A v \in Workers : pc'[v] \in {"claim", "read", "send"} => pc'[v] = pc[v]
    BY <1>1
  <1>4. Paced' /\ NetBounded'
    BY <1>0, <1>3 DEF ObjectInv, Paced, NetBounded
  <1>5. Kept(m)
    <2>1. ASSUME NEW a \in Engaged' PROVE a \in Engaged
      <3>1. ASSUME NEW v \in Workers, Sending(v)', a = Promise(v)' PROVE a \in Engaged
        BY <1>0, <1>3, <3>1 DEF Engaged, Sending, Promise
      <3>2. ASSUME NEW n \in net', Open(n)', a = Asked(n) PROVE a \in Engaged
        BY <1>0, <3>2 DEF Engaged, Open
      <3> QED BY <3>1, <3>2 DEF Engaged, Asked
    <2> QED BY <2>1, EngagedType DEF Kept, ObjectInv
  <1>6. CASE UNCHANGED object /\ (UNCHANGED pc \/ m.key.target = "webhook")
    <2>1. \A v \in Workers : Owned(v)' => Faithful(v)'
      <3> SUFFICES ASSUME NEW v \in Workers, Owned(v)' PROVE Faithful(v)'
        OBVIOUS
      <3>1. pc'[v] = pc[v]
        BY <1>0, <1>1, <1>6 DEF Owned
      <3>2. Owned(v)
        BY <1>0, <3>1 DEF Owned, Owns
      <3> QED BY <1>0, <1>6, <3>1, <3>2 DEF ObjectInv, Owners, Faithful
    <2>2. Delivered'
      BY <1>0, <1>6 DEF ObjectInv, Delivered, Exists, CurrentKey
    <2> QED BY <1>0, <1>2, <1>4, <1>5, <2>1, <2>2, KeptStep
  <1>7. CASE Store(m)
    <2> DEFINE r == m.key.run
    <2>1. /\ m.key.target = "s3" /\ now <= m.until /\ r \in Runs /\ m.key \in Keys
          /\ object' = [object EXCEPT ![r] = IF m.key.op = "delete" THEN 0 ELSE m.body]
          /\ \A v \in Workers : pc'[v] # pc[v] => pc'[v] = "ack"
      BY <1>0, <1>7 DEF Store, Answer, Requests, Keys, ObjectInv, LeaseInv, TypeOK
    <2>2. /\ object'[r] = IF m.key.op = "delete" THEN 0 ELSE m.body
          /\ \A s \in Runs : s # r => object'[s] = object[s]
      BY <2>1 DEF ObjectInv, LeaseInv, TypeOK
    <2>3. PICK a \in Engaged : a = Asked(m)
      BY <2>1 DEF Engaged, Open
    <2>4. a.key = m.key /\ a.worker = m.worker /\ "s3" \in Targets
      BY <2>3, EngagedType DEF Asked, ObjectInv
    <2> HIDE DEF r
    <2>5. \A v \in Workers : Owned(v)' => Faithful(v)'
      <3> SUFFICES ASSUME NEW v \in Workers, Owned(v)' PROVE Faithful(v)'
        OBVIOUS
      <3>1. Owned(v)
        BY <1>0, <1>2 DEF Owned, Owns
      <3>2. /\ Alone(v) /\ Faithful(v) /\ job[v].key.run \in Runs
            /\ job[v].key = CurrentKey(job[v].key.run, "s3")
        BY <3>1, OwnedRow DEF ObjectInv, Owners
      <3>3. CASE job[v].key.run # r
        <4>1. pc'[v] = pc[v]
          BY <1>1, <3>3 DEF r
        <4> QED BY <1>0, <2>2, <3>2, <3>3, <4>1 DEF Faithful
      <3>4. CASE job[v].key.run = r
        <4>1. v = m.worker
          BY <2>4, <3>2, <3>4 DEF Alone, r
        <4>2. pc[v] = "wait" /\ job[v].key = m.key /\ body[v] = m.body
          BY <4>1, OutboxAssumption DEF ObjectInv, LeaseInv, Awaited
        <4>3. /\ m.key.op \in {"put", "delete"}
              /\ m.key.op = "put" => m.body = runs[r]
              /\ m.key.op = "delete" => runs[r] = 0
          BY <2>1, <3>2, <3>4, <4>2 DEF Faithful, CurrentKey, Keys
        <4>4. object'[r] = runs[r]
          BY <2>2, <4>3
        <4>5. pc'[v] \in {"wait", "ack"}
          BY <2>1, <4>2
        <4> QED BY <1>0, <3>4, <4>2, <4>3, <4>4, <4>5 DEF Faithful
      <3> QED BY <3>3, <3>4
    <2>6. Delivered'
      <3> SUFFICES ASSUME NEW s \in Runs, ~Exists(CurrentKey(s, "s3"))' PROVE object'[s] = runs'[s]
        BY DEF Delivered
      <3>1. ~Exists(CurrentKey(s, "s3"))
        BY <1>0 DEF Exists, CurrentKey
      <3>2. s # r
        BY <2>4, <3>1 DEF ObjectInv, Fenced, FencedBy, r
      <3>3. object[s] = runs[s]
        BY <2>4, <3>1 DEF ObjectInv, Delivered
      <3> QED BY <1>0, <2>2, <3>2, <3>3
    <2> QED BY <1>0, <1>2, <1>4, <1>5, <2>5, <2>6, KeptStep
  <1> QED BY <1>6, <1>7 DEF Receive, Lose, Accept, workerVars, receiverVars

\* So it is when time passes; no worker is stalled for longer than it may be.
LEMMA TickObjects ==
  ASSUME ObjectInv, LeaseInv', MaxStall + Timeout < Lease, Tick \/ UNCHANGED vars
  PROVE  ObjectInv'
  <1>0. /\ UNCHANGED <<runs, versions, outbox, pc, seen, job, body, net, object>>
        /\ now \in Nat /\ (now' = now \/ now' = now + 1) /\ MaxStall \in Nat
        /\ \A v \in Workers : seen[v] \in Nat
    BY OutboxAssumption DEF Tick, vars, workerVars, receiverVars, ObjectInv, LeaseInv, TypeOK
  <1>1. Paced'
    <2>1. \A v \in Workers : pc[v] \in {"claim", "read", "send"} => now' <= seen[v] + MaxStall
      BY <1>0 DEF Tick, vars, ObjectInv, Paced
    <2> QED BY <1>0, <2>1 DEF ObjectInv, Paced
  <1>2. NetBounded' /\ Delivered' /\ \A v \in Workers : Owned(v)' => Faithful(v)'
    <2>1. NetBounded' /\ Delivered'
      BY <1>0 DEF ObjectInv, NetBounded, Delivered, Exists, CurrentKey
    <2>2. \A v \in Workers : Owned(v)' => Faithful(v)'
      BY <1>0 DEF ObjectInv, Owners, Owned, Owns, Faithful
    <2> QED BY <2>1, <2>2
  <1>3. Kept(NoOne)
    <2>1. ASSUME NEW a \in Engaged' PROVE a \in Engaged
      <3>1. ASSUME NEW v \in Workers, Sending(v)', a = Promise(v)' PROVE a \in Engaged
        BY <1>0, <3>1 DEF Engaged, Sending, Promise
      <3>2. ASSUME NEW n \in net', Open(n)', a = Asked(n) PROVE a \in Engaged
        <4>1. n.until \in Nat
          BY <1>0, <3>2 DEF ObjectInv, LeaseInv, TypeOK, Requests
        <4>2. now <= n.until
          BY <1>0, <3>2, <4>1 DEF Open
        <4> QED BY <1>0, <3>2, <4>2 DEF Engaged, Open
      <3> QED BY <3>1, <3>2 DEF Engaged, Asked
    <2> QED BY <2>1, EngagedType DEF Kept, ObjectInv
  <1> QED BY <1>0, <1>1, <1>2, <1>3, KeptStep

\* The invariant of the object store is kept by every orderly step.
LEMMA ObjectStep ==
  ASSUME ObjectInv, sweep = NoSweep, [Next /\ Orderly]_vars,
         AtomicRetention, ~LateRequests, MaxStall + Timeout < Lease
  PROVE  ObjectInv' /\ sweep' = NoSweep
  <1>1. LeaseInv'
    BY LeaseStep DEF ObjectInv
  <1>2. sweep' = NoSweep
    <2>1. ASSUME Next PROVE UNCHANGED sweep \/ \E S \in SUBSET Runs : RetainSelect(S)
      BY <2>1 DEF Next, Retention, Delivering, WorkerStep, Insert, Rotate, WritePayload, Retain,
         RetainCommit, Select, Claim, Read, Send, Acknowledge, Retry, Release, Fail, Crash,
         Receive, Lose, Tick
    <2> QED BY <2>1 DEF vars, RetainSelect
  <1>3. ASSUME NEW S \in SUBSET Runs, Insert(S) \/ Rotate(S), Orderly PROVE ObjectInv'
    BY <1>1, <1>3, WriteObjects
  <1>4. ASSUME NEW S \in SUBSET Runs, Retain(S), Orderly PROVE ObjectInv'
    BY <1>1, <1>4, RetainObjects
  <1>5. ~RetainCommit /\ \A S : ~RetainSelect(S)
    BY DEF RetainCommit, RetainSelect
  <1>6. ASSUME NEW w \in Workers, WorkerStep(w) \/ Fail(w) \/ Crash(w) PROVE ObjectInv'
    BY <1>1, <1>6, StepObjects, ClaimObjects, ReleaseObjects DEF WorkerStep
  <1>7. ASSUME NEW m \in net, Receive(m) \/ Lose(m) PROVE ObjectInv'
    BY <1>1, <1>7, ReceiveObjects
  <1>8. ASSUME Tick \/ UNCHANGED vars PROVE ObjectInv'
    BY <1>1, <1>8, TickObjects
  <1> QED BY <1>2, <1>3, <1>4, <1>5, <1>6, <1>7, <1>8 DEF Next, Retention, Delivering

\* It holds of an empty store.
LEMMA ObjectInit == Init => ObjectInv /\ sweep = NoSweep
  <1> SUFFICES ASSUME Init PROVE ObjectInv
    BY DEF Init
  <1>1. LeaseInv
    BY InitInv DEF Init, LeaseInv, Bounded, Leased, LeaseExclusive, Holding, NoRow, Keys
  <1>2. Engaged = {} /\ \A k \in Keys : ~Exists(k)
    BY DEF Init, Engaged, Sending, Exists, NoRow
  <1>3. OneRow /\ Fenced
    BY <1>2 DEF OneRow, Fenced
  <1>4. Paced /\ NetBounded /\ Owners /\ Delivered
    BY DEF Init, Paced, NetBounded, Owners, Owned, Holding, Delivered
  <1> QED BY <1>1, <1>3, <1>4 DEF ObjectInv

\* An object store without versions ends as the database does: the object of a
\* stored run is its payload and a retained run has none, for any number of runs and
\* workers and however claims run out, provided that a claim outlasts the stall of a
\* worker and the timeout of its request, that retention is one transaction, and
\* that its callers are orderly.
THEOREM ObjectsMirror ==
  ASSUME AtomicRetention, ~LateRequests, MaxStall + Timeout < Lease
  PROVE  SpecOrderly => []ObjectMirror
  <1>1. Init => ObjectInv /\ sweep = NoSweep
    BY ObjectInit
  <1>2. ObjectInv /\ sweep = NoSweep /\ [Next /\ Orderly]_vars
        => (ObjectInv /\ sweep = NoSweep)'
    BY ObjectStep
  <1>3. ObjectInv => ObjectMirror
    BY CurrentKeyType DEF ObjectInv, Delivered, ObjectMirror
  <1> QED
    BY <1>1, <1>2, <1>3, PTL DEF SpecOrderly

-----------------------------------------------------------------------------
(* The outbox implements what a delivery target is promised.               *)

\* Announced, as a function of the runs.
LEMMA AnnouncedValue ==
  /\ \A t : \A r \in Runs : Announced(t)[r] <=> Exists(CurrentKey(r, t))
  /\ \A t : \A r \in Runs : Announced(t)'[r] <=> Exists(CurrentKey(r, t))'
  BY Zenon DEF Announced

\* A step that changes no run, and no version of a row that the database asks for,
\* changes no announcement.
LEMMA SteadyAnnounced ==
  ASSUME UNCHANGED runs, NEW t \in Targets,
         \A k \in Keys : k.target = t /\ k = CurrentKey(k.run, t)
                        => outbox'[k].version = outbox[k].version
  PROVE  Announced(t)' = Announced(t)
  <1>1. ASSUME NEW r \in Runs PROVE Exists(CurrentKey(r, t))' = Exists(CurrentKey(r, t))
    <2>1. /\ CurrentKey(r, t)' = CurrentKey(r, t) /\ CurrentKey(r, t) \in Keys
          /\ CurrentKey(r, t).target = t /\ CurrentKey(r, t).run = r
      BY DEF CurrentKey, Keys
    <2> QED BY <2>1 DEF Exists
  <1>2. Announced(t)' = [r \in Runs |-> Exists(CurrentKey(r, t))']
    BY Zenon DEF Announced
  <1>3. [r \in Runs |-> Exists(CurrentKey(r, t))'] = [r \in Runs |-> Exists(CurrentKey(r, t))]
    BY <1>1, Zenon
  <1> QED BY <1>2, <1>3, Zenon DEF Announced

\* An acknowledgement gives up at most the row of one run.
LEMMA SettledAnnounced ==
  ASSUME UNCHANGED runs, NEW t \in Targets, NEW r \in Runs,
         ~Exists(CurrentKey(r, t))',
         \A k \in Keys : k # CurrentKey(r, t) => outbox'[k].version = outbox[k].version
  PROVE  Announced(t)' = [Announced(t) EXCEPT ![r] = FALSE]
  <1>1. ASSUME NEW s \in Runs, s # r PROVE Exists(CurrentKey(s, t))' = Exists(CurrentKey(s, t))
    <2>1. /\ CurrentKey(s, t)' = CurrentKey(s, t) /\ CurrentKey(s, t) \in Keys
          /\ CurrentKey(s, t).run = s /\ CurrentKey(r, t).run = r
      BY DEF CurrentKey, Keys
    <2> QED BY <1>1, <2>1 DEF Exists
  <1>2. Announced(t)' = [s \in Runs |-> Exists(CurrentKey(s, t))']
    BY Zenon DEF Announced
  <1>3. ASSUME NEW s \in Runs
        PROVE  Exists(CurrentKey(s, t))' = IF s = r THEN FALSE ELSE Announced(t)[s]
    <2>1. Announced(t)[s] = Exists(CurrentKey(s, t))
      BY Zenon DEF Announced
    <2> QED BY <1>1, <2>1 DEF Exists
  <1>4. [s \in Runs |-> Exists(CurrentKey(s, t))']
        = [s \in Runs |-> IF s = r THEN FALSE ELSE Announced(t)[s]]
    BY <1>3, Zenon
  <1>5. DOMAIN Announced(t) = Runs
    BY Zenon DEF Announced
  <1>6. [Announced(t) EXCEPT ![r] = FALSE]
        = [s \in Runs |-> IF s = r THEN FALSE ELSE Announced(t)[s]]
    BY <1>5
  <1> QED BY <1>2, <1>4, <1>6, Zenon

\* An insert, a rotation and a retention announce the runs they write.
LEMMA RewrittenAnnounced ==
  ASSUME TypeOK, NEW S \in SUBSET Runs, NEW op \in {"put", "delete"}, Rewritten(S, op),
         NEW t \in Targets
  PROVE  Announced(t)' = [r \in Runs |-> r \in S \/ Announced(t)[r]]
  <1>1. /\ \A r \in Runs : versions[r] \in Nat
        /\ Rank(t) \in {1, 2} /\ Width \in {1, 2}
    BY RankType DEF TypeOK
  <1>2. ASSUME NEW r \in S PROVE Exists(CurrentKey(r, t))'
    <2>1. CurrentKey(r, t)' = [run |-> r, target |-> t, op |-> op]
      <3>1. runs'[r] = 0 <=> op = "delete"
        BY <1>1, <1>2 DEF Rewritten
      <3> QED BY <3>1 DEF CurrentKey
    <2>2. [run |-> r, target |-> t, op |-> op] \in Keys
      BY <1>2 DEF Keys
    <2>3. outbox'[[run |-> r, target |-> t, op |-> op]].version = versions[r] + Rank(t)
      BY <1>2, <2>2 DEF Rewritten
    <2> QED BY <1>1, <1>2, <2>1, <2>3 DEF Exists
  <1>3. ASSUME NEW r \in Runs \ S PROVE Exists(CurrentKey(r, t))' = Exists(CurrentKey(r, t))
    <2>1. /\ CurrentKey(r, t)' = CurrentKey(r, t) /\ CurrentKey(r, t) \in Keys
          /\ CurrentKey(r, t).run = r
      BY <1>3 DEF CurrentKey, Keys, Rewritten
    <2>2. outbox'[CurrentKey(r, t)] = outbox[CurrentKey(r, t)]
      BY <1>3, <2>1 DEF Rewritten
    <2> QED BY <2>1, <2>2 DEF Exists
  <1>4. ASSUME NEW r \in Runs
        PROVE  Exists(CurrentKey(r, t))' = (r \in S \/ Announced(t)[r])
    <2>1. Announced(t)[r] = Exists(CurrentKey(r, t))
      BY Zenon DEF Announced
    <2> QED BY <1>2, <1>3, <2>1 DEF Exists
  <1>5. Announced(t)' = [r \in Runs |-> Exists(CurrentKey(r, t))']
    BY Zenon DEF Announced
  <1> QED BY <1>4, <1>5, Zenon

\* Before it acknowledges, a worker leaves every row its version.
LEMMA SameVersions ==
  ASSUME TypeOK, JobKeys, NEW w \in Workers,
         Select(w) \/ Claim(w) \/ Read(w) \/ Send(w) \/ Retry(w) \/ Fail(w) \/ Crash(w)
  PROVE  \A k \in Keys : outbox'[k].version = outbox[k].version
  <1>1. \A row \in Rows : /\ \A delay : BackedOff(row, delay).version = row.version
                          /\ \A v, until : Claimed(row, v, until).version = row.version
    BY DEF BackedOff, Claimed, Rows
  <1>2. CASE Claim(w)
    <2>1. \A c \in cand[w] : c.key \in Keys
      BY DEF TypeOK, Seen
    <2> QED BY <1>1, <1>2, <2>1 DEF Claim, TypeOK
  <1>3. CASE Retry(w)
    <2>1. job[w].key \in Keys
      BY <1>3 DEF Retry, JobKeys, Holding
    <2> QED BY <1>1, <1>3, <2>1 DEF Retry, TypeOK
  <1>4. CASE UNCHANGED outbox
    BY <1>4
  <1> QED BY <1>2, <1>3, <1>4 DEF Select, Read, Send, Fail, Crash

\* Every step of the outbox is one that a mirror of the webhook may take, or none.
LEMMA HooksNext ==
  ASSUME MirrorInv, MirrorInv', [Next]_vars, "webhook" \in Targets
  PROVE  [Hooks!Next]_Hooks!vars
  <1> USE DEF MirrorInv
  <1>0. /\ Rank("webhook") = 1 /\ Width \in {1, 2}
        /\ \A r \in Runs : versions[r] \in Nat /\ versions'[r] \in Nat /\ inbox[r].version \in Nat
        /\ \A r \in Runs : Current(r, "webhook") = versions[r] - Width + 1
        /\ \A k \in Keys : k.run \in Runs
    BY RankType DEF TypeOK, Rank, Current, Keys
  <1>1. ASSUME UNCHANGED <<runs, versions, inbox>>,
               \A k \in Keys : k.target = "webhook" /\ k = CurrentKey(k.run, "webhook")
                              => outbox'[k].version = outbox[k].version
        PROVE  UNCHANGED Hooks!vars
    <2>1. Announced("webhook")' = Announced("webhook")
      BY <1>1, SteadyAnnounced
    <2>2. Snapshots' = Snapshots
      BY <1>1 DEF Snapshots, Current
    <2> QED BY <1>1, <2>1, <2>2 DEF Hooks!vars
  <1>2. ASSUME NEW S \in SUBSET Runs, NEW op \in {"put", "delete"}, Rewritten(S, op)
        PROVE  Hooks!Next
    <2>1. Announced("webhook")' = [r \in Runs |-> r \in S \/ Announced("webhook")[r]]
      BY <1>2, RewrittenAnnounced
    <2>2. \A r \in Runs \ S : Snapshots'[r] = Snapshots[r]
      <3>1. \A r \in Runs \ S : runs'[r] = runs[r] /\ versions'[r] = versions[r]
        BY <1>2 DEF Rewritten
      <3> QED BY <3>1 DEF Snapshots, Current
    <2>3. ASSUME NEW r \in S PROVE Snapshots[r].version < Snapshots'[r].version
      <3>1. versions'[r] = versions[r] + Width /\ r \in Runs
        BY <1>2 DEF Rewritten
      <3>2. /\ Snapshots[r].version = IF versions[r] = 0 THEN 0 ELSE versions[r] - Width + 1
            /\ Snapshots'[r].version = IF versions'[r] = 0 THEN 0 ELSE versions'[r] - Width + 1
        BY <1>0, <3>1 DEF Snapshots, Current
      <3> QED BY <1>0, <3>1, <3>2
    <2>4. UNCHANGED inbox
      BY <1>2 DEF Rewritten, receiverVars
    <2>5. Hooks!Write(S)
      BY <2>1, <2>2, <2>3, <2>4 DEF Hooks!Write
    <2> QED BY <2>5 DEF Hooks!Next
  <1>3. ASSUME NEW r \in Runs, Mirrored(r), Current(r, "webhook") > 0
        PROVE  inbox[r] = Snapshots[r]
    <2>1. versions[r] # 0
      BY <1>0, <1>3
    <2> QED BY <1>3, <2>1 DEF Mirrored, Snapshots
  <1>4. ASSUME NEW w \in Workers, Acknowledge(w)
        PROVE  [Hooks!Next]_Hooks!vars
    <2>1. /\ pc[w] = "ack" /\ job[w].key \in Keys /\ UNCHANGED <<runs, versions, inbox>>
      BY <1>4 DEF Acknowledge, Release, receiverVars, JobKeys, Holding
    <2>2. CASE Owns(w) /\ outbox' = [outbox EXCEPT ![job[w].key] = NoRow]
               /\ job[w].key = CurrentKey(job[w].key.run, "webhook")
      <3>1. PICK k \in Keys : k = job[w].key
        BY <2>1
      <3>2. outbox[k].version = job[w].version /\ 0 < job[w].version /\ job[w].version \in Nat
        BY <2>1, <2>2, <3>1 DEF Owns, Newest, Holding, Drawn, TypeOK, Jobs
      <3>3. Exists(k)
        BY <3>2 DEF Exists
      <3>4. Latest(k, job[w].version)
        BY <2>2, <3>1, <3>2, <3>3 DEF Newest
      <3>5. Mirrored(k.run) /\ Current(k.run, "webhook") > 0 /\ k.run \in Runs
        BY <1>0, <2>1, <3>1, <3>2, <3>4 DEF Received, Latest
      <3>6. inbox[k.run] = Snapshots[k.run]
        BY <1>3, <3>5
      <3>7. outbox'[k].version = 0 /\ \A l \in Keys : l # k => outbox'[l].version = outbox[l].version
        BY <2>2, <3>1 DEF TypeOK, NoRow
      <3>8. k = CurrentKey(k.run, "webhook") /\ k = CurrentKey(k.run, "webhook")'
        BY <2>1, <2>2, <3>1 DEF CurrentKey
      <3>9. Announced("webhook")' = [Announced("webhook") EXCEPT ![k.run] = FALSE]
        <4>1. ~Exists(CurrentKey(k.run, "webhook"))'
          BY <3>7, <3>8 DEF Exists
        <4> QED BY <2>1, <3>5, <3>7, <3>8, <4>1, SettledAnnounced
      <3>10. Announced("webhook")[k.run]
        BY <3>3, <3>5, <3>8, AnnouncedValue
      <3>11. Snapshots' = Snapshots
        BY <2>1 DEF Snapshots, Current
      <3>12. Hooks!Settle(k.run)
        BY <2>1, <3>6, <3>9, <3>10, <3>11 DEF Hooks!Settle
      <3> QED BY <3>5, <3>12 DEF Hooks!Next
    <2>3. CASE ~(Owns(w) /\ outbox' = [outbox EXCEPT ![job[w].key] = NoRow]
                 /\ job[w].key = CurrentKey(job[w].key.run, "webhook"))
      <3>1. \A k \in Keys : k.target = "webhook" /\ k = CurrentKey(k.run, "webhook")
                           => outbox'[k].version = outbox[k].version
        BY <1>4, <2>1, <2>3 DEF Acknowledge, TypeOK
      <3> QED BY <1>1, <2>1, <3>1
    <2> QED BY <2>2, <2>3
  <1>5. ASSUME NEW w \in Workers,
               Select(w) \/ Claim(w) \/ Read(w) \/ Send(w) \/ Retry(w) \/ Fail(w) \/ Crash(w)
        PROVE  UNCHANGED Hooks!vars
    <2>1. UNCHANGED <<runs, versions, inbox>>
      BY <1>5 DEF Select, Claim, Read, Send, Retry, Release, Fail, Crash, receiverVars
    <2>2. \A k \in Keys : outbox'[k].version = outbox[k].version
      BY <1>5, SameVersions
    <2> QED BY <1>1, <2>1, <2>2
  <1>6. ASSUME NEW m \in net, Receive(m) \/ Lose(m)
        PROVE  [Hooks!Next]_Hooks!vars
    <2>1. UNCHANGED <<runs, versions, outbox>>
      BY <1>6 DEF Receive, Lose, workerVars
    <2>2. CASE UNCHANGED inbox
      BY <1>1, <2>1, <2>2
    <2>3. CASE ~UNCHANGED inbox
      <3> DEFINE r == m.key.run
      <3>1. /\ m.key.target = "webhook" /\ m.version > inbox[r].version
            /\ inbox' = [inbox EXCEPT ![r] =
                 [version |-> m.version, deleted |-> m.key.op = "delete",
                  payload |-> IF m.key.op = "delete" THEN 0 ELSE m.body]]
        BY <1>6, <2>3 DEF Receive, Lose, Accept, Store, Supersedes, receiverVars
      <3>2. m.key \in Keys /\ r \in Runs /\ m.version \in Nat
        BY <1>0 DEF TypeOK, Requests
      <3>3. /\ 0 < m.version /\ m.version <= Current(r, "webhook")
            /\ m.version = Current(r, "webhook") =>
                 m.key = CurrentKey(r, "webhook") /\ m.body = runs[r]
        BY <3>1 DEF Newest, Drawn, Latest
      <3>4. versions[r] # 0 /\ Current(r, "webhook") \in Int
        BY <1>0, <3>2, <3>3
      <3>5. Exists(CurrentKey(r, "webhook"))
        <4> SUFFICES ASSUME ~Exists(CurrentKey(r, "webhook")) PROVE FALSE
          OBVIOUS
        <4>1. Mirrored(r)
          BY <3>2, <3>4 DEF WebhookMirror, Mirrored
        <4>2. inbox[r].version = Current(r, "webhook")
          BY <4>1 DEF Mirrored
        <4> QED BY <1>0, <3>1, <3>2, <3>3, <3>4, <4>2
      <3>6. Snapshots[r] = [version |-> Current(r, "webhook"), payload |-> runs[r],
                            deleted |-> runs[r] = 0]
        BY <3>2, <3>4 DEF Snapshots
      <3>7. inbox'[r] = [version |-> m.version, deleted |-> m.key.op = "delete",
                         payload |-> IF m.key.op = "delete" THEN 0 ELSE m.body]
        BY <3>1, <3>2 DEF TypeOK
      <3>8. inbox'[r].version = m.version
        BY <3>7
      <3>9. m.version = Current(r, "webhook") => inbox'[r] = Snapshots[r]
        <4> SUFFICES ASSUME m.version = Current(r, "webhook") PROVE inbox'[r] = Snapshots[r]
          OBVIOUS
        <4>1. m.key.op = (IF runs[r] = 0 THEN "delete" ELSE "put") /\ m.body = runs[r]
          BY <3>3 DEF CurrentKey
        <4> QED BY <3>6, <3>7, <4>1
      <3>10. Snapshots' = Snapshots
        BY <2>1 DEF Snapshots, Current
      <3>11. Announced("webhook")' = Announced("webhook") /\ Announced("webhook")[r]
        <4>1. Announced("webhook")' = Announced("webhook")
          BY <2>1, SteadyAnnounced
        <4> QED BY <3>2, <3>5, <4>1, AnnouncedValue
      <3>12. inbox' = [inbox EXCEPT ![r] = inbox'[r]]
        BY <3>1, <3>7
      <3>13. inbox'[r].version < Snapshots[r].version \/ inbox'[r] = Snapshots[r]
        <4>1. Snapshots[r].version = Current(r, "webhook")
          BY <3>6
        <4> QED BY <3>2, <3>3, <3>4, <3>8, <3>9, <4>1
      <3>14. inbox[r].version < inbox'[r].version
        BY <1>0, <3>1, <3>2, <3>8
      <3> HIDE DEF r
      <3>15. Hooks!Deliver(r)
        BY <3>10, <3>11, <3>12, <3>13, <3>14 DEF Hooks!Deliver
      <3> QED BY <3>2, <3>15 DEF Hooks!Next
    <2> QED BY <2>2, <2>3
  <1>7. ASSUME Tick \/ UNCHANGED vars \/ \E S \in SUBSET Runs : RetainSelect(S)
        PROVE  UNCHANGED Hooks!vars
    <2>1. UNCHANGED <<runs, versions, outbox, inbox>>
      BY <1>7 DEF Tick, vars, RetainSelect, receiverVars
    <2> QED BY <1>1, <2>1
  <1>8. ASSUME NEW S \in SUBSET Runs, Insert(S) \/ Rotate(S) PROVE Hooks!Next
    BY <1>2, <1>8, WritePayloadRewrites DEF Insert, Rotate
  <1>9. ASSUME NEW S \in SUBSET Runs, Retain(S) PROVE Hooks!Next
    BY <1>2, <1>9, LeasesType, RetainWritesRewrites DEF Retain
  <1>10. ASSUME RetainCommit PROVE Hooks!Next
    <2>1. sweep.runs \in SUBSET Runs /\ sweep.held \in SUBSET Held
      BY DEF TypeOK
    <2> QED BY <1>2, <1>10, <2>1, RetainWritesRewrites DEF RetainCommit
  <1> QED BY <1>4, <1>5, <1>6, <1>7, <1>8, <1>9, <1>10 DEF Next, Retention, Delivering, WorkerStep

\* Nothing is announced of an empty store.
LEMMA NothingAnnounced ==
  ASSUME Init, NEW t \in Targets
  PROVE  Announced(t) = [r \in Runs |-> FALSE]
  <1>1. \A r \in Runs : CurrentKey(r, t) \in Keys
    BY DEF CurrentKey, Keys
  <1>2. \A r \in Runs : Exists(CurrentKey(r, t)) = FALSE
    BY <1>1 DEF Init, Exists, NoRow
  <1> QED BY <1>2, Zenon DEF Announced

\* The outbox, its workers and the inbox of the packages keep what is promised of a
\* webhook: whatever is lost, late or repeated, the inbox moves to later versions
\* only, and a run is settled when the inbox has it.
THEOREM HooksAreFollowed ==
  ASSUME "webhook" \in Targets
  PROVE  Spec => HooksFollow
  <1>1. Init => MirrorInv
    BY MirrorInit
  <1>2. MirrorInv /\ [Next]_vars => MirrorInv'
    BY MirrorStep
  <1>3. Init => Hooks!Init
    <2> SUFFICES ASSUME Init PROVE Hooks!Init
      OBVIOUS
    <2>1. inbox = Snapshots
      BY DEF Init, Snapshots
    <2> QED BY <2>1, NothingAnnounced DEF Hooks!Init
  <1>4. MirrorInv /\ MirrorInv' /\ [Next]_vars => [Hooks!Next]_Hooks!vars
    BY HooksNext
  <1> QED
    BY <1>1, <1>2, <1>3, <1>4, PTL DEF Spec, HooksFollow, Hooks!Spec

\* Every orderly step is one that a mirror without versions may take, or none.
LEMMA ObjectsNext ==
  ASSUME ObjectInv, sweep = NoSweep, [Next /\ Orderly]_vars, MaxStall + Timeout < Lease,
         AtomicRetention, "s3" \in Targets
  PROVE  [Objects!Next]_Objects!vars
  <1>0. TypeOK /\ JobKeys /\ \A k \in Keys : k.run \in Runs
    BY DEF ObjectInv, LeaseInv, Keys
  <1>1. ASSUME UNCHANGED <<runs, object>>,
               \A k \in Keys : k.target = "s3" => outbox'[k].version = outbox[k].version
        PROVE  UNCHANGED Objects!vars
    BY <1>1, SteadyAnnounced DEF Objects!vars
  <1>2. ASSUME NEW S \in SUBSET Runs, NEW op \in {"put", "delete"}, Rewritten(S, op)
        PROVE  Objects!Next
    <2>1. Announced("s3")' = [r \in Runs |-> r \in S \/ Announced("s3")[r]]
      BY <1>0, <1>2, RewrittenAnnounced
    <2>2. (\A r \in Runs \ S : runs'[r] = runs[r]) /\ UNCHANGED object
      BY <1>2 DEF Rewritten, receiverVars
    <2>3. Objects!Write(S)
      BY <2>1, <2>2 DEF Objects!Write
    <2> QED BY <2>3 DEF Objects!Next
  <1>3. ASSUME NEW w \in Workers, Acknowledge(w)
        PROVE  [Objects!Next]_Objects!vars
    <2>1. pc[w] = "ack" /\ job[w].key \in Keys /\ UNCHANGED <<runs, object>>
      BY <1>0, <1>3 DEF Acknowledge, Release, receiverVars, JobKeys, Holding
    <2>2. CASE Owned(w) /\ outbox' = [outbox EXCEPT ![job[w].key] = NoRow]
      <3>1. PICK k \in Keys : k = job[w].key
        BY <2>1
      <3>2. k.run \in Runs /\ Exists(k) /\ k = CurrentKey(k.run, "s3")
        BY <2>2, <3>1, OwnedRow
      <3>3. object[k.run] = runs[k.run]
        BY <2>1, <2>2, <3>1 DEF ObjectInv, Owners, Faithful
      <3>4. outbox'[k].version = 0 /\ \A l \in Keys : l # k => outbox'[l].version = outbox[l].version
        BY <1>0, <2>2, <3>1 DEF TypeOK, NoRow
      <3>5. Announced("s3")' = [Announced("s3") EXCEPT ![k.run] = FALSE]
        <4>1. k = CurrentKey(k.run, "s3")'
          BY <2>1, <3>2 DEF CurrentKey
        <4>2. ~Exists(CurrentKey(k.run, "s3"))'
          BY <3>4, <4>1 DEF Exists
        <4> QED BY <2>1, <3>2, <3>4, <4>2, SettledAnnounced
      <3>6. Announced("s3")[k.run]
        BY <3>2, AnnouncedValue
      <3>7. Objects!Settle(k.run)
        BY <2>1, <3>3, <3>5, <3>6 DEF Objects!Settle
      <3> QED BY <3>2, <3>7 DEF Objects!Next
    <2>3. CASE ~(Owned(w) /\ outbox' = [outbox EXCEPT ![job[w].key] = NoRow])
      <3>1. \A k \in Keys : k.target = "s3" => outbox'[k].version = outbox[k].version
        BY <1>0, <1>3, <2>1, <2>3 DEF Acknowledge, TypeOK, Owned, Holding
      <3> QED BY <1>1, <2>1, <3>1
    <2> QED BY <2>2, <2>3
  <1>4. ASSUME NEW w \in Workers,
               Select(w) \/ Claim(w) \/ Read(w) \/ Send(w) \/ Retry(w) \/ Fail(w) \/ Crash(w)
        PROVE  UNCHANGED Objects!vars
    <2>1. UNCHANGED <<runs, object>>
      BY <1>4 DEF Select, Claim, Read, Send, Retry, Release, Fail, Crash, receiverVars
    <2>2. \A k \in Keys : outbox'[k].version = outbox[k].version
      BY <1>0, <1>4, SameVersions
    <2> QED BY <1>1, <2>1, <2>2
  <1>5. ASSUME NEW m \in net, Receive(m) \/ Lose(m)
        PROVE  [Objects!Next]_Objects!vars
    <2>1. UNCHANGED <<runs, outbox>>
      BY <1>5 DEF Receive, Lose, workerVars
    <2>2. CASE UNCHANGED object
      BY <1>1, <2>1, <2>2
    <2>3. CASE Store(m)
      <3> DEFINE r == m.key.run
      <3>1. PICK c : object' = [object EXCEPT ![r] = c]
        BY <2>3 DEF Store
      <3>2. Asked(m) \in Engaged /\ Asked(m).key = m.key
        BY <2>3 DEF Engaged, Open, Store, Asked
      <3>3. Exists(CurrentKey(r, "s3")) /\ r \in Runs
        BY <3>2, EngagedType DEF ObjectInv, Fenced, FencedBy
      <3>4. object' = [object EXCEPT ![r] = object'[r]]
        BY <1>0, <3>1, <3>3 DEF TypeOK
      <3>5. Announced("s3")' = Announced("s3") /\ Announced("s3")[r]
        <4>1. Announced("s3")' = Announced("s3")
          BY <2>1, SteadyAnnounced
        <4> QED BY <3>3, <4>1, AnnouncedValue
      <3> HIDE DEF r
      <3>6. Objects!Deliver(r)
        BY <2>1, <3>4, <3>5 DEF Objects!Deliver
      <3> QED BY <3>3, <3>6 DEF Objects!Next
    <2> QED BY <1>5, <2>2, <2>3 DEF Receive, Lose, Accept, receiverVars
  <1>6. ASSUME Tick \/ UNCHANGED vars
        PROVE  UNCHANGED Objects!vars
    <2>1. UNCHANGED <<runs, outbox, object>>
      BY <1>6 DEF Tick, vars, receiverVars
    <2> QED BY <1>1, <2>1
  <1>7. ASSUME NEW S \in SUBSET Runs, Insert(S) \/ Rotate(S) PROVE Objects!Next
    BY <1>0, <1>2, <1>7, WritePayloadRewrites DEF Insert, Rotate
  <1>8. ASSUME NEW S \in SUBSET Runs, Retain(S) PROVE Objects!Next
    BY <1>0, <1>2, <1>8, LeasesType, RetainWritesRewrites DEF Retain
  <1>9. ~RetainCommit /\ \A S : ~RetainSelect(S)
    BY DEF RetainCommit, RetainSelect
  <1> QED BY <1>3, <1>4, <1>5, <1>6, <1>7, <1>8, <1>9 DEF Next, Retention, Delivering, WorkerStep

\* The outbox keeps the same promise of an object store, that cannot compare versions:
\* its leases see to it that nothing settled is overwritten by what was under way.
THEOREM ObjectsAreFollowed ==
  ASSUME AtomicRetention, ~LateRequests, MaxStall + Timeout < Lease, "s3" \in Targets
  PROVE  SpecOrderly => ObjectsFollow
  <1>1. Init => ObjectInv /\ sweep = NoSweep
    BY ObjectInit
  <1>2. ObjectInv /\ sweep = NoSweep /\ [Next /\ Orderly]_vars
        => (ObjectInv /\ sweep = NoSweep)'
    BY ObjectStep
  <1>3. Init => Objects!Init
    <2> SUFFICES ASSUME Init PROVE Objects!Init
      OBVIOUS
    <2>1. object = runs
      BY DEF Init
    <2> QED BY <2>1, NothingAnnounced DEF Objects!Init
  <1>4. ObjectInv /\ sweep = NoSweep /\ [Next /\ Orderly]_vars => [Objects!Next]_Objects!vars
    BY ObjectsNext
  <1> QED
    BY <1>1, <1>2, <1>3, <1>4, PTL DEF SpecOrderly, ObjectsFollow, Objects!Spec
=============================================================================
