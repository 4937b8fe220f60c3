------------------------------- MODULE Outbox -------------------------------
(***************************************************************************)
(* The durable delivery outbox of refract-storage and the delivery worker  *)
(* of refract-server, for one scope (organization, project, environment):  *)
(* run snapshots, the persistent delivery_versions counter, the outbox     *)
(* rows with their timed leases, the workers that claim, deliver and       *)
(* acknowledge them, retention, key rotation, the webhook inbox that the   *)
(* Python and Node packages ship, and an unversioned object store.         *)
(*                                                                         *)
(* Scopes never share a row, so one scope stands for all of them.  A       *)
(* payload is identified by the value of the run's version counter when it *)
(* was written: every write of runs.execution that a delivery can observe  *)
(* (insert, rotation) bumps that counter in the same transaction.  A       *)
(* delivery id is drawn together with a fresh version, so <<key, version>> *)
(* stands for it; a lease token is drawn by one worker for one claim, so   *)
(* the worker stands for it.                                               *)
(***************************************************************************)
EXTENDS Integers

CONSTANTS
  Runs,             \* run ids that may be inserted
  Targets,          \* configured delivery targets (Delivery::targets)
  Workers,          \* delivery workers, one per service process
  NoOne,            \* the empty lease token; also a request nobody awaits
  NoKey,            \* the key of a worker without a job
  Lease,            \* length of a claim (120 seconds in the code)
  Timeout,          \* HTTP client timeout (30 seconds in the code)
  Backoff,          \* retry delays by attempt: min(2^n, 3600) for n in 1..12
  MaxStall,         \* external: time a live worker may take from SELECT to send
  LateRequests,     \* external: a failed request may still be processed later
  AtomicRetention,  \* TRUE: SQLite; FALSE: PostgreSQL, READ COMMITTED
  MaxTime,          \* bound on the clock
  MaxVersion        \* bound on a run's version counter

ASSUME OutboxAssumption ==
  /\ Targets \subseteq {"webhook", "s3"} /\ Targets # {}
  /\ NoOne \notin Workers
  /\ Lease \in Nat \ {0} /\ Timeout \in Nat /\ MaxStall \in Nat
  /\ Backoff \in [1..12 -> Nat \ {0}]
  /\ LateRequests \in BOOLEAN /\ AtomicRetention \in BOOLEAN
  /\ MaxTime \in Nat /\ MaxVersion \in Nat

Keys == [run: Runs, target: Targets, op: {"put", "delete"}]

ASSUME NoKeyAssumption == NoKey \notin Keys

\* Order of options.outbox_targets: one version is drawn per target.
Rank(t) == IF t = "s3" /\ "webhook" \in Targets THEN 2 ELSE 1
Width == IF Targets = {"webhook", "s3"} THEN 2 ELSE 1

VARIABLES
  runs,       \* runs[r]: the stored payload, 0 when the row does not exist
  versions,   \* delivery_versions; 0 before the first enqueue
  outbox,     \* one row per (run, target, operation); version 0 = no row
  now,        \* Utc::now(), in abstract seconds
  pc, cand, seen, job, body,  \* per worker, see TypeOK
  net,        \* HTTP requests that may still reach their receiver
  inbox,      \* the receiver's deliveries table; version 0 = no row
  receipts,   \* the receiver's receipts table
  object,     \* the object store; 0 = no object
  sweep       \* a retention transaction between its SELECTs and its writes

workerVars   == <<pc, cand, seen, job, body>>
receiverVars == <<inbox, receipts, object>>
vars == <<runs, versions, outbox, now, workerVars, net, receiverVars, sweep>>

NoRow == [version |-> 0, avail |-> 0, lease |-> NoOne, attempts |-> 0]
NoJob == [key |-> NoKey, version |-> 0, deadline |-> 0, attempts |-> 0]
NoSweep == [runs |-> {}, held |-> {}]

Rows     == [version: Nat, avail: Nat, lease: Workers \cup {NoOne}, attempts: Nat]
Seen     == [key: Keys, version: Nat, avail: Nat]
Jobs     == [key: Keys \cup {NoKey}, version: Nat, deadline: Nat, attempts: Nat]
Requests == [worker: Workers \cup {NoOne}, key: Keys, version: Nat, body: Nat, until: Nat]
Held     == [run: Runs, target: Targets, avail: Nat]

TypeOK ==
  /\ runs \in [Runs -> Nat]
  /\ versions \in [Runs -> Nat]
  /\ outbox \in [Keys -> Rows]
  /\ now \in Nat
  /\ pc \in [Workers -> {"idle", "claim", "read", "send", "wait", "ack", "retry"}]
  /\ cand \in [Workers -> SUBSET Seen]     \* rows of the SELECT not yet tried
  /\ seen \in [Workers -> Nat]             \* time of the SELECT, then of the send
  /\ job \in [Workers -> Jobs]             \* the OutboxJob a worker holds
  /\ body \in [Workers -> Nat]             \* the payload it read for that job
  /\ net \subseteq Requests
  /\ inbox \in [Runs -> [version: Nat, payload: Nat, deleted: BOOLEAN]]
  /\ receipts \subseteq [key: Keys, version: Nat, body: Nat]
  /\ object \in [Runs -> Nat]
  /\ sweep \in [runs: SUBSET Runs, held: SUBSET Held]

Live == {r \in Runs : runs[r] # 0}
Exists(k) == outbox[k].version # 0
Holding == {"read", "send", "wait", "ack", "retry"}

-----------------------------------------------------------------------------
(* The store's transactions.                                               *)

\* Fault: a re-enqueued row is due at once.
RequeuedAtOnce(row, version) ==
  [version |-> version, avail |-> 0, lease |-> NoOne, attempts |-> 0]

\* enqueue's upsert: a fresh version and id; an existing row keeps its
\* available_at but loses its lease token and its attempts.
Requeued(row, version) ==
  [version |-> version, avail |-> row.avail, lease |-> NoOne, attempts |-> 0]

Enqueue(rows, S, op) ==
  [k \in Keys |-> IF k.run \in S /\ k.op = op
                  THEN Requeued(rows[k], versions[k.run] + Rank(k.target))
                  ELSE rows[k]]

Bump(S) == [r \in Runs |-> IF r \in S THEN versions[r] + Width ELSE versions[r]]
CanBump(S) == \A r \in S : versions[r] + Width <= MaxVersion

\* The tail of insert_tx and of rotate_encryption: a new payload for S.
WritePayload(S) ==
  /\ CanBump(S)
  /\ versions' = Bump(S)
  /\ runs' = [r \in Runs |-> IF r \in S THEN versions'[r] ELSE runs[r]]
  /\ outbox' = Enqueue(outbox, S, "put")
  /\ UNCHANGED <<now, workerVars, net, receiverVars, sweep>>

\* insert_batch of new snapshots; ones already stored with the same content
\* are duplicates and change nothing, a conflicting one rolls the batch back.
Insert(S) == S # {} /\ S \cap Live = {} /\ WritePayload(S)

\* rotate_encryption over the runs whose payload is under an old key.  The
\* UPDATE that clears the lease token again repeats what enqueue just did.
Rotate(S) == S # {} /\ S \subseteq Live /\ WritePayload(S)

\* SELECT target,available_at FROM outbox WHERE run_id=.. AND lease_token<>''
LeasesOf(S) ==
  {[run |-> k.run, target |-> k.target, avail |-> outbox[k].avail] :
     k \in {x \in Keys : x.run \in S /\ Exists(x) /\ outbox[x].lease # NoOne}}

\* The writes of retain_since: drop the outbox rows of S, enqueue a delete for
\* every target, move it behind the deadline of a lease on that target (the
\* last one of the loop, should a put and a delete both be leased), drop S.
RetainWrites(S, held) ==
  LET Deadlines(k) == {h.avail : h \in {x \in held : x.run = k.run /\ x.target = k.target}}
      Deletes == {k \in Keys : k.run \in S /\ k.op = "delete"}
      dropped == [k \in Keys |-> IF k.run \in S THEN NoRow ELSE outbox[k]]
      queued == Enqueue(dropped, S, "delete")
  IN  /\ CanBump(S)
      /\ versions' = Bump(S)
      /\ \E due \in [Deletes -> {0} \cup {h.avail : h \in held}] :
           /\ \A k \in Deletes :
                due[k] \in (IF Deadlines(k) = {} THEN {0} ELSE Deadlines(k))
           /\ outbox' = [k \in Keys |->
                           IF k \in Deletes THEN [queued[k] EXCEPT !.avail = due[k]]
                           ELSE queued[k]]
      /\ runs' = [r \in Runs |-> IF r \in S THEN 0 ELSE runs[r]]
      /\ UNCHANGED <<now, workerVars, net, receiverVars>>

\* retain_since on SQLite, where a transaction that has read fails and is rolled
\* back if another one committed before its first write.
Retain(S) ==
  /\ AtomicRetention /\ S # {} /\ S \subseteq Live
  /\ RetainWrites(S, LeasesOf(S))
  /\ UNCHANGED sweep

\* retain_since on PostgreSQL, under READ COMMITTED: its SELECT of the leases takes
\* no lock, so other transactions may commit before its DELETE and its upserts do.
\* A claim of a put row that does is not waited for: the delete is due at once.
RetainSelect(S) ==
  /\ ~AtomicRetention /\ S # {} /\ S \subseteq Live /\ sweep = NoSweep
  /\ sweep' = [runs |-> S, held |-> LeasesOf(S)]
  /\ UNCHANGED <<runs, versions, outbox, now, workerVars, net, receiverVars>>

RetainCommit ==
  /\ sweep # NoSweep
  /\ RetainWrites(sweep.runs, sweep.held)
  /\ sweep' = NoSweep

-----------------------------------------------------------------------------
(* The delivery worker: Delivery::process_one.                             *)

\* Fault: a row is due only while no claim was ever made on it.
DueUnleased == {k \in Keys : Exists(k) /\ outbox[k].avail <= now /\ outbox[k].lease = NoOne}

\* claim_outbox, its SELECT (the LIMIT of ten exceeds the rows of a model).
Due == {k \in Keys : Exists(k) /\ outbox[k].avail <= now}
Select(w) ==
  /\ pc[w] = "idle" /\ Due # {}
  /\ cand' = [cand EXCEPT ![w] =
       {[key |-> k, version |-> outbox[k].version, avail |-> outbox[k].avail] : k \in Due}]
  /\ seen' = [seen EXCEPT ![w] = now]
  /\ pc' = [pc EXCEPT ![w] = "claim"]
  /\ UNCHANGED <<runs, versions, outbox, now, job, body, net, receiverVars, sweep>>

\* Fault: the UPDATE of claim_outbox compares the id alone.
UnclaimedById(c) == outbox[c.key].version = c.version

\* The row of a candidate is still the one the SELECT returned.
Unclaimed(c) == outbox[c.key].version = c.version /\ outbox[c.key].avail = c.avail

Claimed(row, w, until) == [row EXCEPT !.avail = until, !.lease = w]

\* claim_outbox, one UPDATE ... WHERE id AND available_at: a claim, or on to
\* the next candidate (oldest first), or no job.
Claim(w) ==
  /\ pc[w] = "claim"
  /\ \E c \in cand[w] :
       /\ \A d \in cand[w] : c.avail <= d.avail
       /\ \/ /\ Unclaimed(c)
             /\ outbox' = [outbox EXCEPT ![c.key] =
                             Claimed(outbox[c.key], w, seen[w] + Lease)]
             /\ job' = [job EXCEPT ![w] =
                  [key |-> c.key, version |-> c.version, deadline |-> seen[w] + Lease,
                   attempts |-> outbox[c.key].attempts]]
             /\ cand' = [cand EXCEPT ![w] = {}]
             /\ pc' = [pc EXCEPT ![w] = "read"]
          \/ /\ ~Unclaimed(c)
             /\ cand' = [cand EXCEPT ![w] = @ \ {c}]
             /\ pc' = [pc EXCEPT ![w] = IF cand[w] = {c} THEN "idle" ELSE "claim"]
             /\ UNCHANGED <<outbox, job>>
  /\ seen' = [seen EXCEPT ![w] = IF pc'[w] = "idle" THEN 0 ELSE @]
  /\ UNCHANGED <<runs, versions, now, body, net, receiverVars, sweep>>

\* deliver: stored_payload.  A put of a run that is gone succeeds at once.
Read(w) ==
  /\ pc[w] = "read"
  /\ LET payload == runs[job[w].key.run] IN
       /\ body' = [body EXCEPT ![w] = payload]
       /\ pc' = [pc EXCEPT ![w] = IF job[w].key.op = "put" /\ payload = 0
                                  THEN "ack" ELSE "send"]
  /\ UNCHANGED <<runs, versions, outbox, now, cand, seen, job, net, receiverVars, sweep>>

\* Only the object store is assumed to give up with the client's connection.
Deadline(k) == IF k.target = "s3" THEN now + Timeout ELSE MaxTime

\* deliver: the POST, PUT or DELETE leaves the process.
Send(w) ==
  /\ pc[w] = "send"
  /\ net' = net \cup {[worker |-> w, key |-> job[w].key, version |-> job[w].version,
                       body |-> body[w], until |-> Deadline(job[w].key)]}
  /\ seen' = [seen EXCEPT ![w] = now]
  /\ pc' = [pc EXCEPT ![w] = "wait"]
  /\ UNCHANGED <<runs, versions, outbox, now, cand, job, body, receiverVars, sweep>>

\* A request its worker no longer waits for; unless late requests are allowed
\* a failed one is also abandoned by the receiver.
Orphan(w, dropped) ==
  net' = {IF m.worker = w THEN [m EXCEPT !.worker = NoOne] ELSE m :
            m \in {x \in net : x.worker # w \/ ~dropped}}

\* A non-2xx status, a connection error or the client timeout.
Fail(w) ==
  /\ pc[w] = "wait"
  /\ Orphan(w, ~LateRequests)
  /\ pc' = [pc EXCEPT ![w] = "retry"]
  /\ UNCHANGED <<runs, versions, outbox, now, cand, seen, job, body, receiverVars, sweep>>

\* Fault: acknowledge and retry match the row by run, target and operation.
OwnsKey(w) == Exists(job[w].key)

\* WHERE id AND lease_token, of acknowledge and retry.
Owns(w) == outbox[job[w].key].version = job[w].version /\ outbox[job[w].key].lease = w
Release(w) ==
  /\ job' = [job EXCEPT ![w] = NoJob]
  /\ pc' = [pc EXCEPT ![w] = "idle"]
  /\ body' = [body EXCEPT ![w] = 0]
  /\ seen' = [seen EXCEPT ![w] = 0]
  /\ UNCHANGED <<runs, versions, now, cand, net, receiverVars, sweep>>

\* acknowledge: DELETE ... WHERE id AND lease_token AND available_at > now.
\* When it matches nothing the error is logged and the row is left alone.
Acknowledge(w) ==
  /\ pc[w] = "ack"
  /\ outbox' = IF Owns(w) /\ outbox[job[w].key].avail > now
               THEN [outbox EXCEPT ![job[w].key] = NoRow] ELSE outbox
  /\ Release(w)

\* Fault: the shift is not clamped and overflows to a negative delay.
RetryDelayOverflow(attempts) == 0 - Backoff[IF attempts + 1 < 12 THEN attempts + 1 ELSE 12]

\* retry: back off by attempts, whether or not the lease has expired.
RetryDelay(attempts) == Backoff[IF attempts + 1 < 12 THEN attempts + 1 ELSE 12]
BackedOff(row, delay) ==
  [row EXCEPT !.avail = now + delay, !.lease = NoOne, !.attempts = row.attempts + 1]
Retry(w) ==
  /\ pc[w] = "retry"
  /\ outbox' = IF Owns(w)
               THEN [outbox EXCEPT ![job[w].key] =
                       BackedOff(outbox[job[w].key], RetryDelay(job[w].attempts))]
               ELSE outbox
  /\ Release(w)

\* The process dies or its database call fails: the job is forgotten, the row
\* stays leased, a request already sent may still be processed.
Crash(w) ==
  /\ pc[w] # "idle"
  /\ Orphan(w, FALSE)
  /\ pc' = [pc EXCEPT ![w] = "idle"]
  /\ cand' = [cand EXCEPT ![w] = {}]
  /\ job' = [job EXCEPT ![w] = NoJob]
  /\ body' = [body EXCEPT ![w] = 0]
  /\ seen' = [seen EXCEPT ![w] = 0]
  /\ UNCHANGED <<runs, versions, outbox, now, receiverVars, sweep>>

-----------------------------------------------------------------------------
(* The receivers.                                                          *)

\* The answer to a request: it reaches the worker that awaits it, or is lost.
\* A request nobody awaits may stand for several copies, so it stays in net.
Answer(m, ok) ==
  IF m.worker = NoOne THEN UNCHANGED <<pc, net>>
  ELSE /\ net' = net \ {m}
       /\ \/ pc' = [pc EXCEPT ![m.worker] = IF ok THEN "ack" ELSE "retry"]
          \/ UNCHANGED pc

ReceiptsFor(m) == {x \in receipts : x.key = m.key /\ x.version = m.version}

\* Fault: the inbox takes whatever arrives last.
SupersedesAlways(m) == TRUE

\* The version of a delivery is above the one that is stored.
Supersedes(m) == m.version > inbox[m.key.run].version

\* WebhookInbox.accept: a known delivery id is a duplicate, or an error if its
\* content differs; otherwise the newest version wins and a receipt is kept.
Accept(m) ==
  LET receipt == [key |-> m.key, version |-> m.version, body |-> m.body]
      isDelete == m.key.op = "delete"
  IN  /\ m.key.target = "webhook"
      /\ \/ /\ ReceiptsFor(m) # {}
            /\ Answer(m, receipt \in receipts)
            /\ UNCHANGED <<inbox, receipts>>
         \/ /\ ReceiptsFor(m) = {}
            /\ receipts' = receipts \cup {receipt}
            /\ inbox' = IF Supersedes(m)
                        THEN [inbox EXCEPT ![m.key.run] =
                               [version |-> m.version, deleted |-> isDelete,
                                payload |-> IF isDelete THEN 0 ELSE m.body]]
                        ELSE inbox
            /\ Answer(m, TRUE)
      /\ UNCHANGED object

\* The object store knows no versions; it never acts on a request after the
\* HTTP timeout of the client that sent it.
Store(m) ==
  /\ m.key.target = "s3" /\ now <= m.until
  /\ object' = [object EXCEPT ![m.key.run] = IF m.key.op = "delete" THEN 0 ELSE m.body]
  /\ Answer(m, TRUE)
  /\ UNCHANGED <<inbox, receipts>>

Receive(m) ==
  /\ Accept(m) \/ Store(m)
  /\ UNCHANGED <<runs, versions, outbox, now, cand, seen, job, body, sweep>>

Lose(m) ==
  /\ net' = net \ {m}
  /\ UNCHANGED <<runs, versions, outbox, now, workerVars, receiverVars, sweep>>

\* Time passes, but a live worker is not stalled for longer than MaxStall and
\* the HTTP client does time out.
Tick ==
  /\ now < MaxTime
  /\ \A w \in Workers :
       /\ pc[w] \in {"claim", "read", "send"} => now < seen[w] + MaxStall
       /\ pc[w] = "wait" => now < seen[w] + Timeout
  /\ now' = now + 1
  /\ UNCHANGED <<runs, versions, outbox, workerVars, net, receiverVars, sweep>>

-----------------------------------------------------------------------------
Init ==
  /\ runs = [r \in Runs |-> 0]
  /\ versions = [r \in Runs |-> 0]
  /\ outbox = [k \in Keys |-> NoRow]
  /\ now = 0
  /\ pc = [w \in Workers |-> "idle"]
  /\ cand = [w \in Workers |-> {}]
  /\ seen = [w \in Workers |-> 0]
  /\ job = [w \in Workers |-> NoJob]
  /\ body = [w \in Workers |-> 0]
  /\ net = {}
  /\ inbox = [r \in Runs |-> [version |-> 0, payload |-> 0, deleted |-> FALSE]]
  /\ receipts = {}
  /\ object = [r \in Runs |-> 0]
  /\ sweep = NoSweep

WorkerStep(w) ==
  \/ Select(w) \/ Claim(w) \/ Read(w) \/ Send(w) \/ Acknowledge(w) \/ Retry(w)

Retention == (\E S \in SUBSET Runs : Retain(S) \/ RetainSelect(S)) \/ RetainCommit

Delivering ==
  \/ \E w \in Workers : WorkerStep(w) \/ Fail(w) \/ Crash(w)
  \/ \E m \in net : Receive(m) \/ Lose(m)
  \/ Tick

Next ==
  \/ \E S \in SUBSET Runs : Insert(S) \/ Rotate(S)
  \/ Retention
  \/ Delivering

Spec == Init /\ [][Next]_vars

-----------------------------------------------------------------------------
(* Properties.                                                             *)

\* The last version drawn for a target, and the operation it stands for.
Current(r, t) == versions[r] - Width + Rank(t)
CurrentKey(r, t) == [run |-> r, target |-> t,
                     op |-> IF runs[r] = 0 THEN "delete" ELSE "put"]

\* The lease fences claims: two workers never both hold an unexpired claim on
\* the same delivery id (claim_outbox's UPDATE compares id and available_at).
LeaseExclusive ==
  \A v, w \in Workers :
    (/\ v # w /\ pc[v] \in Holding /\ pc[w] \in Holding
     /\ job[v].key = job[w].key /\ job[v].version = job[w].version)
    => job[v].deadline <= now \/ job[w].deadline <= now

\* At-least-once with version fencing: once no webhook row of a run is left,
\* the inbox holds exactly the stored payload, or the tombstone of a retained
\* run, whatever delayed or duplicated requests are still on their way.
WebhookMirror ==
  "webhook" \in Targets =>
    \A r \in Runs :
      versions[r] # 0 /\ ~Exists(CurrentKey(r, "webhook"))
      => inbox[r] = [version |-> Current(r, "webhook"), payload |-> runs[r],
                     deleted |-> runs[r] = 0]

\* The object store mirrors the database once its rows and requests are done:
\* the object of a stored run holds its payload, a retained one is gone.
ObjectMirror ==
  "s3" \in Targets =>
    \A r \in Runs :
      (/\ \A k \in Keys : k.run = r /\ k.target = "s3" => ~Exists(k)
       /\ \A m \in net : m.key.run = r /\ m.key.target = "s3" => now > m.until)
      => object[r] = runs[r]

-----------------------------------------------------------------------------
\* An older version of delivery k may still reach its receiver.
Overtaken(k) ==
  \/ \E w \in Workers : /\ pc[w] \in {"read", "send"} /\ job[w].key = k
                        /\ job[w].version # outbox[k].version
  \/ \E m \in net : m.key = k /\ now <= m.until /\ m.version # outbox[k].version

\* Where an object store without versions needs the help of those who call the
\* store, since no guard of insert_tx or retain_since looks for it: a run is
\* exported again only after the delete of its namesake was delivered, and not
\* retained while a PUT is under way that a rotation has overtaken.
Orderly ==
  "s3" \in Targets =>
    \A r \in Runs :
      /\ runs[r] = 0 /\ runs'[r] # 0 => ~Exists(CurrentKey(r, "s3"))
      /\ runs[r] # 0 /\ runs'[r] = 0 => ~Overtaken(CurrentKey(r, "s3"))

SpecOrderly == Init /\ [][Next /\ Orderly]_vars

-----------------------------------------------------------------------------
(* What both targets promise (DeliveryMirror).  A run is announced while a row of   *)
(* the operation that the database asks for is left.                               *)
Announced(t) == [r \in Runs |-> Exists(CurrentKey(r, t))]

\* What the inbox has to hold: the payload of a run under the version drawn last,
\* the tombstone of a retained one, nothing of a run that never was.
Snapshots ==
  [r \in Runs |->
     [version |-> IF versions[r] = 0 THEN 0 ELSE Current(r, "webhook"),
      payload |-> runs[r], deleted |-> versions[r] # 0 /\ runs[r] = 0]]

Hooks == INSTANCE DeliveryMirror WITH
  source <- Snapshots, copy <- inbox, announced <- Announced("webhook"), Versioned <- TRUE

Objects == INSTANCE DeliveryMirror WITH
  source <- runs, copy <- object, announced <- Announced("s3"), Versioned <- FALSE

\* WebhookInbox.accept and the outbox together: the inbox never goes back to an
\* older version of a run, and a row is given up only when the inbox has what it
\* announced; from then on it changes with the next write only.
HooksFollow == Hooks!Spec

\* The object store, that knows no versions, with the leases of the outbox: what is
\* settled is not overwritten by a request that was under way.
ObjectsFollow == Objects!Spec
=============================================================================
