---------------------------- MODULE TraceAssembly ----------------------------
(***************************************************************************)
(* The OTLP receiver (refract-server/src/otel.rs, telemetry.rs) and the    *)
(* join state of distributed traces (refract-storage/src/traces.rs,        *)
(* telemetry.rs). Handlers of several replicas merge the batches of one    *)
(* trace under the row lock of its assembly, publish what they read, and   *)
(* race the hourly expiry, whose two DELETEs are two statements of one     *)
(* READ COMMITTED transaction. Exporters send any export any number of     *)
(* times. SQLite has one writer: its behaviours are those without          *)
(* interleaving.                                                           *)
(***************************************************************************)
EXTENDS Integers, Sequences, FiniteSets, SequencesExt

CONSTANTS
  Writers,         \* handlers of export requests, of any replica
  Traces,          \* trace ids, numbers: a BTreeMap orders them
  Ids,             \* span ids, numbers: SELECT ... ORDER BY span_id
  Exports,         \* sequences of raw spans a client may send
  TelemetryExports,\* sequences of log or metric contents; Bad is refused
  Bad,
  MaxSpans,        \* 10000 spans of a trace
  MaxAssemblies    \* 10000 assemblies of a tenant

None == 0

ASSUME TraceConstants ==
  /\ Traces \subseteq Nat \ {None} /\ Ids \subseteq Nat \ {None}
  /\ IsFiniteSet(Ids)    \* eight bytes
  /\ "free" \notin Writers /\ MaxSpans \in Nat /\ MaxAssemblies \in Nat \ {0}
  /\ \A e \in Exports : \A r \in ToSet(e) :
       r.parent \in Ids \union {None} /\ r.failed \in BOOLEAN
  /\ \A e \in TelemetryExports : e \in Seq(ToSet(e))

Spans == [id : Ids, parent : Ids \union {None}, failed : BOOLEAN]

VARIABLES
  spans,      \* trace_spans, as committed: [Traces -> set of spans]
  received,   \* trace_assemblies.received_at: absent, fresh, or old (over 24 h)
  lock,       \* the writer whose uncommitted upsert holds a trace's row
  job,        \* per writer: the request it handles
  expiry,     \* the expiry transaction
  published,  \* runs inserted from assemblies: set of <<trace, spans>>
  owed,       \* traces whose last merge died before its run was inserted
  telemetry,  \* rows of the telemetry table: set of <<content, occurrence>>
  delivered   \* telemetry exports answered since telemetry was last expired

tvars == <<telemetry, delivered>>
avars == <<spans, received, lock, job, expiry, published, owed>>
vars == <<avars, tvars>>

NoJob == [pc |-> "idle", batch |-> [t \in Traces |-> {}], trace |-> None,
          seen |-> {}]
NoExpiry == [pc |-> "idle", due |-> {}, doomed |-> [t \in Traces |-> {}]]

Init ==
  /\ spans = [t \in Traces |-> {}]
  /\ received = [t \in Traces |-> "absent"]
  /\ lock = [t \in Traces |-> "free"]
  /\ job = [w \in Writers |-> NoJob]
  /\ expiry = NoExpiry
  /\ published = {} /\ owed = {}
  /\ telemetry = {} /\ delivered = {}

IdsOf(S) == {s.id : s \in S}
OneContent(S) == \A s, r \in S : s.id = r.id => s = r

\* No nonempty set of spans in which each has its parent. The code follows the
\* parents of every span until one is missing, done, or met again.
Acyclic(S) ==
  \A C \in SUBSET S : C # {} => \E s \in C : \A r \in C : r.id # s.parent

-----------------------------------------------------------------------------
\* The receiver.

\* span(): zero ids are None; a span neither parents itself nor ends before it
\* starts.
SpanOK(r) == r.trace \in Traces /\ r.id \in Ids /\ r.parent # r.id /\ r.start <= r.end

\* A raw span normalised for one trace: parent kept, status error kept.
Normalized(r) == [id |-> r.id, parent |-> r.parent, failed |-> r.failed]
BatchOf(export, t) == {Normalized(r) : r \in {x \in ToSet(export) : x.trace = t}}

\* ingest(): every span is normalised before the first statement, so an export
\* with one bad span writes nothing; the answer is an error and the handler
\* stays idle. Otherwise the traces are taken in the order of their ids.
Receive(w, export) ==
  /\ job[w].pc = "idle" /\ export # <<>>
  /\ \A r \in ToSet(export) : SpanOK(r)
  /\ job' = [job EXCEPT ![w].pc = "next",
                        ![w].batch = [t \in Traces |-> BatchOf(export, t)]]
  /\ UNCHANGED <<spans, received, lock, expiry, published, owed, tvars>>

Left(w) == {t \in Traces : job[w].batch[t] # {}}

\* The committed assemblies of the tenant and the row just written: concurrent
\* writers of other traces do not count each other, so the limit is soft.
Counted(t) == {x \in Traces : received[x] # "absent"} \union {t}

\* The upsert of the assembly: waits for the row's lock. Its count sees the
\* committed rows and its own; over capacity the transaction rolls back and the
\* export fails.
Upsert(w) ==
  /\ job[w].pc = "next"
  /\ \E t \in Left(w) :
       /\ \A y \in Left(w) : t <= y
       /\ lock[t] = "free"
       /\ IF Cardinality(Counted(t)) <= MaxAssemblies
          THEN /\ lock' = [lock EXCEPT ![t] = w]
               /\ job' = [job EXCEPT ![w].pc = "locked", ![w].trace = t]
          ELSE /\ job' = [job EXCEPT ![w] = NoJob]
               /\ UNCHANGED lock
  /\ UNCHANGED <<spans, received, expiry, published, owed, tvars>>

\* Ids whose rows the expiry has deleted and not committed: an insert waits.
DoomedIds(t) == IdsOf(expiry.doomed[t])

\* Fault: the parent cycle is left to assemble(), after the commit.
MergeableCyclic(all) == OneContent(all) /\ Cardinality(all) <= MaxSpans

Mergeable(all) == OneContent(all) /\ Cardinality(all) <= MaxSpans /\ Acyclic(all)

\* Fault: ON CONFLICT DO NOTHING without comparing the row that is there.
JoinedSkipping(S, batch) == S \union {s \in batch : s.id \notin IdsOf(S)}

\* The rows of a trace after the inserts of a batch; a row that is there stays,
\* and one with another content refuses the batch.
Joined(S, batch) == S \union batch

\* The inserts, the check of each conflicting row, the size check, the read of
\* the whole trace and the cycle check. Any refusal rolls the transaction back
\* and ends the export; traces merged before stay.
Merge(w) ==
  LET t == job[w].trace
      all == Joined(spans[t], job[w].batch[t])
  IN  /\ job[w].pc = "locked"
      /\ DoomedIds(t) \intersect IdsOf(job[w].batch[t]) = {}
      /\ IF Mergeable(all)
         THEN /\ job' = [job EXCEPT ![w].pc = "merged", ![w].seen = all]
              /\ UNCHANGED lock
         ELSE /\ job' = [job EXCEPT ![w] = NoJob]
              /\ lock' = [lock EXCEPT ![t] = "free"]
      /\ UNCHANGED <<spans, received, expiry, published, owed, tvars>>

Commit(w) ==
  LET t == job[w].trace
  IN  /\ job[w].pc = "merged"
      /\ spans' = [spans EXCEPT ![t] = Joined(@, job[w].batch[t])]
      /\ received' = [received EXCEPT ![t] = "fresh"]
      /\ lock' = [lock EXCEPT ![t] = "free"]
      /\ job' = [job EXCEPT ![w].pc = "committed"]
      /\ UNCHANGED <<expiry, published, owed, tvars>>

\* The waits of a merge and of the expiry for each other: the server's deadlock
\* detector rolls one of them back.
Deadlocked(w) ==
  /\ job[w].pc = "locked" /\ job[w].trace \in expiry.due
  /\ DoomedIds(job[w].trace) \intersect IdsOf(job[w].batch[job[w].trace]) # {}

AbortMerge(w) ==
  /\ Deadlocked(w)
  /\ lock' = [lock EXCEPT ![job[w].trace] = "free"]
  /\ job' = [job EXCEPT ![w] = NoJob]
  /\ UNCHANGED <<spans, received, expiry, published, owed, tvars>>

-----------------------------------------------------------------------------
\* assemble(): the spans as a run.

\* In the order of their ids.
Sorted(S) ==
  CHOOSE q \in [1..Cardinality(S) -> S] :
    \A i, j \in DOMAIN q : i < j => q[i].id <= q[j].id /\ q[i] # q[j]
Roots(S) == {s \in S : s.parent \notin IdsOf(S)}
Children(S, s) == {r \in S : r.parent = s.id}

\* Breadth first from the spans whose parent is not here: the n-th of the queue
\* appends its children. A cycle is never reached.
Serve(S, queue, n) ==
  IF n > Len(queue) THEN queue ELSE queue \o Sorted(Children(S, queue[n]))
Order(S) ==
  LET queue[n \in 0..Cardinality(S)] ==
        IF n = 0 THEN Sorted(Roots(S)) ELSE Serve(S, queue[n - 1], n)
  IN  queue[Cardinality(S)]

\* The event keeps its parent if it is in the run, else the run records it as
\* external; one failed span fails the run.
Assemble(S) ==
  LET order == Order(S)
      inside == IdsOf(S)
  IN  [events |-> [i \in 1..Len(order) |->
         [id |-> order[i].id,
          parent |-> IF order[i].parent \in inside THEN order[i].parent ELSE None,
          external |-> IF order[i].parent \in inside THEN None ELSE order[i].parent]],
       status |-> IF \E s \in S : s.failed THEN "failed" ELSE "completed"]

\* Run::validate: a parent precedes its child, no id twice.
Valid(run) ==
  \A i \in DOMAIN run.events :
    LET before == {run.events[j].id : j \in 1..(i - 1)}
    IN  /\ run.events[i].id \notin before
        /\ run.events[i].parent \in before \union {None}

Assembles(S) ==
  LET run == Assemble(S) IN Len(run.events) = Cardinality(S) /\ Valid(run)

\* Fault: the run is built from the batch, not from what the merge read.
ContentOfBatch(w) == job[w].batch[job[w].trace]

\* The spans of the run: all that merge_trace returned.
Content(w) == job[w].seen

\* insert_batch of the assembled run, whose id is the digest of the spans: the
\* same spans are a duplicate. An assembly that fails ends the export.
Publish(w) ==
  LET t == job[w].trace
  IN  /\ job[w].pc = "committed"
      /\ IF Assembles(Content(w))
         THEN /\ published' = published \union {<<t, Content(w)>>}
              /\ owed' = IF spans[t] \subseteq Content(w) THEN owed \ {t} ELSE owed
              /\ job' = [job EXCEPT ![w] = [NoJob EXCEPT
                   !.pc = IF Left(w) = {t} THEN "idle" ELSE "next",
                   !.batch = [job[w].batch EXCEPT ![t] = {}]]]
         ELSE /\ job' = [job EXCEPT ![w] = NoJob]
              /\ UNCHANGED <<published, owed>>
      /\ UNCHANGED <<spans, received, lock, expiry, tvars>>

\* The process or its connection dies: an open transaction is rolled back, a
\* committed merge is left without its run until the trace is sent again.
Crash(w) ==
  /\ job[w].pc # "idle"
  /\ lock' = [t \in Traces |-> IF lock[t] = w THEN "free" ELSE lock[t]]
  /\ owed' = IF job[w].pc = "committed" THEN owed \union {job[w].trace} ELSE owed
  /\ job' = [job EXCEPT ![w] = NoJob]
  /\ UNCHANGED <<spans, received, expiry, published, tvars>>

-----------------------------------------------------------------------------
\* expire_traces().

\* 24 hours pass without a merge of t. No transaction, of a merge or of the
\* expiry, lasts a day.
Age(t) ==
  /\ received[t] = "fresh" /\ lock[t] = "free" /\ t \notin expiry.due
  /\ received' = [received EXCEPT ![t] = "old"]
  /\ UNCHANGED <<spans, lock, job, expiry, published, owed, tvars>>

\* The first DELETE: the committed spans of the assemblies that are old now. It
\* takes no lock on the assemblies.
ExpireSpans ==
  LET due == {t \in Traces : received[t] = "old"}
  IN  /\ expiry.pc = "idle" /\ due # {}
      /\ expiry' = [pc |-> "spans", due |-> due,
                    doomed |-> [t \in Traces |-> IF t \in due THEN spans[t] ELSE {}]]
      /\ UNCHANGED <<spans, received, lock, job, published, owed, tvars>>

\* Fault: the ids of the old assemblies are read once and deleted by id.
ExpiredById(t) == t \in expiry.due

Expired(t) == t \in expiry.due /\ received[t] = "old"

\* The second DELETE waits for the rows merges hold, then looks at them again:
\* an assembly refreshed meanwhile stays, without the spans of the first.
ExpireRows ==
  /\ expiry.pc = "spans"
  /\ \A t \in expiry.due : lock[t] = "free"
  /\ spans' = [t \in Traces |-> spans[t] \ expiry.doomed[t]]
  /\ received' = [t \in Traces |-> IF Expired(t) THEN "absent" ELSE received[t]]
  /\ expiry' = NoExpiry
  /\ UNCHANGED <<lock, job, published, owed, tvars>>

\* Rolled back by the deadlock detector, or its process dies.
AbortExpiry ==
  /\ expiry.pc = "spans"
  /\ expiry' = NoExpiry
  /\ UNCHANGED <<spans, received, lock, job, published, owed, tvars>>

-----------------------------------------------------------------------------
\* Telemetry: one transaction per export, content ids with an occurrence.

Occurrence(e, i) == Cardinality({j \in 1..(i - 1) : e[j] = e[i]})

\* Fault: an occurrence already stored moves the new one to the next number.
KeysAgain(e) ==
  {<<e[i], Occurrence(e, i) + Cardinality({k \in telemetry : k[1] = e[i]})>> :
     i \in DOMAIN e}

Keys(e) == {<<e[i], Occurrence(e, i)>> : i \in DOMAIN e}

\* logs(), metrics(): every record is normalised before the first is inserted,
\* and one that is invalid refuses the export.
RecordsOK(e) == Bad \notin ToSet(e)

InsertTelemetry(e) ==
  /\ RecordsOK(e)
  /\ telemetry' = telemetry \union Keys(e)
  /\ delivered' = delivered \union {e}
  /\ UNCHANGED avars

\* The rows received before a date: any rows may be the older ones.
ExpireTelemetry ==
  /\ telemetry # {}
  /\ telemetry' \in SUBSET telemetry
  /\ delivered' = {}
  /\ UNCHANGED avars

-----------------------------------------------------------------------------
Next ==
  \/ \E w \in Writers :
       \/ \E e \in Exports : Receive(w, e)
       \/ Upsert(w) \/ Merge(w) \/ Commit(w) \/ Publish(w)
       \/ AbortMerge(w) \/ Crash(w)
  \/ \E t \in Traces : Age(t)
  \/ ExpireSpans \/ ExpireRows \/ AbortExpiry
  \/ \E e \in TelemetryExports : InsertTelemetry(e)
  \/ ExpireTelemetry

Spec == Init /\ [][Next]_vars

-----------------------------------------------------------------------------
\* Properties.

\* Every row has its shape; a writer inside a merge holds the row's lock.
TypeOK ==
  /\ spans \in [Traces -> SUBSET Spans]
  /\ received \in [Traces -> {"absent", "fresh", "old"}]
  /\ lock \in [Traces -> Writers \union {"free"}]
  /\ job \in [Writers -> [pc : {"idle", "next", "locked", "merged", "committed"},
                          batch : [Traces -> SUBSET Spans],
                          trace : Traces \union {None}, seen : SUBSET Spans]]
  /\ expiry \in [pc : {"idle", "spans"}, due : SUBSET Traces,
                 doomed : [Traces -> SUBSET Spans]]
  /\ published \subseteq Traces \X SUBSET Spans
  /\ owed \subseteq Traces

\* Whatever was merged, in whatever batches and order, assembles into a valid
\* run with all its spans: no stored trace is poisoned for later batches
\* (merge_trace rejects cycles before it commits join state).
NoPoisonedTrace == \A t \in Traces : Assembles(spans[t])

\* A span always has its assembly: expire_traces finds spans only through the
\* assembly's row, so an orphan would stay for ever.
NoOrphanSpans == \A t \in Traces : spans[t] # {} => received[t] # "absent"

\* Once no handler is between its commit and its insert, and none died there,
\* some published run has everything its trace holds, whoever merged last.
StoredIsPublished ==
  \A t \in Traces :
    \/ spans[t] = {} \/ t \in owed
    \/ \E w \in Writers : job[w].pc = "committed" /\ job[w].trace = t
    \/ \E p \in published : p[1] = t /\ spans[t] \subseteq p[2]

\* A telemetry export sent again adds nothing, and a content repeated in one
\* export is kept as often as that export has it.
TelemetryCountedOnce ==
  \A c \in UNION {ToSet(e) : e \in TelemetryExports} :
    LET times(e) == Cardinality({i \in DOMAIN e : e[i] = c})
        stored == Cardinality({k \in telemetry : k[1] = c})
    IN  /\ \A e \in delivered : times(e) <= stored
        /\ \E e \in TelemetryExports : stored <= times(e)

-----------------------------------------------------------------------------
(* The promise of the receiver (TraceEvidence).                              *)
Pending == {<<job[w].trace, job[w].seen>> : w \in {x \in Writers : job[x].pc = "committed"}}
Assemblies == {t \in Traces : received[t] # "absent"}

Offered ==
  UNION {{<<t, job[w].batch[t]>> : t \in {x \in Traces : job[w].batch[x] # {}}} : w \in Writers}

\* What an export may have for a trace.
Sent == [t \in Traces |-> {BatchOf(e, t) : e \in Exports} \ {{}}]

\* What the expiry deletes: what its first statement took, else all of an old trace.
Stale == [t \in Traces |->
            IF expiry.pc = "spans" /\ t \in expiry.due THEN expiry.doomed[t]
            ELSE IF received[t] = "old" THEN spans[t] ELSE {}]

Evidence == INSTANCE TraceEvidence WITH
  offered <- Offered, evidence <- spans, stale <- Stale, assemblies <- Assemblies, pending <- Pending,
  Batches <- Sent

\* The receiver with its transactions, locks, deadlocks and expiry implements
\* TraceEvidence: the batch that an export has for a trace joins it whole or not at
\* all, what is published is what a trace held when a batch had joined it, and the
\* two statements of the expiry, with merges between them, forget only what was a
\* day old, and an assembly only with its last span.
Implements == Evidence!Spec
==============================================================================
