------------------------- MODULE TraceAssemblyProofs -------------------------
(***************************************************************************)
(* For any number of writers and traces, any finite set of span ids and    *)
(* any limits: the types of TraceAssembly, that a span always has its      *)
(* assembly, that the receiver implements TraceEvidence, that the spans of *)
(* a trace always make a valid run, that a published run has them all, and *)
(* how often telemetry is stored.                                          *)
(***************************************************************************)
EXTENDS TraceAssembly, FiniteSetTheorems, WellFoundedInduction, TLAPS

Jobs == [pc : {"idle", "next", "locked", "merged", "committed"},
         batch : [Traces -> SUBSET Spans],
         trace : Traces \union {None}, seen : SUBSET Spans]
Expiries == [pc : {"idle", "spans"}, due : SUBSET Traces,
             doomed : [Traces -> SUBSET Spans]]

-----------------------------------------------------------------------------
\* Types.

LEMMA NoJobType == NoJob \in Jobs
  BY DEF NoJob, Jobs

LEMMA NoExpiryType == NoExpiry \in Expiries
  BY DEF NoExpiry, Expiries

\* A batch that passed span() consists of spans.
LEMMA BatchTypes ==
  ASSUME NEW e \in Exports, \A r \in ToSet(e) : SpanOK(r), NEW t \in Traces
  PROVE  BatchOf(e, t) \subseteq Spans
<1> SUFFICES ASSUME NEW r \in ToSet(e) PROVE Normalized(r) \in Spans
  BY DEF BatchOf
<1>1. r.id \in Ids
  BY DEF SpanOK
<1>2. r.parent \in Ids \union {None} /\ r.failed \in BOOLEAN
  BY TraceConstants
<1> QED BY <1>1, <1>2 DEF Normalized, Spans

\* A request that works on a trace works on one of the traces.
TraceKnown ==
  \A w \in Writers : job[w].pc \in {"locked", "merged", "committed"} => job[w].trace \in Traces

Types == TypeOK /\ TraceKnown

LEMMA JobTypes ==
  ASSUME NEW w \in Writers, NEW x \in Jobs, job \in [Writers -> Jobs], TraceKnown,
         x.pc \in {"locked", "merged", "committed"} => x.trace \in Traces,
         job' = [job EXCEPT ![w] = x]
  PROVE  job' \in [Writers -> Jobs] /\ TraceKnown'
  BY DEF TraceKnown

\* The handlers keep the types of their own job.
LEMMA RequestTypes ==
  ASSUME TypeOK, TraceKnown, NEW w \in Writers,
         \/ \E e \in Exports : Receive(w, e)
         \/ Upsert(w) \/ Merge(w) \/ Commit(w) \/ Publish(w) \/ AbortMerge(w) \/ Crash(w)
  PROVE  job' \in [Writers -> Jobs] /\ TraceKnown'
<1>0. job \in [Writers -> Jobs] /\ job[w] \in Jobs /\ spans \in [Traces -> SUBSET Spans]
  BY DEF TypeOK, Jobs
<1>1. /\ job[w].batch \in [Traces -> SUBSET Spans] /\ job[w].seen \in SUBSET Spans
      /\ job[w].trace \in Traces \union {None}
  BY <1>0 DEF Jobs
<1>2. CASE job' = [job EXCEPT ![w] = NoJob]
  BY <1>0, <1>2, NoJobType, JobTypes DEF NoJob
<1>3. ASSUME NEW e \in Exports, Receive(w, e) PROVE job' \in [Writers -> Jobs] /\ TraceKnown'
  <2> DEFINE b == [t \in Traces |-> BatchOf(e, t)]
             x == [job[w] EXCEPT !.pc = "next", !.batch = b]
  <2>1. b \in [Traces -> SUBSET Spans]
    BY <1>3, BatchTypes DEF Receive
  <2> HIDE DEF b
  <2>2. x \in Jobs /\ x.pc = "next"
    BY <1>0, <2>1 DEF Jobs
  <2>3. job' = [job EXCEPT ![w] = x]
    BY <1>0, <1>3 DEF Receive, b
  <2> HIDE DEF x
  <2> QED BY <1>0, <2>2, <2>3, JobTypes
<1>4. ASSUME Upsert(w) PROVE job' \in [Writers -> Jobs] /\ TraceKnown'
  <2>1. CASE job' = [job EXCEPT ![w] = NoJob]
    BY <2>1, <1>2
  <2>2. ASSUME NEW t \in Traces, job' = [job EXCEPT ![w].pc = "locked", ![w].trace = t]
        PROVE  job' \in [Writers -> Jobs] /\ TraceKnown'
    <3> DEFINE x == [job[w] EXCEPT !.pc = "locked", !.trace = t]
    <3>1. x \in Jobs /\ x.trace \in Traces
      BY <1>0 DEF Jobs
    <3>2. job' = [job EXCEPT ![w] = x]
      BY <1>0, <2>2
    <3> HIDE DEF x
    <3> QED BY <1>0, <3>1, <3>2, JobTypes
  <2> QED BY <1>4, <2>1, <2>2 DEF Upsert, Left
<1>5. ASSUME Merge(w) PROVE job' \in [Writers -> Jobs] /\ TraceKnown'
  <2> DEFINE t == job[w].trace
             all == Joined(spans[t], job[w].batch[t])
             x == [job[w] EXCEPT !.pc = "merged", !.seen = all]
  <2>1. CASE ~Mergeable(all)
    BY <1>5, <2>1, <1>2 DEF Merge
  <2>2. CASE Mergeable(all)
    <3>1. t \in Traces
      BY <1>5 DEF Merge, TraceKnown
    <3>2. all \in SUBSET Spans
      BY <1>0, <1>1, <3>1 DEF Joined
    <3>3. x \in Jobs /\ x.trace \in Traces
      BY <1>0, <3>1, <3>2 DEF Jobs
    <3>4. job' = [job EXCEPT ![w] = x]
      BY <1>0, <1>5, <2>2 DEF Merge
    <3> HIDE DEF x
    <3> QED BY <1>0, <3>3, <3>4, JobTypes
  <2> QED BY <2>1, <2>2
<1>6. ASSUME Commit(w) PROVE job' \in [Writers -> Jobs] /\ TraceKnown'
  <2> DEFINE x == [job[w] EXCEPT !.pc = "committed"]
  <2>1. x \in Jobs /\ x.trace \in Traces
    BY <1>0, <1>6 DEF Jobs, Commit, TraceKnown
  <2>2. job' = [job EXCEPT ![w] = x]
    BY <1>0, <1>6 DEF Commit
  <2> HIDE DEF x
  <2> QED BY <1>0, <2>1, <2>2, JobTypes
<1>7. ASSUME Publish(w) PROVE job' \in [Writers -> Jobs] /\ TraceKnown'
  <2> DEFINE t == job[w].trace
             x == [NoJob EXCEPT !.pc = IF Left(w) = {t} THEN "idle" ELSE "next",
                                !.batch = [job[w].batch EXCEPT ![t] = {}]]
  <2>1. CASE ~Assembles(Content(w))
    BY <1>7, <2>1, <1>2 DEF Publish
  <2>2. CASE Assembles(Content(w))
    <3>1. [job[w].batch EXCEPT ![t] = {}] \in [Traces -> SUBSET Spans]
      BY <1>1
    <3>2. x \in Jobs /\ x.pc \in {"idle", "next"}
      BY <3>1, NoJobType DEF Jobs, NoJob
    <3>3. job' = [job EXCEPT ![w] = x]
      BY <1>7, <2>2 DEF Publish
    <3> HIDE DEF x
    <3> QED BY <1>0, <3>2, <3>3, JobTypes
  <2> QED BY <2>1, <2>2
<1> QED BY <1>2, <1>3, <1>4, <1>5, <1>6, <1>7 DEF AbortMerge, Crash

\* Types are kept.
LEMMA TypesNext == Types /\ [Next]_vars => Types'
<1> SUFFICES ASSUME TypeOK, TraceKnown, [Next]_vars PROVE TypeOK' /\ TraceKnown'
  BY DEF Types
<1>0. /\ spans \in [Traces -> SUBSET Spans]
      /\ received \in [Traces -> {"absent", "fresh", "old"}]
      /\ lock \in [Traces -> Writers \union {"free"}]
      /\ job \in [Writers -> Jobs] /\ expiry \in Expiries
      /\ published \subseteq Traces \X SUBSET Spans /\ owed \subseteq Traces
  BY DEF TypeOK, Jobs, Expiries
<1> DEFINE Kept == TypeOK' /\ TraceKnown'
<1>j. \A w \in Writers :
        /\ job[w].batch \in [Traces -> SUBSET Spans] /\ job[w].seen \in SUBSET Spans
        /\ job[w].pc \in {"locked", "merged", "committed"} => job[w].trace \in Traces
  BY <1>0 DEF Jobs, TraceKnown
<1>t. ASSUME /\ spans' \in [Traces -> SUBSET Spans]
             /\ received' \in [Traces -> {"absent", "fresh", "old"}]
             /\ lock' \in [Traces -> Writers \union {"free"}]
             /\ job' \in [Writers -> Jobs] /\ TraceKnown' /\ expiry' \in Expiries
             /\ published' \subseteq Traces \X SUBSET Spans /\ owed' \subseteq Traces
      PROVE  Kept
  BY <1>t DEF TypeOK, Jobs, Expiries
<1> HIDE DEF Kept
<1>1. ASSUME NEW w \in Writers, NEW e \in Exports, Receive(w, e) PROVE Kept
  BY <1>0, <1>1, <1>t, RequestTypes DEF Receive
<1>2. ASSUME NEW w \in Writers, Upsert(w) PROVE Kept
  BY <1>0, <1>2, <1>t, RequestTypes DEF Upsert
<1>3. ASSUME NEW w \in Writers, Merge(w) PROVE Kept
  <2>1. lock' \in [Traces -> Writers \union {"free"}]
    BY <1>0, <1>3 DEF Merge
  <2> QED BY <1>0, <1>3, <2>1, <1>t, RequestTypes DEF Merge
<1>4. ASSUME NEW w \in Writers, Commit(w) PROVE Kept
  <2>1. spans' \in [Traces -> SUBSET Spans]
    BY <1>0, <1>j, <1>4 DEF Commit, Joined
  <2> QED BY <1>0, <1>4, <2>1, <1>t, RequestTypes DEF Commit
<1>5. ASSUME NEW w \in Writers, Publish(w) PROVE Kept
  <2>1. published' \subseteq Traces \X SUBSET Spans /\ owed' \subseteq Traces
    BY <1>0, <1>j, <1>5 DEF Publish, Content
  <2> QED BY <1>0, <1>5, <2>1, <1>t, RequestTypes DEF Publish
<1>6. ASSUME NEW w \in Writers, AbortMerge(w) \/ Crash(w) PROVE Kept
  <2>1. owed' \subseteq Traces /\ lock' \in [Traces -> Writers \union {"free"}]
    BY <1>0, <1>j, <1>6 DEF AbortMerge, Crash
  <2> QED BY <1>0, <1>6, <2>1, <1>t, RequestTypes DEF AbortMerge, Crash
<1>7. ASSUME UNCHANGED job PROVE Kept
  <2>0. TraceKnown'
    BY <1>7 DEF TraceKnown
  <2>1. ASSUME NEW t \in Traces, Age(t) PROVE Kept
    BY <1>0, <2>0, <2>1, <1>t DEF Age
  <2>2. ASSUME ExpireSpans PROVE Kept
    <3>1. expiry' \in Expiries
      BY <1>0, <2>2 DEF ExpireSpans, Expiries
    <3> QED BY <1>0, <2>0, <2>2, <3>1, <1>t DEF ExpireSpans
  <2>3. ASSUME ExpireRows PROVE Kept
    <3>1. /\ spans' \in [Traces -> SUBSET Spans]
          /\ received' \in [Traces -> {"absent", "fresh", "old"}]
      BY <1>0, <2>3 DEF ExpireRows
    <3> QED BY <1>0, <2>0, <2>3, <3>1, NoExpiryType, <1>t DEF ExpireRows
  <2>4. ASSUME AbortExpiry PROVE Kept
    BY <1>0, <2>0, <2>4, NoExpiryType, <1>t DEF AbortExpiry
  <2>5. ASSUME UNCHANGED avars PROVE Kept
    BY <1>0, <2>0, <2>5, <1>t DEF avars
  <2> QED
    BY <1>1, <1>2, <1>3, <1>4, <1>5, <1>6, <2>1, <2>2, <2>3, <2>4, <2>5
       DEF Next, vars, InsertTelemetry, ExpireTelemetry
<1>8. ASSUME ~UNCHANGED job PROVE Kept
  BY <1>1, <1>2, <1>3, <1>4, <1>5, <1>6, <1>8
     DEF Next, vars, avars, InsertTelemetry, ExpireTelemetry, Age, ExpireSpans,
         ExpireRows, AbortExpiry
<1> QED BY <1>7, <1>8 DEF Kept

LEMMA TypesInit == Init => Types
  BY NoJobType, NoExpiryType DEF Init, Types, TypeOK, TraceKnown, NoJob, Jobs, Expiries

-----------------------------------------------------------------------------
\* A row's lock belongs to one writer, and what that writer has read of the
\* trace is what is committed: nobody else commits spans of it meanwhile, and
\* the expiry deletes spans of a trace only while its row is free.
Locked ==
  /\ \A t \in Traces : lock[t] # "free" =>
       /\ job[lock[t]].pc \in {"locked", "merged"} /\ job[lock[t]].trace = t
  /\ \A w \in Writers : job[w].pc \in {"locked", "merged"} => lock[job[w].trace] = w

SeenAll ==
  \A w \in Writers : job[w].pc = "merged" =>
    /\ job[w].seen = spans[job[w].trace] \union job[w].batch[job[w].trace]
    /\ Mergeable(job[w].seen)

\* Between the two statements of the expiry, a trace it took for old and that
\* still is old has no span but those it deleted.
Doomed ==
  expiry.pc = "spans" => \A t \in Traces :
    /\ t \notin expiry.due => expiry.doomed[t] = {}
    /\ t \in expiry.due /\ received[t] = "old" => spans[t] \subseteq expiry.doomed[t]
    /\ t \in expiry.due => received[t] # "absent"

IInv == Types /\ Locked /\ SeenAll /\ Doomed /\ NoOrphanSpans

\* Everything but the job, the lock and the spans of one writer's trace stays.
LEMMA OthersKeepTheirs ==
  ASSUME Types, Locked, SeenAll, NEW w \in Writers, NEW x \in Jobs,
         x.pc \notin {"locked", "merged"}, job' = [job EXCEPT ![w] = x],
         lock' = [t \in Traces |-> IF lock[t] = w THEN "free" ELSE lock[t]],
         \A t \in Traces : lock[t] # w => spans'[t] = spans[t]
  PROVE  Locked' /\ SeenAll'
<1>0. job \in [Writers -> Jobs] /\ lock \in [Traces -> Writers \union {"free"}] /\ TraceKnown
  BY DEF Types, TypeOK, Jobs
<1>1. \A v \in Writers \ {w} : job'[v] = job[v]
  BY <1>0
<1>2. job'[w].pc \notin {"locked", "merged"}
  BY <1>0
<1>3. "free" \notin Writers
  BY TraceConstants
<1>4. Locked'
  <2>1. ASSUME NEW t \in Traces, lock'[t] # "free"
        PROVE  job'[lock'[t]].pc \in {"locked", "merged"} /\ job'[lock'[t]].trace = t
    BY <1>0, <1>1, <2>1 DEF Locked
  <2>2. ASSUME NEW v \in Writers, job'[v].pc \in {"locked", "merged"}
        PROVE  lock'[job'[v].trace] = v
    <3>1. v # w /\ job'[v] = job[v]
      BY <1>1, <1>2, <2>2
    <3>2. job[v].trace \in Traces /\ lock[job[v].trace] = v
      BY <1>0, <3>1, <2>2 DEF Locked, TraceKnown
    <3> QED BY <3>1, <3>2
  <2> QED BY <2>1, <2>2 DEF Locked
<1>5. ASSUME NEW v \in Writers, job'[v].pc = "merged"
      PROVE  /\ job'[v].seen = spans'[job'[v].trace] \union job'[v].batch[job'[v].trace]
             /\ Mergeable(job'[v].seen)
  <2>1. v # w /\ job'[v] = job[v]
    BY <1>1, <1>2, <1>5
  <2>2. job[v].trace \in Traces /\ lock[job[v].trace] = v
    BY <1>0, <2>1, <1>5 DEF Locked, TraceKnown
  <2>3. spans'[job[v].trace] = spans[job[v].trace]
    BY <2>1, <2>2
  <2> QED BY <1>5, <2>1, <2>3 DEF SeenAll
<1>6. SeenAll'
  BY <1>5, TraceConstants DEF SeenAll, Mergeable
<1> QED BY <1>4, <1>6

LEMMA HoldsNone ==
  ASSUME Types, Locked, NEW w \in Writers, job[w].pc \notin {"locked", "merged"}
  PROVE  lock = [t \in Traces |-> IF lock[t] = w THEN "free" ELSE lock[t]]
<1>1. lock \in [Traces -> Writers \union {"free"}] /\ \A t \in Traces : lock[t] # w
  BY TraceConstants DEF Types, TypeOK, Locked
<1> QED BY <1>1

LEMMA HoldsOne ==
  ASSUME Types, Locked, NEW w \in Writers, job[w].pc \in {"locked", "merged"}
  PROVE  /\ job[w].trace \in Traces /\ lock[job[w].trace] = w
         /\ [lock EXCEPT ![job[w].trace] = "free"]
              = [t \in Traces |-> IF lock[t] = w THEN "free" ELSE lock[t]]
<1>1. lock \in [Traces -> Writers \union {"free"}] /\ job[w].trace \in Traces
  BY DEF Types, TypeOK, TraceKnown
<1>2. \A t \in Traces : lock[t] = w <=> t = job[w].trace
  BY TraceConstants, <1>1 DEF Locked
<1> QED BY <1>1, <1>2

\* Locks and what was read under them, through every step of a handler.
LEMMA LocksHandler ==
  ASSUME IInv, NEW w \in Writers,
         \/ \E e \in Exports : Receive(w, e)
         \/ Upsert(w) \/ Merge(w) \/ Commit(w) \/ Publish(w) \/ AbortMerge(w) \/ Crash(w)
  PROVE  Locked' /\ SeenAll'
<1>0. Types /\ Locked /\ SeenAll
  BY DEF IInv
<1>1. /\ job \in [Writers -> Jobs] /\ lock \in [Traces -> Writers \union {"free"}]
      /\ spans \in [Traces -> SUBSET Spans] /\ TraceKnown
  BY <1>0 DEF Types, TypeOK, Jobs
<1>2. job' \in [Writers -> Jobs] /\ TraceKnown'
  BY <1>0, RequestTypes DEF Types
<1> DEFINE x == job'[w]
           freed == [t \in Traces |-> IF lock[t] = w THEN "free" ELSE lock[t]]
<1>3. ASSUME job' = [job EXCEPT ![w] = x], x.pc \notin {"locked", "merged"},
             lock' = freed, \A t \in Traces : lock[t] # w => spans'[t] = spans[t]
      PROVE  Locked' /\ SeenAll'
  <2>1. x \in Jobs
    BY <1>2
  <2> QED BY <1>0, <1>3, <2>1, OthersKeepTheirs
<1> HIDE DEF freed
<1>4. ASSUME NEW e \in Exports, Receive(w, e) PROVE Locked' /\ SeenAll'
  <2>1. job' = [job EXCEPT ![w] = x] /\ x.pc = "next" /\ job[w].pc = "idle"
    BY <1>1, <1>4 DEF Receive, Jobs
  <2> QED BY <1>0, <1>3, <1>4, <2>1, HoldsNone DEF Receive, freed
<1>5. ASSUME Upsert(w) PROVE Locked' /\ SeenAll'
  <2>0. job[w].pc = "next" /\ spans' = spans
    BY <1>5 DEF Upsert
  <2>1. CASE job' = [job EXCEPT ![w] = NoJob] /\ UNCHANGED lock
    BY <1>0, <1>1, <1>3, <2>0, <2>1, HoldsNone DEF NoJob, freed
  <2>2. ASSUME NEW t \in Traces, lock[t] = "free", lock' = [lock EXCEPT ![t] = w],
               job' = [job EXCEPT ![w].pc = "locked", ![w].trace = t]
        PROVE  Locked' /\ SeenAll'
    <3>0. "free" \notin Writers
      BY TraceConstants
    <3>1. /\ \A v \in Writers \ {w} : job'[v] = job[v]
          /\ job'[w].pc = "locked" /\ job'[w].trace = t
      BY <1>1, <2>2 DEF Jobs
    <3>2. \A s \in Traces : lock'[s] = IF s = t THEN w ELSE lock[s]
      BY <1>1, <2>2
    <3>3. \A s \in Traces : lock[s] # w
      BY <1>0, <2>0, <3>0 DEF Locked
    <3>4. \A v \in Writers \ {w} : job[v].pc \in {"locked", "merged"} => job[v].trace # t
      BY <1>0, <2>2, <3>0 DEF Locked
    <3>5. Locked'
      <4>1. ASSUME NEW s \in Traces, lock'[s] # "free"
            PROVE  job'[lock'[s]].pc \in {"locked", "merged"} /\ job'[lock'[s]].trace = s
        BY <1>0, <1>1, <3>1, <3>2, <3>3, <4>1 DEF Locked
      <4>2. ASSUME NEW v \in Writers, job'[v].pc \in {"locked", "merged"}
            PROVE  lock'[job'[v].trace] = v
        BY <1>0, <1>1, <3>1, <3>2, <3>4, <4>2 DEF Locked, TraceKnown
      <4> QED BY <4>1, <4>2 DEF Locked
    <3>6. ASSUME NEW v \in Writers, job'[v].pc = "merged"
          PROVE  /\ job'[v].seen = spans'[job'[v].trace] \union job'[v].batch[job'[v].trace]
                 /\ Mergeable(job'[v].seen)
      BY <1>0, <2>0, <3>1, <3>6 DEF SeenAll
    <3> QED BY <3>5, <3>6 DEF SeenAll, Mergeable
  <2> QED BY <1>5, <2>1, <2>2 DEF Upsert, Left
<1>6. ASSUME Merge(w) PROVE Locked' /\ SeenAll'
  <2> DEFINE t == job[w].trace
             all == Joined(spans[t], job[w].batch[t])
  <2>0. job[w].pc = "locked" /\ spans' = spans
    BY <1>6 DEF Merge
  <2>1. CASE ~Mergeable(all)
    <3>1. job' = [job EXCEPT ![w] = NoJob] /\ lock' = [lock EXCEPT ![t] = "free"]
      BY <1>6, <2>1 DEF Merge
    <3>2. job' = [job EXCEPT ![w] = x] /\ x.pc = "idle"
      BY <1>1, <3>1 DEF NoJob
    <3> QED BY <1>0, <1>3, <2>0, <3>1, <3>2, HoldsOne DEF freed
  <2>2. CASE Mergeable(all)
    <3>1. /\ \A v \in Writers \ {w} : job'[v] = job[v]
          /\ job'[w].pc = "merged" /\ job'[w].trace = t /\ job'[w].seen = all
          /\ job'[w].batch = job[w].batch
          /\ lock' = lock
      BY <1>1, <1>6, <2>2 DEF Merge, Jobs
    <3>2. Locked'
      BY <1>0, <1>1, <2>0, <3>1 DEF Locked
    <3>3. ASSUME NEW v \in Writers, job'[v].pc = "merged"
          PROVE  /\ job'[v].seen = spans'[job'[v].trace] \union job'[v].batch[job'[v].trace]
                 /\ Mergeable(job'[v].seen)
      BY <1>0, <2>0, <2>2, <3>1, <3>3 DEF SeenAll, Joined
    <3> QED BY <3>2, <3>3 DEF SeenAll, Mergeable
  <2> QED BY <2>1, <2>2
<1>7. ASSUME Commit(w) PROVE Locked' /\ SeenAll'
  <2>1. job' = [job EXCEPT ![w] = x] /\ x.pc = "committed" /\ job[w].pc = "merged"
    BY <1>1, <1>7 DEF Commit, Jobs
  <2>2. \A t \in Traces : t # job[w].trace => spans'[t] = spans[t]
    BY <1>1, <1>7 DEF Commit
  <2> QED BY <1>0, <1>3, <1>7, <2>1, <2>2, HoldsOne DEF Commit, freed
<1>8. ASSUME Publish(w) PROVE Locked' /\ SeenAll'
  <2>1. job' = [job EXCEPT ![w] = x] /\ x.pc \in {"idle", "next"} /\ job[w].pc = "committed"
    <3>1. CASE Assembles(Content(w))
      BY <1>1, <1>8, <3>1 DEF Publish, NoJob
    <3>2. CASE ~Assembles(Content(w))
      BY <1>1, <1>8, <3>2 DEF Publish, NoJob
    <3> QED BY <3>1, <3>2
  <2> QED BY <1>0, <1>3, <1>8, <2>1, HoldsNone DEF Publish, freed
<1>9. ASSUME AbortMerge(w) PROVE Locked' /\ SeenAll'
  <2>1. job' = [job EXCEPT ![w] = x] /\ x.pc = "idle" /\ job[w].pc = "locked"
    BY <1>1, <1>9 DEF AbortMerge, Deadlocked, NoJob
  <2> QED BY <1>0, <1>3, <1>9, <2>1, HoldsOne DEF AbortMerge, freed
<1>10. ASSUME Crash(w) PROVE Locked' /\ SeenAll'
  <2>1. job' = [job EXCEPT ![w] = x] /\ x.pc = "idle"
    BY <1>1, <1>10 DEF Crash, NoJob
  <2> QED BY <1>3, <1>10, <2>1 DEF Crash, freed
<1> QED BY <1>4, <1>5, <1>6, <1>7, <1>8, <1>9, <1>10

\* Steps of no handler: the clock, the expiry and telemetry.
Background ==
  \/ \E t \in Traces : Age(t)
  \/ ExpireSpans \/ ExpireRows \/ AbortExpiry
  \/ UNCHANGED avars

LEMMA LocksBackground == IInv /\ Background => Locked' /\ SeenAll'
<1> SUFFICES ASSUME IInv, Background PROVE Locked' /\ SeenAll'
  OBVIOUS
<1>1. lock' = lock /\ job' = job
  BY DEF Background, Age, ExpireSpans, ExpireRows, AbortExpiry, avars
<1>2. Locked'
  BY <1>1 DEF IInv, Locked
<1>3. ASSUME NEW w \in Writers, job[w].pc = "merged" PROVE spans'[job[w].trace] = spans[job[w].trace]
  <2>1. job[w].trace \in Traces /\ lock[job[w].trace] # "free"
    BY <1>3, TraceConstants DEF IInv, Types, TraceKnown, Locked
  <2>2. CASE ExpireRows
    <3>1. job[w].trace \notin expiry.due /\ expiry.pc = "spans"
      BY <2>1, <2>2 DEF ExpireRows
    <3> QED BY <2>1, <2>2, <3>1 DEF ExpireRows, IInv, Doomed
  <2> QED BY <2>2 DEF Background, Age, ExpireSpans, AbortExpiry, avars
<1>4. SeenAll'
  BY <1>1, <1>3 DEF IInv, SeenAll, Mergeable
<1> QED BY <1>2, <1>4

\* The expiry between its statements, and the rows of the spans.
LEMMA ExpiryNext == IInv /\ [Next]_vars => Doomed' /\ NoOrphanSpans'
<1> SUFFICES ASSUME IInv, [Next]_vars PROVE Doomed' /\ NoOrphanSpans'
  OBVIOUS
<1>0. /\ spans \in [Traces -> SUBSET Spans] /\ expiry \in Expiries
      /\ received \in [Traces -> {"absent", "fresh", "old"}]
      /\ Doomed /\ NoOrphanSpans
  BY DEF IInv, Types, TypeOK, Expiries
<1>1. CASE UNCHANGED <<spans, received, expiry>>
  BY <1>0, <1>1 DEF Doomed, NoOrphanSpans
<1>2. ASSUME NEW w \in Writers, Commit(w) PROVE Doomed' /\ NoOrphanSpans'
  <2> DEFINE t == job[w].trace
  <2>1. /\ \A s \in Traces : s # t => spans'[s] = spans[s]
        /\ \A s \in Traces : received'[s] = IF s = t THEN "fresh" ELSE received[s]
        /\ expiry' = expiry
    BY <1>0, <1>2 DEF Commit
  <2> HIDE DEF t
  <2>2. Doomed'
    BY <1>0, <2>1 DEF Doomed
  <2>3. NoOrphanSpans'
    BY <1>0, <2>1 DEF NoOrphanSpans
  <2> QED BY <2>2, <2>3
<1>3. ASSUME NEW t \in Traces, Age(t) PROVE Doomed' /\ NoOrphanSpans'
  <2>1. /\ t \notin expiry.due /\ spans' = spans /\ expiry' = expiry
        /\ \A s \in Traces : received'[s] = IF s = t THEN "old" ELSE received[s]
        /\ received[t] = "fresh"
    BY <1>0, <1>3 DEF Age
  <2> QED BY <1>0, <2>1 DEF Doomed, NoOrphanSpans
<1>4. CASE ExpireSpans
  <2> DEFINE due == {t \in Traces : received[t] = "old"}
  <2>1. /\ expiry'.due = due /\ spans' = spans /\ received' = received
        /\ \A t \in Traces : expiry'.doomed[t] = IF t \in due THEN spans[t] ELSE {}
    BY <1>4 DEF ExpireSpans
  <2> QED BY <1>0, <2>1 DEF Doomed, NoOrphanSpans
<1>5. CASE ExpireRows
  <2>1. /\ expiry.pc = "spans" /\ expiry'.pc = "idle"
        /\ \A t \in Traces : /\ spans'[t] = spans[t] \ expiry.doomed[t]
                             /\ received'[t] = IF Expired(t) THEN "absent" ELSE received[t]
    BY <1>5 DEF ExpireRows, NoExpiry
  <2>2. ASSUME NEW t \in Traces, spans'[t] # {} PROVE received'[t] # "absent"
    BY <1>0, <2>1, <2>2 DEF Doomed, NoOrphanSpans, Expired
  <2> QED BY <2>1, <2>2 DEF Doomed, NoOrphanSpans
<1>6. CASE AbortExpiry
  BY <1>0, <1>6 DEF AbortExpiry, NoExpiry, Doomed, NoOrphanSpans
<1> QED BY <1>1, <1>2, <1>3, <1>4, <1>5, <1>6
       DEF Next, vars, avars, Receive, Upsert, Merge, Publish, AbortMerge, Crash,
           InsertTelemetry, ExpireTelemetry

LEMMA Inductive == IInv /\ [Next]_vars => IInv'
<1> SUFFICES ASSUME IInv, [Next]_vars PROVE IInv'
  OBVIOUS
<1>1. Types'
  BY TypesNext DEF IInv
<1>2. Locked' /\ SeenAll'
  BY LocksHandler, LocksBackground
     DEF Background, Next, vars, InsertTelemetry, ExpireTelemetry
<1>3. Doomed' /\ NoOrphanSpans'
  BY ExpiryNext
<1> QED BY <1>1, <1>2, <1>3 DEF IInv

LEMMA IInvInit == Init => IInv
<1> SUFFICES ASSUME Init PROVE IInv
  OBVIOUS
<1>1. Types
  BY TypesInit
<1>2. Locked /\ SeenAll
  BY DEF Init, NoJob, Locked, SeenAll
<1>3. Doomed /\ NoOrphanSpans
  BY DEF Init, NoExpiry, Doomed, NoOrphanSpans
<1> QED BY <1>1, <1>2, <1>3 DEF IInv

LEMMA AlwaysIInv == Spec => []IInv
  BY IInvInit, Inductive, PTL DEF Spec

\* Every row, job and transaction has its shape, for any number of them.
THEOREM TraceTypeCorrect == Spec => []TypeOK
<1>1. IInv => TypeOK
  BY DEF IInv, Types
<1> QED BY <1>1, AlwaysIInv, PTL

\* expire_traces never leaves a span without its assembly, however merges fall
\* between its two statements.
THEOREM SpansHaveAssemblies == Spec => []NoOrphanSpans
<1>1. IInv => NoOrphanSpans
  BY DEF IInv
<1> QED BY <1>1, AlwaysIInv, PTL

-----------------------------------------------------------------------------
\* The refinement of TraceEvidence. Pending changes only when a writer enters
\* or leaves "committed".
LEMMA PendingStays ==
  ASSUME job \in [Writers -> Jobs], NEW w \in Writers, NEW x \in Jobs,
         job' = [job EXCEPT ![w] = x], job[w].pc # "committed", x.pc # "committed"
  PROVE  Pending' = Pending
<1>1. \A v \in Writers : /\ job'[v].pc = "committed" <=> job[v].pc = "committed"
                         /\ job'[v].pc = "committed" => job'[v] = job[v]
  OBVIOUS
<1> QED BY <1>1 DEF Pending

\* A writer that leaves takes its content along unless another has it too.
LEMMA PendingLeft ==
  ASSUME job \in [Writers -> Jobs], NEW w \in Writers, NEW x \in Jobs,
         job' = [job EXCEPT ![w] = x], job[w].pc = "committed", x.pc # "committed"
  PROVE  LET p == <<job[w].trace, job[w].seen>>
         IN  p \in Pending /\ Pending' \in {Pending, Pending \ {p}}
<1> DEFINE p == <<job[w].trace, job[w].seen>>
<1>1. p \in Pending
  BY DEF Pending
<1>2. job'[w].pc # "committed" /\ \A v \in Writers \ {w} : job'[v] = job[v]
  OBVIOUS
<1>3. Pending' = {<<job[v].trace, job[v].seen>> :
                    v \in {y \in Writers \ {w} : job[y].pc = "committed"}}
  BY <1>2 DEF Pending
<1>4. Pending = Pending' \union {p}
  BY <1>3 DEF Pending
<1>5. CASE p \in Pending'
  BY <1>1, <1>4, <1>5
<1>6. CASE p \notin Pending'
  BY <1>1, <1>4, <1>6
<1> QED BY <1>1, <1>5, <1>6

\* The batches offered change with the job of a writer only: it comes with batches
\* of its export, and is done with some or all of them.
LEMMA OffersLeft ==
  ASSUME job \in [Writers -> Jobs], NEW w \in Writers, NEW x \in Jobs,
         job' = [job EXCEPT ![w] = x],
         \A t \in Traces : x.batch[t] = {} \/ x.batch[t] = job[w].batch[t]
  PROVE  Offered' \subseteq Offered
<1> SUFFICES ASSUME NEW v \in Writers, NEW t \in Traces, job'[v].batch[t] # {}
             PROVE  <<t, job'[v].batch[t]>> \in Offered
  BY DEF Offered
<1>1. job'[v].batch[t] = job[v].batch[t]
  OBVIOUS
<1> QED BY <1>1 DEF Offered

LEMMA OffersStay ==
  ASSUME job \in [Writers -> Jobs], NEW w \in Writers, NEW x \in Jobs,
         job' = [job EXCEPT ![w] = x], x.batch = job[w].batch
  PROVE  Offered' = Offered
<1>1. \A v \in Writers : job'[v].batch = job[v].batch
  OBVIOUS
<1> QED BY <1>1 DEF Offered

\* A request inside a merge has a batch for its trace, and what the expiry is about
\* to delete of a trace is there.
Sending ==
  \A w \in Writers :
    job[w].pc \in {"locked", "merged"} => job[w].batch[job[w].trace] # {}

DoomedThere ==
  expiry.pc = "spans" => \A t \in Traces : expiry.doomed[t] \subseteq spans[t]

EInv == IInv /\ Sending /\ DoomedThere

LEMMA SendingNext == IInv /\ Sending /\ [Next]_vars => Sending'
<1> SUFFICES ASSUME IInv, Sending, [Next]_vars, NEW v \in Writers,
                    job'[v].pc \in {"locked", "merged"}
             PROVE  job'[v].batch[job'[v].trace] # {}
  BY DEF Sending
<1>0. job \in [Writers -> Jobs]
  BY DEF IInv, Types, TypeOK, Jobs
<1>1. CASE job'[v] = job[v]
  BY <1>1 DEF Sending
<1>2. ASSUME NEW w \in Writers, Upsert(w), job'[v] # job[v]
      PROVE  job'[v].batch[job'[v].trace] # {}
  <2>1. CASE job' = [job EXCEPT ![w] = NoJob]
    BY <1>0, <1>2, <2>1 DEF NoJob
  <2>2. ASSUME NEW t \in Left(w), job' = [job EXCEPT ![w].pc = "locked", ![w].trace = t]
        PROVE  job'[v].batch[job'[v].trace] # {}
    BY <1>0, <1>2, <2>2 DEF Left, Jobs
  <2> QED BY <1>2, <2>1, <2>2 DEF Upsert
<1>3. ASSUME NEW w \in Writers, Merge(w), job'[v] # job[v]
      PROVE  job'[v].batch[job'[v].trace] # {}
  <2>1. /\ job[w].pc = "locked" /\ v = w
        /\ \/ job' = [job EXCEPT ![w] = NoJob]
           \/ \E S : job' = [job EXCEPT ![w].pc = "merged", ![w].seen = S]
    BY <1>0, <1>3 DEF Merge
  <2>2. CASE job' = [job EXCEPT ![w] = NoJob]
    BY <1>0, <2>1, <2>2 DEF NoJob
  <2>3. ASSUME NEW S, job' = [job EXCEPT ![w].pc = "merged", ![w].seen = S]
        PROVE  job'[v].batch[job'[v].trace] # {}
    BY <1>0, <2>1, <2>3 DEF Sending, Jobs
  <2> QED BY <2>1, <2>2, <2>3
<1>4. ASSUME NEW w \in Writers,
             \/ \E e \in Exports : Receive(w, e)
             \/ Commit(w) \/ Publish(w) \/ AbortMerge(w) \/ Crash(w)
      PROVE  job'[w].pc \notin {"locked", "merged"} /\ \A u \in Writers \ {w} : job'[u] = job[u]
  <2>1. CASE \E e \in Exports : Receive(w, e)
    BY <1>0, <2>1 DEF Receive, Jobs
  <2>2. CASE Commit(w)
    BY <1>0, <2>2 DEF Commit, Jobs
  <2>3. CASE Publish(w)
    <3>1. CASE Assembles(Content(w))
      BY <1>0, <2>3, <3>1 DEF Publish, NoJob
    <3>2. CASE ~Assembles(Content(w))
      BY <1>0, <2>3, <3>2 DEF Publish, NoJob
    <3> QED BY <3>1, <3>2
  <2>4. CASE AbortMerge(w) \/ Crash(w)
    BY <1>0, <2>4 DEF AbortMerge, Crash, NoJob, Jobs
  <2> QED BY <1>4, <2>1, <2>2, <2>3, <2>4
<1> QED
  BY <1>1, <1>2, <1>3, <1>4
     DEF Next, vars, avars, Age, ExpireSpans, ExpireRows, AbortExpiry, InsertTelemetry,
         ExpireTelemetry

LEMMA DoomedThereNext == IInv /\ DoomedThere /\ [Next]_vars => DoomedThere'
<1> SUFFICES ASSUME IInv, DoomedThere, [Next]_vars PROVE DoomedThere'
  OBVIOUS
<1>1. CASE UNCHANGED <<spans, expiry>>
  BY <1>1 DEF DoomedThere
<1>2. ASSUME NEW w \in Writers, Commit(w) PROVE DoomedThere'
  <2>1. expiry' = expiry /\ \A t \in Traces : spans[t] \subseteq spans'[t]
    BY <1>2 DEF Commit, Joined, IInv, Types, TypeOK
  <2> QED BY <2>1 DEF DoomedThere
<1>3. CASE ExpireSpans
  BY <1>3 DEF ExpireSpans, DoomedThere
<1>4. CASE ExpireRows \/ AbortExpiry
  BY <1>4 DEF ExpireRows, AbortExpiry, NoExpiry, DoomedThere
<1> QED
  BY <1>1, <1>2, <1>3, <1>4
     DEF Next, vars, avars, Receive, Upsert, Merge, Publish, AbortMerge, Crash, Age,
         InsertTelemetry, ExpireTelemetry

LEMMA AlwaysEInv == Spec => []EInv
<1>1. Init => Sending /\ DoomedThere
  BY DEF Init, NoJob, NoExpiry, Sending, DoomedThere
<1>2. IInv /\ Sending /\ DoomedThere /\ [Next]_vars => Sending' /\ DoomedThere'
  BY SendingNext, DoomedThereNext
<1> QED BY <1>1, <1>2, AlwaysIInv, PTL DEF Spec, EInv

\* What is stale, trace by trace.
StaleOf(t) ==
  IF expiry.pc = "spans" /\ t \in expiry.due THEN expiry.doomed[t]
  ELSE IF received[t] = "old" THEN spans[t] ELSE {}

LEMMA StaleValue ==
  /\ Stale = [t \in Traces |-> StaleOf(t)]
  /\ Stale' = [t \in Traces |-> StaleOf(t)']
  BY Zenon DEF Stale, StaleOf

\* An assembly that is fresh again has nothing stale, unless the expiry took it.
LEMMA StaleFreshened ==
  ASSUME received \in [Traces -> {"absent", "fresh", "old"}], NEW t \in Traces,
         received' = [received EXCEPT ![t] = "fresh"], expiry' = expiry,
         \A s \in Traces \ {t} : spans'[s] = spans[s]
  PROVE  Stale' \in {Stale, [Stale EXCEPT ![t] = {}]}
<1>1. \A s \in Traces \ {t} : StaleOf(s)' = StaleOf(s)
  BY DEF StaleOf
<1>2. StaleOf(t)' = StaleOf(t) \/ StaleOf(t)' = {}
  BY DEF StaleOf
<1>3. CASE StaleOf(t)' = StaleOf(t)
  <2>1. [s \in Traces |-> StaleOf(s)'] = [s \in Traces |-> StaleOf(s)]
    BY <1>1, <1>3, Zenon
  <2> QED BY <2>1, StaleValue
<1>4. CASE StaleOf(t)' = {}
  <2>1. [s \in Traces |-> StaleOf(s)'] = [[s \in Traces |-> StaleOf(s)] EXCEPT ![t] = {}]
    BY <1>1, <1>4
  <2> QED BY <2>1, StaleValue
<1> QED BY <1>2, <1>3, <1>4

\* A commit is the acceptance of the batch that its request came with.
LEMMA CommitAccepts ==
  ASSUME EInv, IInv', NEW w \in Writers, Commit(w)
  PROVE  Evidence!Next
<1> DEFINE t == job[w].trace
           batch == job[w].batch[t]
<1>0. /\ job \in [Writers -> Jobs] /\ spans \in [Traces -> SUBSET Spans] /\ t \in Traces
      /\ received \in [Traces -> {"absent", "fresh", "old"}]
  BY DEF EInv, IInv, Types, TypeOK, TraceKnown, Jobs, Commit
<1>1. job[w].seen = spans[t] \union batch /\ Mergeable(spans[t] \union batch)
  BY DEF Commit, EInv, IInv, SeenAll
<1>2. spans' = [spans EXCEPT ![t] = @ \union batch]
  BY DEF Commit, Joined
<1>3. Evidence!Consistent(spans[t] \union batch)
  BY <1>1 DEF Mergeable, Evidence!Consistent, OneContent, Acyclic,
              Evidence!OneContent, Evidence!Acyclic
<1>4. Pending' = Pending \union {<<t, spans[t] \union batch>>}
  <2>1. /\ job'[w].pc = "committed" /\ job'[w].trace = t /\ job'[w].seen = spans[t] \union batch
        /\ job[w].pc # "committed"
        /\ \A v \in Writers \ {w} : job'[v] = job[v]
    BY <1>0, <1>1 DEF Commit, Jobs
  <2> HIDE DEF t, batch
  <2> QED BY <2>1 DEF Pending
<1>5. Offered' = Offered /\ <<t, batch>> \in Offered
  <2>1. PICK x \in Jobs : job' = [job EXCEPT ![w] = x] /\ x.batch = job[w].batch
    <3> DEFINE y == [job[w] EXCEPT !.pc = "committed"]
    <3>1. y \in Jobs /\ y.batch = job[w].batch
      BY <1>0 DEF Jobs
    <3>2. job' = [job EXCEPT ![w] = y]
      BY <1>0 DEF Commit
    <3> QED BY <3>1, <3>2
  <2>2. Offered' = Offered
    BY <1>0, <2>1, OffersStay
  <2>3. batch # {}
    BY DEF EInv, Sending, Commit
  <2> QED BY <1>0, <2>2, <2>3 DEF Offered
<1>6. Assemblies' = Assemblies \union {t}
  BY <1>0 DEF Commit, Assemblies
<1>7. Stale' \in {Stale, [Stale EXCEPT ![t] = {}]}
  <2>1. /\ received' = [received EXCEPT ![t] = "fresh"] /\ expiry' = expiry
        /\ \A s \in Traces \ {t} : spans'[s] = spans[s]
    BY <1>0, <1>2 DEF Commit
  <2> HIDE DEF t
  <2> QED BY <1>0, <2>1, StaleFreshened
<1>8. published' = published
  BY DEF Commit
<1> HIDE DEF t, batch
<1>9. Evidence!Accept(t, batch)
  BY <1>2, <1>3, <1>4, <1>5, <1>6, <1>7, <1>8 DEF Evidence!Accept
<1> DEFINE o == <<t, batch>>
<1>10. o \in Offered /\ Evidence!Accept(o[1], o[2])
  BY <1>5, <1>9
<1> HIDE DEF o
<1> QED BY <1>10 DEF Evidence!Next

\* Steps that leave the spans and the expiry alone change nothing of the rest.
LEMMA StaleStays ==
  ASSUME UNCHANGED <<spans, received, expiry>>
  PROVE  Stale' = Stale /\ Assemblies' = Assemblies
  BY Zenon DEF Stale, Assemblies

\* A run is published, or an assembly fails and its content is lost.
LEMMA PublishPublishes ==
  ASSUME EInv, IInv', NEW w \in Writers, Publish(w)
  PROVE  Evidence!Next
<1> DEFINE p == <<job[w].trace, job[w].seen>>
<1>0. job \in [Writers -> Jobs] /\ job' \in [Writers -> Jobs]
  BY DEF EInv, IInv, Types, TypeOK, Jobs
<1>1. /\ job' = [job EXCEPT ![w] = job'[w]] /\ job'[w] \in Jobs
      /\ job[w].pc = "committed" /\ job'[w].pc # "committed"
      /\ \A t \in Traces : job'[w].batch[t] = {} \/ job'[w].batch[t] = job[w].batch[t]
  <2>1. CASE Assembles(Content(w))
    <3> DEFINE s == job[w].trace
               x == [NoJob EXCEPT !.pc = IF Left(w) = {s} THEN "idle" ELSE "next",
                                  !.batch = [job[w].batch EXCEPT ![s] = {}]]
    <3>1. job' = [job EXCEPT ![w] = x] /\ job[w].pc = "committed"
      BY <2>1 DEF Publish
    <3>2. /\ x.pc # "committed"
          /\ \A t \in Traces : x.batch[t] = {} \/ x.batch[t] = job[w].batch[t]
      BY <1>0 DEF NoJob, Jobs
    <3> HIDE DEF x
    <3> QED BY <1>0, <3>1, <3>2
  <2>2. CASE ~Assembles(Content(w))
    BY <1>0, <2>2 DEF Publish, NoJob
  <2> QED BY <2>1, <2>2
<1>2. p \in Pending /\ Pending' \in {Pending, Pending \ {p}}
  BY <1>0, <1>1, PendingLeft
<1>3. spans' = spans /\ Stale' = Stale /\ Assemblies' = Assemblies
  BY StaleStays DEF Publish
<1>4. published' = published \union {p} \/ published' = published
  BY DEF Publish, Content
<1>5. Offered' \subseteq Offered
  BY <1>0, <1>1, OffersLeft
<1> HIDE DEF p
<1>6. CASE published' = published \union {p}
  BY <1>2, <1>3, <1>5, <1>6 DEF Evidence!Next, Evidence!Publish, Evidence!Withdraw
<1>7. CASE published' = published /\ Pending' = Pending
  BY <1>3, <1>5, <1>7 DEF Evidence!Next, Evidence!Request
<1>8. CASE published' = published /\ Pending' = Pending \ {p}
  BY <1>2, <1>3, <1>5, <1>8 DEF Evidence!Next, Evidence!Lose, Evidence!Withdraw
<1> QED BY <1>2, <1>4, <1>6, <1>7, <1>8

\* A crash loses what its writer had committed and not published.
LEMMA CrashLoses ==
  ASSUME EInv, NEW w \in Writers, Crash(w)
  PROVE  Evidence!Next
<1> DEFINE p == <<job[w].trace, job[w].seen>>
<1>0. job \in [Writers -> Jobs]
  BY DEF EInv, IInv, Types, TypeOK, Jobs
<1>1. /\ job' = [job EXCEPT ![w] = NoJob] /\ NoJob \in Jobs /\ NoJob.pc # "committed"
      /\ \A t \in Traces : NoJob.batch[t] = {}
  BY NoJobType DEF Crash, NoJob
<1>2. spans' = spans /\ published' = published /\ Stale' = Stale /\ Assemblies' = Assemblies
  BY StaleStays DEF Crash
<1>3. Offered' \subseteq Offered
  <2>1. PICK x \in Jobs : job' = [job EXCEPT ![w] = x] /\ \A t \in Traces : x.batch[t] = {}
    BY <1>1
  <2>2. \A t \in Traces : x.batch[t] = {} \/ x.batch[t] = job[w].batch[t]
    BY <2>1
  <2> QED BY <1>0, <2>1, <2>2, OffersLeft
<1>4. CASE job[w].pc # "committed"
  <2>1. Pending' = Pending
    BY <1>0, <1>1, <1>4, PendingStays
  <2> QED BY <1>2, <1>3, <2>1 DEF Evidence!Next, Evidence!Request
<1>5. CASE job[w].pc = "committed"
  <2>1. p \in Pending /\ Pending' \in {Pending, Pending \ {p}}
    BY <1>0, <1>1, <1>5, PendingLeft
  <2> HIDE DEF p
  <2>2. CASE Pending' = Pending
    BY <1>2, <1>3, <2>2 DEF Evidence!Next, Evidence!Request
  <2>3. CASE Pending' = Pending \ {p}
    BY <1>2, <1>3, <2>1, <2>3 DEF Evidence!Next, Evidence!Lose, Evidence!Withdraw
  <2> QED BY <2>1, <2>2, <2>3
<1> QED BY <1>4, <1>5

\* Before its commit a request only comes with its batches, or ends.
LEMMA RequestsCome ==
  ASSUME EInv, IInv', NEW w \in Writers,
         \/ \E e \in Exports : Receive(w, e)
         \/ Upsert(w) \/ Merge(w) \/ AbortMerge(w)
  PROVE  Evidence!Request
<1>0. job \in [Writers -> Jobs] /\ job' \in [Writers -> Jobs]
  BY DEF EInv, IInv, Types, TypeOK, Jobs
<1>1. spans' = spans /\ published' = published /\ Stale' = Stale /\ Assemblies' = Assemblies
  BY StaleStays DEF Receive, Upsert, Merge, AbortMerge
<1>2. /\ job' = [job EXCEPT ![w] = job'[w]] /\ job[w].pc # "committed" /\ job'[w].pc # "committed"
      /\ \/ \E e \in Exports : \A t \in Traces : job'[w].batch[t] = BatchOf(e, t)
         \/ \A t \in Traces : job'[w].batch[t] = {} \/ job'[w].batch[t] = job[w].batch[t]
  <2> DEFINE P == /\ job' = [job EXCEPT ![w] = job'[w]]
                  /\ job[w].pc # "committed" /\ job'[w].pc # "committed"
             Less == \A t \in Traces : job'[w].batch[t] = {} \/ job'[w].batch[t] = job[w].batch[t]
  <2>1. ASSUME NEW e \in Exports, Receive(w, e)
        PROVE  P /\ \A t \in Traces : job'[w].batch[t] = BatchOf(e, t)
    BY <1>0, <2>1 DEF Receive, Jobs
  <2>2. ASSUME Upsert(w) PROVE P /\ Less
    BY <1>0, <2>2 DEF Upsert, NoJob, Jobs
  <2>3. ASSUME Merge(w) PROVE P /\ Less
    <3> DEFINE all == Joined(spans[job[w].trace], job[w].batch[job[w].trace])
    <3>1. CASE Mergeable(all)
      BY <1>0, <2>3, <3>1 DEF Merge, Jobs
    <3>2. CASE ~Mergeable(all)
      BY <1>0, <2>3, <3>2 DEF Merge, NoJob, Jobs
    <3> QED BY <3>1, <3>2
  <2>4. ASSUME AbortMerge(w) PROVE P /\ Less
    BY <1>0, <2>4 DEF AbortMerge, Deadlocked, NoJob, Jobs
  <2> QED BY <2>1, <2>2, <2>3, <2>4
<1>3. Pending' = Pending
  BY <1>0, <1>2, PendingStays
<1>4. ASSUME NEW o \in Offered' \ Offered PROVE o[1] \in Traces /\ o[2] \in Sent[o[1]]
  <2>1. PICK v \in Writers, t \in Traces : o = <<t, job'[v].batch[t]>> /\ job'[v].batch[t] # {}
    BY <1>4 DEF Offered
  <2>2. v = w
    <3>1. job'[v] = job[v] => o \in Offered
      BY <2>1 DEF Offered
    <3> QED BY <1>0, <1>2, <1>4, <3>1
  <2>3. ~(\A s \in Traces : job'[w].batch[s] = {} \/ job'[w].batch[s] = job[w].batch[s])
    <3>1. job'[w].batch[t] = job[w].batch[t] => o \in Offered
      BY <2>1, <2>2 DEF Offered
    <3> QED BY <1>4, <2>1, <2>2, <3>1
  <2>4. PICK e \in Exports : job'[w].batch[t] = BatchOf(e, t)
    BY <1>2, <2>3
  <2>5. BatchOf(e, t) \in Sent[t]
    BY <2>1, <2>2, <2>4 DEF Sent
  <2> QED BY <2>1, <2>2, <2>4, <2>5
<1> QED BY <1>1, <1>3, <1>4 DEF Evidence!Request

\* The expiry only forgets what is stale, and its first statement nothing yet.
LEMMA BackgroundForgets ==
  ASSUME EInv, IInv', Background
  PROVE  [Evidence!Next]_Evidence!vars
<1>0. /\ spans \in [Traces -> SUBSET Spans] /\ expiry \in Expiries
      /\ received \in [Traces -> {"absent", "fresh", "old"}]
      /\ Doomed /\ DoomedThere
  BY DEF EInv, IInv, Types, TypeOK, Expiries
<1>1. Pending' = Pending /\ published' = published /\ Offered' = Offered
  BY DEF Background, Age, ExpireSpans, ExpireRows, AbortExpiry, avars, Pending, Offered
<1>2. CASE UNCHANGED avars
  <2>1. spans' = spans /\ Stale' = Stale /\ Assemblies' = Assemblies
    BY <1>2, StaleStays DEF avars
  <2> QED BY <1>1, <2>1 DEF Evidence!vars
<1>3. ASSUME NEW t \in Traces, Age(t) PROVE Evidence!Next
  <2>1. /\ StaleOf(t)' = spans[t]
        /\ \A s \in Traces \ {t} : StaleOf(s)' = StaleOf(s)
    BY <1>0, <1>3 DEF Age, StaleOf
  <2>2. [s \in Traces |-> StaleOf(s)'] = [[s \in Traces |-> StaleOf(s)] EXCEPT ![t] = spans[t]]
    BY <2>1
  <2>3. Stale' = [Stale EXCEPT ![t] = spans[t]]
    BY <2>2, StaleValue
  <2>4. t \in Assemblies /\ Assemblies' = Assemblies /\ spans' = spans
    BY <1>0, <1>3 DEF Age, Assemblies
  <2> QED BY <1>1, <2>3, <2>4 DEF Evidence!Next, Evidence!Age
<1>4. ASSUME ExpireSpans PROVE UNCHANGED Evidence!vars
  <2>1. spans' = spans /\ Assemblies' = Assemblies
    BY <1>4 DEF ExpireSpans, Assemblies
  <2>2. \A t \in Traces : StaleOf(t)' = StaleOf(t)
    BY <1>0, <1>4 DEF ExpireSpans, StaleOf
  <2>3. [t \in Traces |-> StaleOf(t)'] = [t \in Traces |-> StaleOf(t)]
    BY <2>2, Zenon
  <2> QED BY <1>1, <2>1, <2>3, StaleValue DEF Evidence!vars
<1>5. ASSUME ExpireRows PROVE Evidence!Next
  <2> DEFINE T == expiry.due
             gone == {t \in Traces : Expired(t)}
  <2>1. T \subseteq Assemblies /\ gone \subseteq T /\ T \in SUBSET Traces /\ gone \in SUBSET Traces
    BY <1>0, <1>5 DEF ExpireRows, Doomed, Assemblies, Expired, Expiries
  <2>2. \A t \in Traces : Stale[t] = StaleOf(t)
    BY StaleValue
  <2>3. \A t \in T : Stale[t] = expiry.doomed[t]
    BY <1>5, <2>1, <2>2 DEF ExpireRows, StaleOf
  <2>4. spans' = [t \in Traces |-> IF t \in T THEN spans[t] \ Stale[t] ELSE spans[t]]
    <3>1. spans' = [t \in Traces |-> spans[t] \ expiry.doomed[t]]
      BY <1>5 DEF ExpireRows
    <3>2. \A t \in Traces : spans[t] \ expiry.doomed[t]
                              = IF t \in T THEN spans[t] \ Stale[t] ELSE spans[t]
      BY <1>0, <1>5, <2>3 DEF ExpireRows, Doomed
    <3> HIDE DEF T
    <3> QED BY <3>1, <3>2
  <2>5. \A t \in gone : spans[t] \subseteq Stale[t]
    BY <1>0, <1>5, <2>3 DEF ExpireRows, Doomed, Expired
  <2>6. \A t \in Traces : StaleOf(t)' = IF t \in T THEN {} ELSE Stale[t]
    BY <1>0, <1>5, <2>2, <2>4 DEF ExpireRows, NoExpiry, StaleOf, Expired, Doomed
  <2>7. Stale' = Evidence!Without(T)
    BY <2>6, StaleValue DEF Evidence!Without
  <2>8. Assemblies' = Assemblies \ gone
    BY <1>0, <1>5 DEF ExpireRows, Assemblies
  <2> HIDE DEF T, gone
  <2> QED BY <1>1, <2>1, <2>4, <2>5, <2>7, <2>8 DEF Evidence!Next, Evidence!Forget
<1>6. ASSUME AbortExpiry PROVE Evidence!Next
  <2> DEFINE T == {t \in Traces : t \in expiry.due /\ received[t] # "old"}
  <2>1. spans' = spans /\ Assemblies' = Assemblies
    BY <1>6 DEF AbortExpiry, Assemblies
  <2>2. \A t \in Traces : Stale[t] = StaleOf(t)
    BY StaleValue
  <2>3. ASSUME NEW t \in Traces PROVE StaleOf(t)' = IF t \in T THEN {} ELSE Stale[t]
    <3>1. t \in expiry.due /\ received[t] = "old" => expiry.doomed[t] = spans[t]
      BY <1>0, <1>6 DEF AbortExpiry, Doomed, DoomedThere
    <3> QED BY <1>6, <2>2, <3>1 DEF AbortExpiry, NoExpiry, StaleOf
  <2>4. Stale' = Evidence!Without(T)
    BY <2>3, StaleValue DEF Evidence!Without
  <2>5. T \in SUBSET Traces
    OBVIOUS
  <2> HIDE DEF T
  <2> QED BY <1>1, <2>1, <2>4, <2>5 DEF Evidence!Next, Evidence!Spare
<1> QED BY <1>2, <1>3, <1>4, <1>5, <1>6 DEF Background

LEMMA EvidenceNext == EInv /\ IInv' /\ [Next]_vars => [Evidence!Next]_Evidence!vars
<1> SUFFICES ASSUME EInv, IInv', [Next]_vars PROVE [Evidence!Next]_Evidence!vars
  OBVIOUS
<1>1. CASE Background
  BY <1>1, BackgroundForgets
<1>2. ASSUME NEW w \in Writers, Commit(w) PROVE Evidence!Next
  BY <1>2, CommitAccepts
<1>3. ASSUME NEW w \in Writers,
             \/ \E e \in Exports : Receive(w, e)
             \/ Upsert(w) \/ Merge(w) \/ AbortMerge(w)
      PROVE  Evidence!Next
  BY <1>3, RequestsCome DEF Evidence!Next
<1> QED BY <1>1, <1>2, <1>3, PublishPublishes, CrashLoses
       DEF Background, Next, vars, InsertTelemetry, ExpireTelemetry

LEMMA EvidenceInit == Init => Evidence!Init
<1> SUFFICES ASSUME Init PROVE Evidence!Init
  OBVIOUS
<1>1. spans = [t \in Traces |-> {}] /\ published = {} /\ Pending = {} /\ Offered = {}
  BY DEF Init, Pending, Offered, NoJob
<1>2. Assemblies = {} /\ \A t \in Traces : StaleOf(t) = {}
  BY DEF Init, Assemblies, StaleOf, NoExpiry
<1>3. Stale = [t \in Traces |-> {}]
  BY <1>2, StaleValue
<1> QED BY <1>1, <1>2, <1>3 DEF Evidence!Init

\* The receiver with its transactions, locks, deadlocks and expiry implements
\* TraceEvidence: the batch that a request has for a trace joins it whole or not at
\* all, what is published is what a trace held when a batch had joined it, and what
\* is forgotten was a day old, an assembly gone only with its last span.
THEOREM ReceiverImplements == Spec => Implements
<1>1. Init => Evidence!Init
  BY EvidenceInit
<1>2. EInv /\ IInv' /\ [Next]_vars => [Evidence!Next]_Evidence!vars
  BY EvidenceNext
<1> QED BY <1>1, <1>2, AlwaysEInv, AlwaysIInv, PTL DEF Spec, Evidence!Spec, Implements

-----------------------------------------------------------------------------
\* assemble(): a trace with one content per id and no cycle makes a valid run.

Less == OpToRel(<, Nat)

\* Induction over the numbers: every nonempty set of them has a least one.
LEMMA LeastNumber ==
  ASSUME NEW T \in SUBSET Nat, T # {}
  PROVE  \E m \in T : \A k \in T : m <= k
<1>1. IsWellFoundedOn(Less, Nat)
  BY NatLessThanWellFounded DEF Less
<1>2. PICK m \in T : \A k \in T : ~(<<k, m>> \in Less)
  BY <1>1, WFMin
<1>3. ASSUME NEW k \in T PROVE m <= k
  <2>1. <<k, m>> \notin Less /\ k \in Nat /\ m \in Nat
    BY <1>2
  <2>2. <<k, m>> \in Nat \X Nat /\ <<k, m>>[1] = k /\ <<k, m>>[2] = m
    BY <2>1
  <2>3. ~(<<k, m>>[1] < <<k, m>>[2])
    BY <2>1, <2>2, Zenon DEF Less, OpToRel
  <2> QED BY <2>1, <2>2, <2>3
<1> QED BY <1>3

\* A consistent trace is finite, and so are its parts.
LEMMA TraceFinite ==
  ASSUME NEW S \in SUBSET Spans, OneContent(S)
  PROVE  IsFiniteSet(S)
<1> DEFINE f == [s \in S |-> s.id]
<1>1. f \in Injection(S, Ids)
  BY DEF Injection, IsInjective, OneContent, Spans
<1> HIDE DEF f
<1> QED BY <1>1, FS_Injection, TraceConstants

Rank(S, s) == Cardinality({r \in S : r.id < s.id})

\* A finite set with one content per id has an order of its ids.
LEMMA SortedLaws ==
  ASSUME NEW S \in SUBSET Spans, OneContent(S)
  PROVE  /\ Cardinality(S) \in Nat
         /\ Sorted(S) \in [1..Cardinality(S) -> S]
         /\ \A i, j \in 1..Cardinality(S) : i < j => Sorted(S)[i] # Sorted(S)[j]
         /\ \A s \in S : \E i \in 1..Cardinality(S) : Sorted(S)[i] = s
<1> DEFINE n == Cardinality(S)
           Below(s) == {r \in S : r.id < s.id}
<1>f. IsFiniteSet(S) /\ n \in Nat
  BY TraceFinite, FS_CardinalityType
<1>t. \A s \in S : s.id \in Nat
  BY TraceConstants DEF Spans
<1>1. ASSUME NEW s \in S, NEW r \in S, s.id < r.id PROVE Rank(S, s) < Rank(S, r)
  <2>1. Below(s) \in SUBSET Below(r) /\ s \in Below(r) /\ s \notin Below(s)
    BY <1>t, <1>1
  <2>2. IsFiniteSet(Below(r))
    BY <1>f, FS_Subset
  <2> HIDE DEF Below
  <2>3. /\ Cardinality(Below(s)) <= Cardinality(Below(r))
        /\ Cardinality(Below(s)) # Cardinality(Below(r))
        /\ Cardinality(Below(s)) \in Nat /\ Cardinality(Below(r)) \in Nat
    BY <2>1, <2>2, FS_Subset, FS_CardinalityType
  <2> QED BY <2>3 DEF Rank, Below
<1>2. ASSUME NEW s \in S PROVE Rank(S, s) \in 0..(n - 1)
  <2>1. Below(s) \in SUBSET S /\ s \in S /\ s \notin Below(s)
    BY <1>t
  <2> HIDE DEF Below
  <2>2. /\ Cardinality(Below(s)) <= n /\ Cardinality(Below(s)) # n
        /\ Cardinality(Below(s)) \in Nat
    BY <1>f, <2>1, FS_Subset, FS_CardinalityType
  <2> QED BY <1>f, <2>2 DEF Rank, Below
<1> DEFINE g == [s \in S |-> Rank(S, s) + 1]
<1>3. g \in [S -> 1..n] /\ \A s, r \in S : g[s] = g[r] => s = r
  <2>1. \A s \in S : g[s] = Rank(S, s) + 1 /\ g[s] \in 1..n
    BY <1>2, <1>f
  <2>2. ASSUME NEW s \in S, NEW r \in S, g[s] = g[r] PROVE s = r
    <3>1. ~(s.id < r.id) /\ ~(r.id < s.id)
      BY <1>1, <1>2, <2>1, <2>2
    <3>2. s.id = r.id
      BY <1>t, <3>1
    <3> QED BY <3>2 DEF OneContent
  <2> QED BY <2>1, <2>2
<1> HIDE DEF g
<1>4. g \in Injection(S, 1..n)
  BY <1>3 DEF Injection, IsInjective
<1>5. IsFiniteSet(1..n) /\ Cardinality(1..n) = n
  BY <1>f, FS_Interval
<1>6. g \in Surjection(S, 1..n)
  BY <1>4, <1>5, FS_Injection
<1> DEFINE w == [i \in 1..n |-> CHOOSE s \in S : g[s] = i]
<1>7. \A i \in 1..n : w[i] \in S /\ g[w[i]] = i
  BY <1>6 DEF Surjection
<1>8. w \in [1..n -> S]
  BY <1>7
<1> HIDE DEF w
<1>9. ASSUME NEW i \in DOMAIN w, NEW j \in DOMAIN w, i < j PROVE w[i].id <= w[j].id /\ w[i] # w[j]
  <2>1. i \in 1..n /\ j \in 1..n
    BY <1>8
  <2>2. w[i] \in S /\ w[j] \in S /\ g[w[i]] = i /\ g[w[j]] = j
    BY <1>7, <2>1
  <2>3. Rank(S, w[i]) < Rank(S, w[j])
    BY <1>9, <2>1, <2>2, <1>2, <1>f DEF g
  <2>4. ~(w[j].id < w[i].id)
    BY <1>1, <1>2, <2>2, <2>3
  <2> QED BY <1>t, <1>9, <2>1, <2>2, <2>4
<1> DEFINE P(q) == \A i, j \in DOMAIN q : i < j => q[i].id <= q[j].id /\ q[i] # q[j]
           q == Sorted(S)
<1>10. q \in [1..n -> S] /\ P(q)
  <2>1. \E v \in [1..n -> S] : P(v)
    BY <1>8, <1>9
  <2>2. q = CHOOSE v \in [1..n -> S] : P(v)
    BY DEF Sorted
  <2> HIDE DEF q, P
  <2> QED BY <2>1, <2>2
<1>11. \A i, j \in 1..n : i < j => q[i] # q[j]
  BY <1>10
<1> HIDE DEF q, P
<1>12. q \in Injection(1..n, S)
  <2>1. \A i, j \in 1..n : q[i] = q[j] => i = j
    <3> SUFFICES ASSUME NEW i \in 1..n, NEW j \in 1..n, i # j PROVE q[i] # q[j]
      OBVIOUS
    <3>1. i < j \/ j < i
      BY <1>f
    <3> QED BY <1>11, <3>1
  <2> QED BY <1>10, <2>1 DEF Injection, IsInjective
<1>13. q \in Surjection(1..n, S)
  BY <1>f, <1>5, <1>12, FS_Injection
<1> QED BY <1>f, <1>10, <1>11, <1>13 DEF q, Surjection

-----------------------------------------------------------------------------
\* The search of assemble(), unfolded step by step.
QueueIs(S, g, k) ==
  g = [n \in 0..k |-> IF n = 0 THEN Sorted(Roots(S)) ELSE Serve(S, g[n - 1], n)]

LEMMA QueueExists ==
  ASSUME NEW S
  PROVE  \A k \in Nat : \E g : QueueIs(S, g, k)
<1> DEFINE T == {k \in Nat : ~ \E g : QueueIs(S, g, k)}
<1> SUFFICES ASSUME T # {} PROVE FALSE
  OBVIOUS
<1>1. PICK m \in T : \A k \in T : m <= k
  BY LeastNumber
<1>2. m # 0
  <2>1. QueueIs(S, [n \in 0..0 |-> Sorted(Roots(S))], 0)
    BY DEF QueueIs
  <2> QED BY <2>1
<1>3. PICK g : QueueIs(S, g, m - 1)
  BY <1>1, <1>2
<1> DEFINE h == [n \in 0..m |-> IF n = m THEN Serve(S, g[m - 1], m) ELSE g[n]]
<1>4. QueueIs(S, h, m)
  <2>1. m \in Nat /\ m # 0
    BY <1>2
  <2>2. ASSUME NEW n \in 0..m
        PROVE  h[n] = IF n = 0 THEN Sorted(Roots(S)) ELSE Serve(S, h[n - 1], n)
    <3>1. CASE n = m
      BY <3>1, <2>1
    <3>2. CASE n # m
      <4>1. n \in 0..(m - 1) /\ h[n] = g[n] /\ (n # 0 => h[n - 1] = g[n - 1])
        BY <3>2, <2>1
      <4>2. g[n] = IF n = 0 THEN Sorted(Roots(S)) ELSE Serve(S, g[n - 1], n)
        BY <4>1, <1>3 DEF QueueIs
      <4> QED BY <4>1, <4>2
    <3> QED BY <3>1, <3>2
  <2>3. h = [n \in 0..m |-> h[n]]
    OBVIOUS
  <2> HIDE DEF h
  <2> QED BY <2>2, <2>3 DEF QueueIs
<1> QED BY <1>4, <1>1

LEMMA OrderSteps ==
  ASSUME NEW S, Cardinality(S) \in Nat
  PROVE  \E g : QueueIs(S, g, Cardinality(S)) /\ Order(S) = g[Cardinality(S)]
<1> DEFINE queue == CHOOSE g : QueueIs(S, g, Cardinality(S))
<1>1. \E g : QueueIs(S, g, Cardinality(S))
  BY QueueExists
<1>2. QueueIs(S, queue, Cardinality(S))
  BY <1>1, Zenon
<1>3. Order(S) = queue[Cardinality(S)]
  BY Zenon DEF Order, QueueIs
<1> QED BY <1>2, <1>3

\* After n steps: no span twice, every root, the children of the first n, and
\* each span behind its parent.
Found(S, q, n) ==
  /\ q \in Seq(S)
  /\ \A i, j \in 1..Len(q) : q[i] = q[j] => i = j
  /\ \A s \in Roots(S) : \E i \in 1..Len(q) : q[i] = s
  /\ \A i \in 1..Len(q) : i <= n => \A s \in Children(S, q[i]) : \E k \in 1..Len(q) : q[k] = s
  /\ \A i \in 1..Len(q) :
       q[i] \in Roots(S) \/ \E j \in 1..Len(q) : j < i /\ j <= n /\ q[j].id = q[i].parent

\* The parts of a consistent trace.
LEMMA PartSorted ==
  ASSUME NEW S \in SUBSET Spans, OneContent(S), NEW C \in SUBSET S
  PROVE  /\ Sorted(C) \in Seq(C) /\ Len(Sorted(C)) \in Nat
         /\ \A i, j \in 1..Len(Sorted(C)) : Sorted(C)[i] = Sorted(C)[j] => i = j
         /\ \A s \in C : \E i \in 1..Len(Sorted(C)) : Sorted(C)[i] = s
<1>1. C \in SUBSET Spans /\ OneContent(C)
  BY DEF OneContent
<1>2. /\ Cardinality(C) \in Nat
      /\ Sorted(C) \in [1..Cardinality(C) -> C]
      /\ \A i, j \in 1..Cardinality(C) : i < j => Sorted(C)[i] # Sorted(C)[j]
      /\ \A s \in C : \E i \in 1..Cardinality(C) : Sorted(C)[i] = s
  BY <1>1, SortedLaws
<1> DEFINE q == Sorted(C)
           n == Cardinality(C)
<1> HIDE DEF q, n
<1>3. q \in Seq(C) /\ Len(q) = n /\ n \in Nat
  BY <1>2 DEF q, n
<1>4. ASSUME NEW i \in 1..n, NEW j \in 1..n, q[i] = q[j] PROVE i = j
  <2>1. ~(i < j) /\ ~(j < i)
    BY <1>2, <1>4 DEF q, n
  <2> QED BY <1>3, <2>1
<1> QED BY <1>2, <1>3, <1>4 DEF q, n

LEMMA FoundStart ==
  ASSUME NEW S \in SUBSET Spans, OneContent(S)
  PROVE  Found(S, Sorted(Roots(S)), 0)
<1>1. Roots(S) \in SUBSET S
  BY DEF Roots
<1> DEFINE q == Sorted(Roots(S))
<1>2. /\ q \in Seq(Roots(S)) /\ Len(q) \in Nat
      /\ \A i, j \in 1..Len(q) : q[i] = q[j] => i = j
      /\ \A s \in Roots(S) : \E i \in 1..Len(q) : q[i] = s
  BY <1>1, PartSorted
<1> HIDE DEF q
<1>3. q \in Seq(S) /\ \A i \in 1..Len(q) : q[i] \in Roots(S)
  BY <1>1, <1>2
<1>4. \A i \in 1..Len(q) : ~(i <= 0)
  BY <1>2
<1>5. Found(S, q, 0)
  BY <1>2, <1>3, <1>4 DEF Found
<1> QED BY <1>5 DEF q

LEMMA FoundNext ==
  ASSUME NEW S \in SUBSET Spans, OneContent(S), NEW n \in Nat \ {0}, NEW q, Found(S, q, n - 1)
  PROVE  Found(S, Serve(S, q, n), n)
<1>q. q \in Seq(S) /\ Len(q) \in Nat /\ \A i \in 1..Len(q) : q[i] \in S
  BY DEF Found
<1>1. CASE n > Len(q)
  <2>1. Serve(S, q, n) = q
    BY <1>1 DEF Serve
  <2>2. \A i \in 1..Len(q) : i <= n - 1
    BY <1>1, <1>q
  <2>3. \A i, j \in 1..Len(q) : j < i => j <= n
    BY <1>1, <1>q
  <2>4. Found(S, q, n)
    BY <1>q, <2>2, <2>3 DEF Found
  <2> QED BY <2>1, <2>4
<1>2. CASE n <= Len(q)
  <2> DEFINE C == Children(S, q[n])
             c == Sorted(C)
             r == q \o c
             k == Len(q)
  <2>1. Serve(S, q, n) = r
    BY <1>2, <1>q DEF Serve
  <2>2. n \in 1..k /\ q[n] \in S /\ C \in SUBSET S
    BY <1>2, <1>q DEF Children
  <2>3. /\ c \in Seq(C) /\ Len(c) \in Nat
        /\ \A i, j \in 1..Len(c) : c[i] = c[j] => i = j
        /\ \A s \in C : \E i \in 1..Len(c) : c[i] = s
    BY <2>2, PartSorted
  <2>c. \A s \in C : s \in S /\ s.parent = q[n].id
    BY DEF Children
  <2> HIDE DEF c, C
  <2>4. /\ r \in Seq(S) /\ Len(r) = k + Len(c)
        /\ \A i \in 1..k : r[i] = q[i]
        /\ \A i \in 1..Len(c) : r[k + i] = c[i] /\ c[i] \in C
    BY <1>q, <2>2, <2>3
  <2>s. \A i \in 1..Len(r) : i \in 1..k \/ (i - k \in 1..Len(c) /\ i = k + (i - k))
    BY <1>q, <2>3, <2>4
  <2>t. \A i \in 1..k : i \in 1..Len(r)
    BY <1>q, <2>3, <2>4
  <2>u. \A i \in 1..Len(c) : k + i \in 1..Len(r)
    BY <1>q, <2>3, <2>4
  <2> HIDE DEF r, k
  <2>5. ASSUME NEW i \in 1..k, q[i] \in C PROVE FALSE
    <3>1. q[i].parent = q[n].id /\ q[n].id \in IdsOf(S)
      BY <2>2, <2>5, <2>c DEF IdsOf
    <3>2. q[i] \notin Roots(S)
      BY <3>1 DEF Roots
    <3>3. PICK j \in 1..k : j < i /\ j <= n - 1 /\ q[j].id = q[i].parent
      BY <3>2 DEF Found, k
    <3>4. q[j] = q[n]
      BY <1>q, <2>2, <3>1, <3>3 DEF OneContent, k
    <3>5. j = n
      BY <2>2, <3>4 DEF Found, k
    <3> QED BY <3>3, <3>5
  <2>6. ASSUME NEW i \in 1..Len(r), NEW j \in 1..Len(r), r[i] = r[j] PROVE i = j
    <3>1. CASE i \in 1..k /\ j \in 1..k
      BY <2>4, <2>6, <3>1 DEF Found, k
    <3>2. CASE i \in 1..k /\ j - k \in 1..Len(c) /\ j = k + (j - k)
      BY <2>4, <2>5, <2>6, <3>2
    <3>3. CASE j \in 1..k /\ i - k \in 1..Len(c) /\ i = k + (i - k)
      BY <2>4, <2>5, <2>6, <3>3
    <3>4. CASE i - k \in 1..Len(c) /\ i = k + (i - k) /\ j - k \in 1..Len(c) /\ j = k + (j - k)
      <4>1. c[i - k] = c[j - k]
        BY <2>4, <2>6, <3>4
      <4>2. i - k = j - k
        BY <2>3, <3>4, <4>1
      <4> QED BY <3>4, <4>2
    <3> QED BY <2>s, <3>1, <3>2, <3>3, <3>4
  <2>7. \A s \in Roots(S) : \E i \in 1..Len(r) : r[i] = s
    BY <2>4, <2>t DEF Found, k
  <2>8. ASSUME NEW i \in 1..Len(r), i <= n, NEW s \in Children(S, r[i])
        PROVE  \E j \in 1..Len(r) : r[j] = s
    <3>1. i \in 1..k /\ r[i] = q[i]
      BY <2>2, <2>4, <2>8, <1>q DEF k
    <3>2. CASE i = n
      <4>1. s \in C
        BY <2>8, <3>1, <3>2 DEF C
      <4>2. PICK j \in 1..Len(c) : c[j] = s
        BY <2>3, <4>1
      <4> QED BY <2>4, <2>u, <4>2
    <3>3. CASE i # n
      <4>1. i <= n - 1
        BY <2>8, <3>1, <3>3, <1>q DEF k
      <4>2. \E j \in 1..k : q[j] = s
        BY <2>8, <3>1, <4>1 DEF Found, k
      <4> QED BY <2>4, <2>t, <4>2
    <3> QED BY <3>2, <3>3
  <2>9. ASSUME NEW i \in 1..Len(r)
        PROVE  r[i] \in Roots(S) \/ \E j \in 1..Len(r) : j < i /\ j <= n /\ r[j].id = r[i].parent
    <3>1. CASE i \in 1..k
      <4>1. q[i] \in Roots(S) \/ \E j \in 1..k : j < i /\ j <= n - 1 /\ q[j].id = q[i].parent
        BY <3>1 DEF Found, k
      <4>2. \A j \in 1..k : j <= n - 1 => j <= n
        BY <1>q DEF k
      <4> QED BY <3>1, <4>1, <4>2, <2>4, <2>t
    <3>2. CASE i - k \in 1..Len(c) /\ i = k + (i - k)
      <4>1. r[i] \in C
        BY <2>4, <3>2
      <4>2. n < i /\ n \in 1..Len(r) /\ r[n] = q[n]
        BY <2>2, <2>4, <2>t, <3>2, <1>q DEF k
      <4>3. r[n].id = r[i].parent /\ n <= n
        BY <4>1, <4>2, <2>c
      <4> QED BY <4>2, <4>3
    <3> QED BY <2>s, <3>1, <3>2
  <2>10. Found(S, r, n)
    BY <2>4, <2>6, <2>7, <2>8, <2>9 DEF Found
  <2> QED BY <2>1, <2>10
<1> QED BY <1>1, <1>2, <1>q

\* The search ends with every span of a consistent trace.
LEMMA OrderFound ==
  ASSUME NEW S \in SUBSET Spans, OneContent(S)
  PROVE  Cardinality(S) \in Nat /\ Found(S, Order(S), Cardinality(S))
<1> DEFINE N == Cardinality(S)
<1>1. N \in Nat
  BY TraceFinite, FS_CardinalityType
<1>2. PICK g : QueueIs(S, g, N) /\ Order(S) = g[N]
  BY <1>1, OrderSteps
<1> DEFINE T == {k \in Nat : k <= N /\ ~Found(S, g[k], k)}
<1> HIDE DEF N
<1>3. T = {}
  <2> SUFFICES ASSUME T # {} PROVE FALSE
    OBVIOUS
  <2>1. PICK m \in T : \A k \in T : m <= k
    <3>1. T \in SUBSET Nat
      OBVIOUS
    <3> HIDE DEF T
    <3> QED BY <3>1, LeastNumber
  <2>2. m \in 0..N /\ m \in Nat
    BY <1>1
  <2>3. g[m] = IF m = 0 THEN Sorted(Roots(S)) ELSE Serve(S, g[m - 1], m)
    BY <1>2, <2>2 DEF QueueIs
  <2>4. m # 0
    BY <2>3, FoundStart
  <2>5. m - 1 \in Nat /\ m - 1 <= N /\ ~(m <= m - 1)
    BY <1>1, <2>2, <2>4
  <2>6. Found(S, g[m - 1], m - 1)
    BY <2>1, <2>5
  <2>7. Found(S, g[m], m)
    BY <2>2, <2>3, <2>4, <2>6, FoundNext
  <2> QED BY <2>7
<1> QED BY <1>1, <1>2, <1>3 DEF N

\* A consistent trace assembles: all its spans, each once and behind its parent.
LEMMA ConsistentAssembles ==
  ASSUME NEW S \in SUBSET Spans, OneContent(S), Acyclic(S)
  PROVE  Assembles(S)
<1> DEFINE N == Cardinality(S)
           q == Order(S)
           k == Len(q)
<1>1. N \in Nat /\ Found(S, q, N)
  BY OrderFound
<1>f. IsFiniteSet(S)
  BY TraceFinite
<1> HIDE DEF q
<1>2. q \in Seq(S) /\ k \in Nat /\ q \in [1..k -> S] /\ \A i \in 1..k : q[i] \in S
  BY <1>1 DEF Found
<1>3. q \in Injection(1..k, S)
  BY <1>1, <1>2 DEF Injection, IsInjective, Found
<1>4. IsFiniteSet(1..k) /\ Cardinality(1..k) = k
  BY <1>2, FS_Interval
<1>5. k <= N
  BY <1>f, <1>3, <1>4, FS_Injection
<1>6. ASSUME NEW s \in S PROVE \E i \in 1..k : q[i] = s
  <2> DEFINE C == {r \in S : \A i \in 1..k : q[i] # r}
  <2>1. SUFFICES ASSUME C # {} PROVE FALSE
    OBVIOUS
  <2>2. C \in SUBSET S
    OBVIOUS
  <2>3. PICK r \in C : \A p \in C : p.id # r.parent
    <3> HIDE DEF C
    <3> QED BY <2>1, <2>2 DEF Acyclic
  <2>4. r \in S /\ r \notin Roots(S)
    BY <1>1 DEF Found
  <2>5. PICK p \in S : p.id = r.parent
    BY <2>4 DEF Roots, IdsOf
  <2>6. PICK i \in 1..k : q[i] = p
    BY <2>3, <2>5
  <2>7. r \in Children(S, q[i])
    BY <2>4, <2>5, <2>6 DEF Children
  <2>8. i <= N
    BY <1>1, <1>2, <1>5
  <2>9. \E j \in 1..k : q[j] = r
    BY <1>1, <2>7, <2>8 DEF Found
  <2> QED BY <2>9
<1>7. k = N
  <2>1. q \in Surjection(1..k, S)
    BY <1>2, <1>6 DEF Surjection
  <2> QED BY <1>f, <1>3, <1>4, <2>1, FS_Injection
<1> DEFINE run == Assemble(S)
           e == run.events
<1>8. /\ e = [i \in 1..k |->
              [id |-> q[i].id,
               parent |-> IF q[i].parent \in IdsOf(S) THEN q[i].parent ELSE None,
               external |-> IF q[i].parent \in IdsOf(S) THEN None ELSE q[i].parent]]
  BY DEF Assemble, q
<1>9. Len(e) = k /\ DOMAIN e = 1..k
  BY <1>2, <1>8
<1>10. \A i \in 1..k : /\ e[i].id = q[i].id
                        /\ e[i].parent = IF q[i].parent \in IdsOf(S) THEN q[i].parent ELSE None
  BY <1>8
<1> HIDE DEF e
<1>11. ASSUME NEW i \in 1..k
       PROVE  LET before == {e[j].id : j \in 1..(i - 1)}
              IN  /\ e[i].id \notin before
                  /\ e[i].parent \in before \union {None}
  <2>1. \A j \in 1..(i - 1) : j \in 1..k /\ j # i
    BY <1>2
  <2>2. ASSUME NEW j \in 1..(i - 1), e[j].id = e[i].id PROVE FALSE
    <3>1. q[j].id = q[i].id /\ q[i] \in S /\ q[j] \in S
      BY <1>2, <1>10, <2>1, <2>2
    <3>2. q[j] = q[i]
      BY <3>1 DEF OneContent
    <3> QED BY <1>1, <2>1, <3>2 DEF Found
  <2>3. CASE q[i] \in Roots(S)
    BY <1>10, <2>2, <2>3 DEF Roots
  <2>4. CASE q[i] \notin Roots(S)
    <3>1. PICK j \in 1..k : j < i /\ q[j].id = q[i].parent
      BY <1>1, <2>4 DEF Found
    <3>2. j \in 1..(i - 1) /\ e[j].id = q[i].parent
      BY <1>2, <1>10, <3>1
    <3>3. e[i].parent \in {q[i].parent, None}
      BY <1>10
    <3> QED BY <2>2, <3>2, <3>3
  <2> QED BY <2>3, <2>4
<1>12. Valid(run)
  BY <1>9, <1>11 DEF Valid, e
<1> QED BY <1>7, <1>9, <1>12 DEF Assembles, e, run

-----------------------------------------------------------------------------
\* What the database holds, and what a handler took from it, is consistent.
Consistent(S) == OneContent(S) /\ Acyclic(S)
Sound ==
  /\ \A t \in Traces : Consistent(spans[t])
  /\ \A w \in Writers : job[w].pc = "committed" => Consistent(job[w].seen)

\* A part of a consistent trace is consistent.
LEMMA PartConsistent ==
  ASSUME NEW S, Consistent(S), NEW C \in SUBSET S
  PROVE  Consistent(C)
<1>1. OneContent(C)
  BY DEF Consistent, OneContent
<1>2. \A D \in SUBSET C : D \in SUBSET S
  OBVIOUS
<1>3. Acyclic(C)
  BY <1>2 DEF Consistent, Acyclic
<1> QED BY <1>1, <1>3 DEF Consistent

\* Every step of a handler but its commit.
BesideCommit(w) ==
  \/ \E e \in Exports : Receive(w, e)
  \/ Upsert(w) \/ Merge(w) \/ Publish(w) \/ AbortMerge(w) \/ Crash(w)

LEMMA NotCommitted ==
  ASSUME Types, NEW w \in Writers, BesideCommit(w)
  PROVE  /\ spans' = spans /\ job'[w].pc # "committed"
         /\ \A v \in Writers \ {w} : job'[v] = job[v]
<1>0. job \in [Writers -> Jobs] /\ job[w] \in Jobs
  BY DEF Types, TypeOK, Jobs
<1>1. ASSUME NEW e \in Exports, Receive(w, e)
      PROVE  job'[w].pc # "committed" /\ \A v \in Writers \ {w} : job'[v] = job[v]
  BY <1>0, <1>1 DEF Receive, Jobs
<1>2. CASE Upsert(w)
  BY <1>0, <1>2 DEF Upsert, NoJob, Jobs
<1>3. CASE Merge(w)
  BY <1>0, <1>3 DEF Merge, NoJob, Jobs
<1>4. CASE Publish(w)
  <2>1. CASE Assembles(Content(w))
    BY <1>0, <1>4, <2>1 DEF Publish, NoJob
  <2>2. CASE ~Assembles(Content(w))
    BY <1>0, <1>4, <2>2 DEF Publish, NoJob
  <2> QED BY <2>1, <2>2
<1>5. CASE AbortMerge(w) \/ Crash(w)
  BY <1>0, <1>5 DEF AbortMerge, Crash, NoJob
<1>6. spans' = spans
  BY DEF BesideCommit, Receive, Upsert, Merge, Publish, AbortMerge, Crash
<1> QED BY <1>1, <1>2, <1>3, <1>4, <1>5, <1>6 DEF BesideCommit

\* What a commit adds is what its merge read.
LEMMA CommitSees ==
  ASSUME IInv, NEW w \in Writers, Commit(w)
  PROVE  LET t == job[w].trace
         IN  /\ t \in Traces
             /\ spans'[t] = job[w].seen /\ Consistent(job[w].seen)
             /\ \A u \in Traces \ {t} : spans'[u] = spans[u]
             /\ job'[w].pc = "committed" /\ job'[w].trace = t /\ job'[w].seen = job[w].seen
             /\ \A v \in Writers \ {w} : job'[v] = job[v]
             /\ owed' = owed /\ published' = published
<1> DEFINE t == job[w].trace
<1>0. job \in [Writers -> Jobs] /\ spans \in [Traces -> SUBSET Spans] /\ t \in Traces
  BY DEF IInv, Types, TypeOK, TraceKnown, Jobs, Commit
<1>1. job[w].seen = spans[t] \union job[w].batch[t] /\ Mergeable(job[w].seen)
  BY DEF Commit, IInv, SeenAll
<1>2. Consistent(job[w].seen)
  BY <1>1 DEF Mergeable, Consistent
<1> QED BY <1>0, <1>1, <1>2 DEF Commit, Joined, Jobs

LEMMA SoundNext == IInv /\ Sound /\ [Next]_vars => Sound'
<1> SUFFICES ASSUME IInv, Sound, [Next]_vars PROVE Sound'
  OBVIOUS
<1>1. ASSUME NEW w \in Writers, BesideCommit(w) PROVE Sound'
  <2>1. /\ spans' = spans /\ job'[w].pc # "committed"
        /\ \A v \in Writers \ {w} : job'[v] = job[v]
    BY <1>1, NotCommitted DEF IInv
  <2> QED BY <2>1 DEF Sound, Consistent, OneContent, Acyclic
<1>2. ASSUME NEW w \in Writers, Commit(w) PROVE Sound'
  <2>1. /\ \A u \in Traces : Consistent(spans'[u])
        /\ \A v \in Writers : job'[v].pc = "committed" => Consistent(job'[v].seen)
    BY <1>2, CommitSees DEF Sound
  <2> QED BY <2>1 DEF Sound, Consistent, OneContent, Acyclic
<1>3. CASE Background
  <2>1. job' = job
    BY <1>3 DEF Background, Age, ExpireSpans, ExpireRows, AbortExpiry, avars
  <2>2. ASSUME NEW t \in Traces PROVE Consistent(spans'[t])
    <3>1. spans'[t] \in SUBSET spans[t]
      BY <1>3 DEF Background, Age, ExpireSpans, ExpireRows, AbortExpiry, avars
    <3> QED BY <3>1, PartConsistent DEF Sound
  <2> QED BY <2>1, <2>2 DEF Sound, Consistent, OneContent, Acyclic
<1> QED BY <1>1, <1>2, <1>3
       DEF Background, BesideCommit, Next, vars, InsertTelemetry, ExpireTelemetry

LEMMA SoundInit == Init => Sound
  BY DEF Init, NoJob, Sound, Consistent, OneContent, Acyclic

\* NoPoisonedTrace: whatever batches were merged, in whatever order, and
\* whatever the expiry took, the spans of every trace make a valid run.
THEOREM TracesAssemble == Spec => []NoPoisonedTrace
<1>1. IInv /\ Sound => NoPoisonedTrace
  BY ConsistentAssembles DEF IInv, Types, TypeOK, Sound, Consistent, NoPoisonedTrace
<1> QED BY <1>1, IInvInit, Inductive, SoundInit, SoundNext, PTL DEF Spec

-----------------------------------------------------------------------------
\* What is stored is published, is about to be, or is owed.
Covered ==
  \A t \in Traces :
    \/ spans[t] = {} \/ t \in owed
    \/ \E w \in Writers :
         job[w].pc = "committed" /\ job[w].trace = t /\ spans[t] \subseteq job[w].seen
    \/ \E p \in published : p[1] = t /\ spans[t] \subseteq p[2]

\* A run that a handler publishes has all it read: the assembly cannot fail.
LEMMA PublishAll ==
  ASSUME IInv, Sound, NEW w \in Writers, Publish(w)
  PROVE  /\ published' = published \union {<<job[w].trace, job[w].seen>>}
         /\ owed' = IF spans[job[w].trace] \subseteq job[w].seen
                     THEN owed \ {job[w].trace} ELSE owed
<1>1. job[w].seen \in SUBSET Spans
  BY DEF IInv, Types, TypeOK
<1>2. Consistent(job[w].seen)
  BY DEF Publish, Sound
<1>3. Assembles(Content(w))
  BY <1>1, <1>2, ConsistentAssembles DEF Consistent, Content
<1> QED BY <1>3 DEF Publish, Content

LEMMA CoveredNext == IInv /\ Sound /\ Covered /\ [Next]_vars => Covered'
<1> SUFFICES ASSUME IInv, Sound, Covered, [Next]_vars, NEW t \in Traces
             PROVE  \/ spans'[t] = {} \/ t \in owed'
                    \/ \E w \in Writers : job'[w].pc = "committed" /\ job'[w].trace = t
                                           /\ spans'[t] \subseteq job'[w].seen
                    \/ \E p \in published' : p[1] = t /\ spans'[t] \subseteq p[2]
  BY DEF Covered
<1>0. \/ spans[t] = {} \/ t \in owed
      \/ \E w \in Writers :
           job[w].pc = "committed" /\ job[w].trace = t /\ spans[t] \subseteq job[w].seen
      \/ \E p \in published : p[1] = t /\ spans[t] \subseteq p[2]
  BY DEF Covered
<1>2. ASSUME NEW w \in Writers, Commit(w)
      PROVE  \/ spans'[t] = {} \/ t \in owed'
             \/ \E v \in Writers : job'[v].pc = "committed" /\ job'[v].trace = t
                                    /\ spans'[t] \subseteq job'[v].seen
             \/ \E p \in published' : p[1] = t /\ spans'[t] \subseteq p[2]
  <2>1. CASE t = job[w].trace
    BY <1>2, <2>1, CommitSees
  <2>2. CASE t # job[w].trace
    <3>1. /\ spans'[t] = spans[t] /\ owed' = owed /\ published' = published
          /\ \A v \in Writers \ {w} : job'[v] = job[v]
      BY <1>2, <2>2, CommitSees
    <3>2. job[w].pc # "committed"
      BY <1>2 DEF Commit
    <3> QED BY <1>0, <3>1, <3>2
  <2> QED BY <2>1, <2>2
<1>3. ASSUME NEW w \in Writers, BesideCommit(w)
      PROVE  \/ spans'[t] = {} \/ t \in owed'
             \/ \E v \in Writers : job'[v].pc = "committed" /\ job'[v].trace = t
                                    /\ spans'[t] \subseteq job'[v].seen
             \/ \E p \in published' : p[1] = t /\ spans'[t] \subseteq p[2]
  <2>1. spans' = spans /\ \A v \in Writers \ {w} : job'[v] = job[v]
    BY <1>3, NotCommitted DEF IInv
  <2>2. CASE Publish(w)
    <3>1. /\ published' = published \union {<<job[w].trace, job[w].seen>>}
          /\ owed' = IF spans[job[w].trace] \subseteq job[w].seen
                      THEN owed \ {job[w].trace} ELSE owed
      BY <2>2, PublishAll
    <3>2. CASE t = job[w].trace /\ spans[t] \subseteq job[w].seen
      <4>1. <<t, job[w].seen>> \in published'
        BY <3>1, <3>2
      <4> QED BY <2>1, <3>2, <4>1
    <3>3. CASE ~(t = job[w].trace /\ spans[t] \subseteq job[w].seen)
      <4>1. t \in owed => t \in owed'
        BY <3>1, <3>3
      <4>2. published \subseteq published'
        BY <3>1
      <4> QED BY <1>0, <2>1, <3>3, <4>1, <4>2
    <3> QED BY <3>2, <3>3
  <2>3. CASE Crash(w)
    <3>1. /\ published' = published
          /\ owed' = IF job[w].pc = "committed" THEN owed \union {job[w].trace} ELSE owed
      BY <2>3 DEF Crash
    <3> QED BY <1>0, <2>1, <3>1
  <2>4. CASE ~Publish(w) /\ ~Crash(w)
    <3>1. owed' = owed /\ published' = published /\ job[w].pc # "committed"
      BY <1>3, <2>4 DEF BesideCommit, Receive, Upsert, Merge, AbortMerge, Deadlocked
    <3> QED BY <1>0, <2>1, <3>1
  <2> QED BY <2>2, <2>3, <2>4
<1>4. CASE Background
  <2>1. /\ job' = job /\ owed' = owed /\ published' = published
        /\ spans'[t] \subseteq spans[t]
    BY <1>4 DEF Background, Age, ExpireSpans, ExpireRows, AbortExpiry, avars
  <2> QED BY <1>0, <2>1
<1> QED BY <1>2, <1>3, <1>4
       DEF Background, BesideCommit, Next, vars, InsertTelemetry, ExpireTelemetry

\* StoredIsPublished: when no handler is between its commit and its insert, and
\* none died there, some published run has all a trace holds.
THEOREM TracesPublished == Spec => []StoredIsPublished
<1>1. Init => Covered
  BY DEF Init, Covered
<1>2. IInv /\ Sound /\ Covered => StoredIsPublished
  BY DEF Covered, StoredIsPublished
<1> QED BY <1>1, <1>2, IInvInit, Inductive, SoundInit, SoundNext, CoveredNext, PTL DEF Spec

-----------------------------------------------------------------------------
\* How often telemetry is stored.
Places(e, c) == {i \in DOMAIN e : e[i] = c}
Rows(c) == {k \in telemetry : k[1] = c}
Occurrences(e, i) == {j \in 1..(i - 1) : e[j] = e[i]}

\* The i-th record of an export: as many equal ones before it as its row says.
LEMMA OccurrenceLaws ==
  ASSUME NEW e \in TelemetryExports
  PROVE  /\ DOMAIN e = 1..Len(e) /\ Len(e) \in Nat /\ IsFiniteSet(DOMAIN e)
         /\ \A i \in DOMAIN e :
              /\ Occurrence(e, i) \in Nat
              /\ Occurrence(e, i) < Cardinality(Places(e, e[i]))
         /\ \A i, j \in DOMAIN e : e[i] = e[j] /\ i < j => Occurrence(e, i) < Occurrence(e, j)
<1>1. e \in Seq(ToSet(e))
  BY TraceConstants
<1>2. DOMAIN e = 1..Len(e) /\ Len(e) \in Nat
  BY <1>1
<1>3. IsFiniteSet(DOMAIN e)
  BY <1>2, FS_Interval
<1>4. ASSUME NEW i \in DOMAIN e
      PROVE  /\ Occurrences(e, i) \in SUBSET DOMAIN e /\ IsFiniteSet(Occurrences(e, i))
             /\ Occurrence(e, i) \in Nat /\ Occurrence(e, i) = Cardinality(Occurrences(e, i))
  <2>1. Occurrences(e, i) \in SUBSET DOMAIN e
    BY <1>2 DEF Occurrences
  <2>2. IsFiniteSet(Occurrences(e, i))
    BY <1>3, <2>1, FS_Subset
  <2> QED BY <2>1, <2>2, FS_CardinalityType DEF Occurrence, Occurrences
<1>5. ASSUME NEW T, IsFiniteSet(T), NEW S \in SUBSET T, NEW x \in T, x \notin S
      PROVE  Cardinality(S) < Cardinality(T)
  BY <1>5, FS_Subset, FS_CardinalityType
<1>6. ASSUME NEW i \in DOMAIN e PROVE Occurrence(e, i) < Cardinality(Places(e, e[i]))
  <2>1. Places(e, e[i]) \in SUBSET DOMAIN e /\ i \in Places(e, e[i])
    BY DEF Places
  <2>2. IsFiniteSet(Places(e, e[i]))
    BY <1>3, <2>1, FS_Subset
  <2>3. Occurrences(e, i) \in SUBSET Places(e, e[i]) /\ i \notin Occurrences(e, i)
    BY <1>2 DEF Places, Occurrences
  <2> QED BY <1>4, <1>5, <2>1, <2>2, <2>3
<1>7. ASSUME NEW i \in DOMAIN e, NEW j \in DOMAIN e, e[i] = e[j], i < j
      PROVE  Occurrence(e, i) < Occurrence(e, j)
  <2>1. /\ Occurrences(e, i) \in SUBSET Occurrences(e, j)
        /\ i \in Occurrences(e, j) /\ i \notin Occurrences(e, i)
    BY <1>2, <1>7 DEF Occurrences
  <2> QED BY <1>4, <1>5, <2>1
<1> QED BY <1>2, <1>3, <1>4, <1>6, <1>7

\* Every export answered since the last expiry has all its rows, and every row
\* is of some export.
TelemetryInv ==
  /\ delivered \subseteq TelemetryExports /\ IsFiniteSet(telemetry)
  /\ \A e \in delivered : Keys(e) \subseteq telemetry
  /\ \A k \in telemetry : \E e \in TelemetryExports : k \in Keys(e)

LEMMA TelemetryNext == TelemetryInv /\ [Next]_vars => TelemetryInv'
<1> SUFFICES ASSUME TelemetryInv, [Next]_vars PROVE TelemetryInv'
  OBVIOUS
<1>1. ASSUME NEW e \in TelemetryExports, InsertTelemetry(e) PROVE TelemetryInv'
  <2> DEFINE f == [i \in DOMAIN e |-> <<e[i], Occurrence(e, i)>>]
  <2>1. f \in Surjection(DOMAIN e, Keys(e))
    BY DEF Surjection, Keys
  <2> HIDE DEF f
  <2>2. IsFiniteSet(Keys(e))
    BY <2>1, OccurrenceLaws, FS_Surjection
  <2>3. IsFiniteSet(telemetry \union Keys(e))
    BY <2>2, FS_Union DEF TelemetryInv
  <2>4. telemetry' = telemetry \union Keys(e) /\ delivered' = delivered \union {e}
    BY <1>1 DEF InsertTelemetry
  <2>5. IsFiniteSet(telemetry')
    BY <2>3, <2>4, Zenon
  <2>6. \A d \in delivered' : Keys(d) \subseteq telemetry'
    BY <2>4 DEF TelemetryInv
  <2>7. \A k \in telemetry' : \E d \in TelemetryExports : k \in Keys(d)
    BY <2>4 DEF TelemetryInv
  <2>8. delivered' \subseteq TelemetryExports
    BY <2>4 DEF TelemetryInv
  <2> QED BY <2>5, <2>6, <2>7, <2>8 DEF TelemetryInv, Keys, Occurrence
<1>2. CASE ExpireTelemetry
  <2>1. telemetry' \in SUBSET telemetry /\ delivered' = {}
    BY <1>2 DEF ExpireTelemetry
  <2>2. IsFiniteSet(telemetry')
    BY <2>1, FS_Subset DEF TelemetryInv
  <2> QED BY <2>1, <2>2 DEF TelemetryInv, Keys, Occurrence
<1>3. CASE UNCHANGED tvars
  BY <1>3 DEF tvars, TelemetryInv, Keys, Occurrence
<1> QED BY <1>1, <1>2, <1>3
       DEF Next, vars, Receive, Upsert, Merge, Commit, Publish, AbortMerge, Crash, Age,
           ExpireSpans, ExpireRows, AbortExpiry

\* An export sent once, or again, is all there.
LEMMA AllStored ==
  ASSUME TelemetryInv, NEW e \in delivered, NEW c
  PROVE  Cardinality(Places(e, c)) <= Cardinality(Rows(c))
<1> DEFINE f == [i \in Places(e, c) |-> <<e[i], Occurrence(e, i)>>]
<1>0. e \in TelemetryExports
  BY DEF TelemetryInv
<1>1. \A i \in Places(e, c) : i \in DOMAIN e /\ e[i] = c
  BY DEF Places
<1>2. \A i \in Places(e, c) : <<e[i], Occurrence(e, i)>> \in Rows(c)
  BY <1>1 DEF Rows, TelemetryInv, Keys
<1>3. ASSUME NEW i \in Places(e, c), NEW j \in Places(e, c), f[i] = f[j] PROVE i = j
  <2>1. Occurrence(e, i) = Occurrence(e, j) /\ e[i] = e[j] /\ i \in DOMAIN e /\ j \in DOMAIN e
    BY <1>1, <1>3
  <2>2. ~(i < j) /\ ~(j < i)
    BY <1>0, <2>1, OccurrenceLaws
  <2>3. i \in Nat /\ j \in Nat
    BY <1>0, <2>1, OccurrenceLaws
  <2> QED BY <2>2, <2>3
<1>4. f \in Injection(Places(e, c), Rows(c))
  BY <1>2, <1>3 DEF Injection, IsInjective
<1>5. IsFiniteSet(Rows(c))
  <2>1. Rows(c) \in SUBSET telemetry
    BY DEF Rows
  <2> QED BY <2>1, FS_Subset DEF TelemetryInv
<1> HIDE DEF f
<1> QED BY <1>4, <1>5, FS_Injection

\* No content is stored more often than some export has it.
LEMMA NoMoreStored ==
  ASSUME TelemetryInv, NEW c, \E e \in TelemetryExports : c \in ToSet(e)
  PROVE  \E e \in TelemetryExports : Cardinality(Rows(c)) <= Cardinality(Places(e, c))
<1> DEFINE n == Cardinality(Rows(c))
<1>1. IsFiniteSet(Rows(c)) /\ n \in Nat
  <2>1. Rows(c) \in SUBSET telemetry
    BY DEF Rows
  <2> QED BY <2>1, FS_Subset, FS_CardinalityType DEF TelemetryInv
<1>2. ASSUME NEW k \in Rows(c)
      PROVE  \E e \in TelemetryExports : \E i \in DOMAIN e : e[i] = c /\ k = <<c, Occurrence(e, i)>>
  <2>1. PICK e \in TelemetryExports : k \in Keys(e)
    BY DEF Rows, TelemetryInv
  <2>2. PICK i \in DOMAIN e : k = <<e[i], Occurrence(e, i)>>
    BY <2>1 DEF Keys
  <2> QED BY <2>2 DEF Rows
<1>3. \A k \in Rows(c) : k = <<c, k[2]>> /\ k[2] \in Nat
  <2> SUFFICES ASSUME NEW k \in Rows(c) PROVE k = <<c, k[2]>> /\ k[2] \in Nat
    OBVIOUS
  <2>1. PICK e \in TelemetryExports : \E i \in DOMAIN e : e[i] = c /\ k = <<c, Occurrence(e, i)>>
    BY <1>2
  <2>2. PICK i \in DOMAIN e : e[i] = c /\ k = <<c, Occurrence(e, i)>>
    BY <2>1
  <2> QED BY <2>2, OccurrenceLaws
<1>4. CASE n = 0
  <2>1. PICK e \in TelemetryExports : c \in ToSet(e)
    OBVIOUS
  <2>2. Places(e, c) \in SUBSET DOMAIN e
    BY DEF Places
  <2>3. Cardinality(Places(e, c)) \in Nat
    BY <2>2, OccurrenceLaws, FS_Subset, FS_CardinalityType
  <2> QED BY <1>4, <2>3
<1>5. CASE n # 0
  <2>1. \E k \in Rows(c) : k[2] >= n - 1
    <3> SUFFICES ASSUME \A k \in Rows(c) : ~(k[2] >= n - 1) PROVE FALSE
      OBVIOUS
    <3> DEFINE g == [k \in Rows(c) |-> k[2]]
    <3> HIDE DEF n
    <3>1. \A k \in Rows(c) : k[2] \in 0..(n - 2)
      BY <1>1, <1>3
    <3>2. g \in Injection(Rows(c), 0..(n - 2))
      BY <1>3, <3>1 DEF Injection, IsInjective
    <3>3. IsFiniteSet(0..(n - 2)) /\ Cardinality(0..(n - 2)) = n - 1
      <4>1. 0 \in Int /\ n - 2 \in Int
        BY <1>1
      <4>2. /\ IsFiniteSet(0..(n - 2))
            /\ Cardinality(0..(n - 2)) = IF 0 > n - 2 THEN 0 ELSE n - 2 - 0 + 1
        BY <4>1, FS_Interval
      <4> QED BY <1>1, <1>5, <4>2
    <3> HIDE DEF g
    <3>4. Cardinality(Rows(c)) <= n - 1
      BY <3>2, <3>3, FS_Injection
    <3> QED BY <1>1, <3>4 DEF n
  <2>2. PICK k \in Rows(c) : k[2] >= n - 1
    BY <2>1
  <2>3. PICK e \in TelemetryExports : \E i \in DOMAIN e : e[i] = c /\ k = <<c, Occurrence(e, i)>>
    BY <1>2
  <2>4. PICK i \in DOMAIN e : e[i] = c /\ k = <<c, Occurrence(e, i)>>
    BY <2>3
  <2>5. k[2] = Occurrence(e, i)
    BY <2>4
  <2>6. Occurrence(e, i) \in Nat /\ Occurrence(e, i) < Cardinality(Places(e, c))
    BY <2>4, OccurrenceLaws
  <2>7. Cardinality(Places(e, c)) \in Nat
    <3>1. Places(e, c) \in SUBSET DOMAIN e
      BY DEF Places
    <3> QED BY <3>1, OccurrenceLaws, FS_Subset, FS_CardinalityType
  <2> HIDE DEF n
  <2>8. n <= Cardinality(Places(e, c))
    BY <1>1, <2>2, <2>5, <2>6, <2>7
  <2> QED BY <2>8 DEF n
<1> QED BY <1>4, <1>5

\* TelemetryCountedOnce: telemetry sent any number of times is stored as often
\* as an export has it, never less for one that was answered and never more.
THEOREM TelemetryOnce == Spec => []TelemetryCountedOnce
<1>1. Init => TelemetryInv
  BY FS_EmptySet DEF Init, TelemetryInv
<1>2. TelemetryInv => TelemetryCountedOnce
  <2> SUFFICES ASSUME TelemetryInv, NEW c \in UNION {ToSet(e) : e \in TelemetryExports}
               PROVE  /\ \A e \in delivered : Cardinality(Places(e, c)) <= Cardinality(Rows(c))
                      /\ \E e \in TelemetryExports :
                           Cardinality(Rows(c)) <= Cardinality(Places(e, c))
    BY DEF TelemetryCountedOnce, Places, Rows
  <2>1. \E e \in TelemetryExports : c \in ToSet(e)
    OBVIOUS
  <2> QED BY <2>1, AllStored, NoMoreStored
<1> QED BY <1>1, <1>2, TelemetryNext, PTL DEF Spec
==============================================================================
