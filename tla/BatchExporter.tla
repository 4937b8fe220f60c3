--------------------------- MODULE BatchExporter ---------------------------
(***************************************************************************)
(* The BatchExporter of the Node package (exporter.ts) with a durable      *)
(* spool directory: export() calls accepted one after the other, the       *)
(* bounded queue, flush() and its drain, the recovery of spooled snapshots,*)
(* and processes that are killed or lose power.  JavaScript runs one task  *)
(* at a time, so an action is what happens between two awaits.             *)
(*                                                                         *)
(* A run stands for its redacted snapshot: exports of one run carry the    *)
(* same content.  Disk operations succeed but for the unlink of a missing  *)
(* file, every spooled file is valid, and the server stores a batch as a   *)
(* whole.  queuedBytes is the size of the queue; reservedBytes and the     *)
(* temporary file of an export in progress are left out, since only the    *)
(* oldest call gets that far.                                              *)
(***************************************************************************)
EXTENDS Sequences, Sums

CONSTANTS
  Runs,
  NoRun,        \* recover() awaits no file
  Size,         \* bytes of a serialized snapshot
  BatchSize, MaxQueueSize, MaxQueueBytes, MaxSpoolBytes, MaxAttempts,
  Answers,      \* what the server may answer, see Send
  MaxCalls,     \* bound on export() calls in progress
  MaxFailures   \* bound on killed processes and power failures

ASSUME ExporterAssumption ==
  /\ IsFiniteSet(Runs) /\ NoRun \notin Runs
  /\ Size \in [Runs -> Nat \ {0}]
  /\ {BatchSize, MaxQueueSize, MaxQueueBytes, MaxSpoolBytes, MaxAttempts} \subseteq Nat \ {0}
  /\ {MaxCalls, MaxFailures} \subseteq Nat
  /\ Answers \subseteq {"stored", "unanswered", "failed", "rejected"}

VARIABLES
  disk,        \* the file of a run: "new" until the directory is synced after
               \* its rename, "gone" until it is synced after its unlink
  received,    \* runs the server stored
  accepted,    \* runs whose export() resolved, in any process so far
  kills, outages,
  closed,      \* shutdown() was called
  queue, spoolBytes,
  initialized, \* of initialize(): "no", "running", "yes"
  calls,       \* runs of the export() calls in progress, oldest first
  accepting,   \* where the oldest of them is
  drain,       \* where drain() is
  awaited,     \* how many calls it awaits before it starts
  batch, attempt, unlinked,
  recovery, files, reading  \* recover(): where it is, the files not looked at
                            \* yet, the one being read

callVars == <<calls, accepting>>
drainVars == <<drain, awaited, batch, attempt, unlinked>>
recoverVars == <<recovery, files, reading>>
processVars == <<closed, queue, spoolBytes, initialized, callVars, drainVars, recoverVars>>
outside == <<disk, received, accepted, kills, outages>>
vars == <<outside, processVars>>

TypeOK ==
  /\ disk \in [Runs -> {"none", "new", "kept", "gone"}]
  /\ received \subseteq Runs /\ accepted \subseteq Runs
  /\ kills \in Nat /\ outages \in Nat
  /\ closed \in BOOLEAN
  /\ queue \in Seq(Runs)
  /\ spoolBytes \in Nat
  /\ initialized \in {"no", "running", "yes"}
  /\ calls \in Seq(Runs)
  /\ accepting \in {"start", "read", "write", "sync", "push"}
  /\ drain \in {"off", "pending", "loop", "send", "unlink", "sync", "splice", "recover"}
  /\ awaited \in 0..Len(calls)
  /\ batch \in Seq(Runs)
  /\ attempt \in 0..(MaxAttempts - 1)
  /\ unlinked \in 0..Len(batch)
  /\ recovery \in {"off", "list", "scan", "read"}
  /\ files \subseteq Runs
  /\ reading \in Runs \cup {NoRun}

Queued(q) == {q[i] : i \in DOMAIN q}
\* What a queue or a batch holds, and what the files of S hold.
Bytes(q) == Total([i \in DOMAIN q |-> Size[q[i]]])
Weight(S) == Total([r \in S |-> Size[r]])
\* The files readdir lists and unlink finds.
Spooled == {r \in Runs : disk[r] \in {"new", "kept"}}
\* Fault: the directory is not synced.
Unsynced(d) == d
\* What a sync of the directory makes of it.
Synced(d) == [r \in Runs |-> CASE d[r] = "new" -> "kept" [] d[r] = "gone" -> "none"
                               [] OTHER -> d[r]]

-----------------------------------------------------------------------------
(* initialize() and recover().                                             *)

Full(q) == Len(q) >= MaxQueueSize
Readable(q, F) ==
  {f \in F : ~Full(q) /\ f \notin Queued(q) /\ Size[f] + Bytes(q) <= MaxQueueBytes}

\* The loop of recover() from where the queue is q and F are the files left,
\* up to its next await: oldest files first, which is any order here.
Proceed(q, F) ==
  \/ \E f \in Readable(q, F) :
       /\ recovery' = "read" /\ reading' = f /\ files' = F \ {f}
       /\ UNCHANGED <<initialized, drain>>
  \/ /\ Readable(q, F) = {}
     /\ recovery' = "off" /\ reading' = NoRun /\ files' = {}
     /\ initialized' = "yes"
     /\ drain' = IF initialized = "yes" THEN "loop" ELSE drain

\* readdir; the first time, the files are counted too.
List ==
  /\ recovery = "list"
  /\ recovery' = "scan" /\ files' = Spooled
  /\ spoolBytes' = IF initialized = "yes" THEN spoolBytes
                   ELSE spoolBytes + Weight(Spooled)
  /\ UNCHANGED <<outside, closed, queue, initialized, callVars, drainVars, reading>>

Scan ==
  /\ recovery = "scan"
  /\ Proceed(queue, files)
  /\ UNCHANGED <<outside, closed, queue, spoolBytes, callVars, awaited, batch, attempt, unlinked>>

\* readFile returned: push, without looking at the queue again.
ReadSpooled ==
  /\ recovery = "read"
  /\ queue' = Append(queue, reading)
  /\ Proceed(queue', files)
  /\ UNCHANGED <<outside, closed, spoolBytes, callVars, awaited, batch, attempt, unlinked>>

\* The first export or drain that comes here.
Initialize ==
  /\ initialized = "no"
  /\ (calls # <<>> /\ accepting = "start") \/ (drain = "pending" /\ awaited = 0)
  /\ initialized' = "running" /\ recovery' = "list"
  /\ UNCHANGED <<outside, closed, queue, spoolBytes, callVars, drainVars, files, reading>>

-----------------------------------------------------------------------------
(* export().                                                               *)

\* `reserved` counts the calls in progress.
Export(r) ==
  /\ ~closed /\ Len(calls) < MaxCalls
  /\ calls' = Append(calls, r)
  /\ UNCHANGED <<outside, closed, queue, spoolBytes, initialized, accepting, drainVars, recoverVars>>

\* The oldest call settles; the next one starts.  A drain that awaits it and
\* sees it reject gives up.
Settle(resolved) ==
  /\ calls' = Tail(calls) /\ accepting' = "start"
  /\ accepted' = IF resolved THEN accepted \cup {Head(calls)} ELSE accepted
  /\ IF awaited > 0 /\ ~resolved
     THEN awaited' = 0 /\ drain' = "off"
     ELSE awaited' = (IF awaited > 0 THEN awaited - 1 ELSE 0) /\ UNCHANGED drain

\* Fault: the exports in progress are not counted.
CrowdedBefore == Len(queue) > MaxQueueSize
Crowded == Len(queue) + Len(calls) > MaxQueueSize
Check ==
  /\ calls # <<>> /\ accepting = "start" /\ initialized = "yes"
  /\ \/ Crowded /\ Settle(FALSE)
     \/ ~Crowded /\ Head(calls) \in Queued(queue) /\ Settle(TRUE)
     \/ /\ ~Crowded /\ Head(calls) \notin Queued(queue)
        /\ accepting' = "read" /\ UNCHANGED <<calls, drain, awaited, accepted>>
  /\ UNCHANGED <<disk, received, kills, outages, closed, queue, spoolBytes, initialized,
                 batch, attempt, unlinked, recoverVars>>

\* Fault: only what is spooled already is compared with the limit.
SpareBefore(r) == Size[r] + Bytes(queue) <= MaxQueueBytes /\ spoolBytes <= MaxSpoolBytes
Spare(r) == Size[r] + Bytes(queue) <= MaxQueueBytes /\ Size[r] + spoolBytes <= MaxSpoolBytes
\* A spooled snapshot is not spooled again; otherwise its bytes are reserved.
ReadExisting ==
  /\ accepting = "read"
  /\ LET r == Head(calls)
     IN  \/ r \in Spooled /\ Settle(TRUE)
         \/ r \notin Spooled /\ ~Spare(r) /\ Settle(FALSE)
         \/ /\ r \notin Spooled /\ Spare(r)
            /\ accepting' = "write" /\ UNCHANGED <<calls, drain, awaited, accepted>>
  /\ UNCHANGED <<disk, received, kills, outages, closed, queue, spoolBytes, initialized,
                 batch, attempt, unlinked, recoverVars>>

\* The temporary file is written, synced and renamed.
Rename ==
  /\ accepting = "write"
  /\ disk' = [disk EXCEPT ![Head(calls)] = "new"]
  /\ accepting' = "sync"
  /\ UNCHANGED <<received, accepted, kills, outages, closed, queue, spoolBytes, initialized,
                 calls, drainVars, recoverVars>>

SyncRename ==
  /\ accepting = "sync"
  /\ disk' = Synced(disk)
  /\ accepting' = "push"
  /\ UNCHANGED <<received, accepted, kills, outages, closed, queue, spoolBytes, initialized,
                 calls, drainVars, recoverVars>>

Push ==
  /\ accepting = "push"
  /\ spoolBytes' = spoolBytes + Size[Head(calls)]
  /\ queue' = Append(queue, Head(calls))
  /\ Settle(TRUE)
  /\ UNCHANGED <<disk, received, kills, outages, closed, initialized, batch, attempt,
                 unlinked, recoverVars>>

-----------------------------------------------------------------------------
(* flush(), drain() and shutdown().                                        *)

\* One drain at a time; it awaits the exports in progress when it starts.
Drain == drain' = "pending" /\ awaited' = Len(calls)

\* The timer, or the application.
Flush ==
  /\ drain = "off" /\ Drain
  /\ UNCHANGED <<outside, closed, queue, spoolBytes, initialized, callVars, batch, attempt,
                 unlinked, recoverVars>>

Shutdown ==
  /\ ~closed /\ closed' = TRUE
  /\ IF drain = "off" THEN Drain ELSE UNCHANGED <<drain, awaited>>
  /\ UNCHANGED <<outside, queue, spoolBytes, initialized, callVars, batch, attempt,
                 unlinked, recoverVars>>

Start ==
  /\ drain = "pending" /\ awaited = 0 /\ initialized = "yes"
  /\ drain' = "loop"
  /\ UNCHANGED <<outside, closed, queue, spoolBytes, initialized, callVars, awaited, batch,
                 attempt, unlinked, recoverVars>>

\* while (queue.length): the next batch.
Slice ==
  /\ drain = "loop"
  /\ IF queue = <<>>
     THEN drain' = "off" /\ UNCHANGED <<batch, attempt>>
     ELSE /\ drain' = "send" /\ attempt' = 0
          /\ batch' = SubSeq(queue, 1, IF Len(queue) < BatchSize THEN Len(queue) ELSE BatchSize)
  /\ UNCHANGED <<outside, closed, queue, spoolBytes, initialized, callVars, awaited, unlinked,
                 recoverVars>>

\* Fault: a batch is tried without end.
AlwaysAgain == TRUE
Again == attempt + 1 < MaxAttempts
\* The batch is stored and the answer arrives or not, the server fails, or it
\* rejects the batch for good.
Send(answer) ==
  /\ drain = "send"
  /\ received' = IF answer \in {"stored", "unanswered"} THEN received \cup Queued(batch) ELSE received
  /\ \/ answer = "stored" /\ drain' = "unlink" /\ unlinked' = 0 /\ UNCHANGED <<batch, attempt>>
     \/ /\ answer \in {"unanswered", "failed"} /\ Again
        /\ attempt' = (attempt + 1) % MaxAttempts   \* cannot wrap
        /\ UNCHANGED <<drain, batch, unlinked>>
     \/ /\ answer = "rejected" \/ (answer # "stored" /\ ~Again)
        /\ drain' = "off" /\ batch' = <<>> /\ attempt' = 0 /\ UNCHANGED unlinked
  /\ UNCHANGED <<disk, accepted, kills, outages, closed, queue, spoolBytes, initialized, callVars,
                 awaited, recoverVars>>

\* unlink of a missing file throws, and the drain ends there.
Unlink ==
  /\ drain = "unlink"
  /\ LET r == batch[unlinked + 1]
     IN  IF r \in Spooled
         THEN /\ disk' = [disk EXCEPT ![r] = "gone"]
              /\ drain' = IF unlinked + 1 = Len(batch) THEN "sync" ELSE "unlink"
              /\ unlinked' = unlinked + 1 /\ UNCHANGED <<batch, attempt>>
         ELSE drain' = "off" /\ batch' = <<>> /\ attempt' = 0 /\ unlinked' = 0 /\ UNCHANGED disk
  /\ UNCHANGED <<received, accepted, kills, outages, closed, queue, spoolBytes, initialized, callVars,
                 awaited, recoverVars>>

SyncUnlink ==
  /\ drain = "sync"
  /\ disk' = Synced(disk)
  /\ drain' = "splice"
  /\ UNCHANGED <<received, accepted, kills, outages, closed, queue, spoolBytes, initialized,
                 callVars, awaited, batch, attempt, unlinked, recoverVars>>

\* Fault: a drain may free bytes before the export counted them.
FreedBefore(bytes) == spoolBytes - bytes
Freed(bytes) == IF spoolBytes < bytes THEN 0 ELSE spoolBytes - bytes
\* Fault: what is left of a backlog is not looked for.
Idle == recovery' = "off" /\ drain' = "loop"
\* recover() after each batch.
Refill == recovery' = "list" /\ drain' = "recover"
Splice ==
  /\ drain = "splice"
  /\ queue' = SubSeq(queue, Len(batch) + 1, Len(queue))
  /\ spoolBytes' = Freed(Bytes(batch))
  /\ Refill
  /\ batch' = <<>> /\ attempt' = 0 /\ unlinked' = 0
  /\ UNCHANGED <<outside, closed, initialized, callVars, awaited, files, reading>>

-----------------------------------------------------------------------------
(* The process and its machine.                                            *)

Fresh ==
  /\ closed' = FALSE /\ queue' = <<>> /\ spoolBytes' = 0 /\ initialized' = "no"
  /\ calls' = <<>> /\ accepting' = "start"
  /\ drain' = "off" /\ awaited' = 0 /\ batch' = <<>> /\ attempt' = 0 /\ unlinked' = 0
  /\ recovery' = "off" /\ files' = {} /\ reading' = NoRun

\* The process ends, closed or not, and another is started.
Kill ==
  /\ kills + outages < MaxFailures /\ kills' = kills + 1
  /\ Fresh /\ UNCHANGED <<disk, received, accepted, outages>>

\* The machine loses what it has not synced.  Only before any kill: a file
\* that a killed process renamed stays unsynced, and its run is accepted again
\* without a sync.
PowerFailure ==
  /\ kills = 0 /\ outages < MaxFailures /\ outages' = outages + 1
  /\ disk' \in [Runs -> {"none", "kept"}]
  /\ \A r \in Runs : disk[r] \in {"none", "kept"} => disk'[r] = disk[r]
  /\ Fresh /\ UNCHANGED <<received, accepted, kills>>

\* An earlier process may have left snapshots behind, within the limit.
Init ==
  /\ \E left \in SUBSET Runs :
       /\ disk = [r \in Runs |-> IF r \in left THEN "kept" ELSE "none"]
       /\ accepted = left
       /\ Weight(left) <= MaxSpoolBytes
  /\ received = {} /\ kills = 0 /\ outages = 0
  /\ closed = FALSE /\ queue = <<>> /\ spoolBytes = 0 /\ initialized = "no"
  /\ calls = <<>> /\ accepting = "start"
  /\ drain = "off" /\ awaited = 0 /\ batch = <<>> /\ attempt = 0 /\ unlinked = 0
  /\ recovery = "off" /\ files = {} /\ reading = NoRun

Accepting == Check \/ ReadExisting \/ Rename \/ SyncRename \/ Push
Recovering == Initialize \/ List \/ Scan \/ ReadSpooled
Draining ==
  \/ Start \/ Slice \/ Unlink \/ SyncUnlink \/ Splice
  \/ \E answer \in Answers : Send(answer)

Next ==
  \/ Accepting \/ Recovering \/ Draining
  \/ \E r \in Runs : Export(r)
  \/ Flush \/ Shutdown \/ Kill \/ PowerFailure

Spec == Init /\ [][Next]_vars
\* Disk operations and requests end (within the timeout), and the timer fires.
SpecFair ==
  /\ Spec
  /\ WF_vars(Accepting) /\ WF_vars(Recovering) /\ WF_vars(Draining)
  /\ WF_vars(~closed /\ Flush)

-----------------------------------------------------------------------------
(* Properties.                                                             *)

\* An export that resolved is never lost: the server has the run, or its file
\* is in the spool, whatever the process or the machine did since.
AcceptedSurvives == accepted \subseteq received \cup Spooled

\* The spool never outgrows maxSpoolBytes: not while snapshots are being
\* accepted and deleted at the same time, and not across restarts.
SpoolBounded == Weight(Spooled) <= MaxSpoolBytes

\* export() and recover() each look at the queue before an await and push
\* after it, and still the queue outgrows its limit by one entry at most.
QueueBounded == Len(queue) <= MaxQueueSize + 1

\* A drain that runs out of work leaves nothing behind in the spool, however
\* long a backlog was, but for an export in progress.
BacklogDrained ==
  drain = "loop" /\ queue = <<>> =>
    \A r \in Spooled : calls # <<>> /\ r = Head(calls)

\* shutdown() returns: retries are bounded, and no export in progress or
\* recovery keeps it waiting for good.
ShutdownReturns == closed ~> drain = "off"

\* docs/usage/typescript.md: "Failed batches remain queued for the next flush";
\* service-controls.md: recovery drains backlogs across as many windows as
\* needed.  So a run that is accepted is delivered, by a server that answers.
AcceptedDelivered == \A r \in Runs : r \in accepted ~> r \in received \/ closed
=============================================================================
