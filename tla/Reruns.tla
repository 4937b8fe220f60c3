-------------------------------- MODULE Reruns --------------------------------
(***************************************************************************)
(* The runs of one scope and what the server does with them: it stores,    *)
(* forks and re-executes them against a model provider, and compares and   *)
(* evaluates them with a model as grader (refract-server lib.rs and        *)
(* generation.rs). A request holds the runs it has read while others       *)
(* store, retain and replace what it read; provider calls share permits    *)
(* and may fail, hang until a deadline, or be abandoned by the client.     *)
(***************************************************************************)
EXTENDS Executions

CONSTANTS
  Requests,
  BranchIds,  \* fresh ids of forks and reruns, of RunIds
  Inputs,     \* runs that clients post
  Model,      \* model of the operator's generation profile
  Replies,    \* [output, tokens] a provider may return
  RerunOptions, \* [from, live, approved, reuse]
  Comparisons,  \* [pairs, limits, grader, live]: diffs, of one pair, and evaluations
  Permits,    \* concurrent provider calls: 4
  MaxCalls    \* calls of one rerun, pairs of one comparison: 32

ASSUME RerunConstants ==
  /\ Permits \in Nat \ {0} /\ MaxCalls \in Nat /\ IsFiniteSet(Requests)
  /\ BranchIds \subseteq RunIds /\ Inputs \subseteq Runs /\ Model \in Models
  /\ \A run \in Inputs : run.id \notin BranchIds
  /\ Replies \subseteq [output : Payloads, tokens : Nat \union {None}]

VARIABLES
  store,    \* runs: partial function of ids to executions
  origins,  \* for each branch: the run it was made of, where and how
  job,      \* what each request is doing and has read
  permits   \* free permits of the registry's semaphore

vars == <<store, origins, job, permits>>

Idle == [pc |-> "idle"]
Become(r, j) == job' = [job EXCEPT ![r] = j]
With(f, k, v) == [x \in DOMAIN f \union {k} |-> IF x = k THEN v ELSE f[x]]
Without(f, k) == [x \in DOMAIN f \ {k} |-> f[x]]

-----------------------------------------------------------------------------
\* Runs

\* Fault: redaction is left to the recorder.
NormalizedAsIs(run) == run

\* RedactionPolicy::normalize of a run that validates.
Normalized(run) == Redacted(run)

\* POST runs: a run whose id is taken is refused.
Create ==
  /\ \E run \in Inputs :
       /\ Valid(run) /\ run.id \notin DOMAIN store
       /\ store' = With(store, run.id, Normalized(run))
  /\ UNCHANGED <<origins, job, permits>>

\* Retention deletes a run, whoever has read it.
Retain ==
  /\ \E id \in DOMAIN store : store' = Without(store, id)
  /\ UNCHANGED <<origins, job, permits>>

Fresh(id) == id \in BranchIds \ DOMAIN origins
StoreBranch(run, id, how) ==
  /\ store' = With(store, id, run)
  /\ origins' = With(origins, id, how)

ForkRun ==
  /\ \E id \in DOMAIN store, b \in {x \in BranchIds : Fresh(x)} :
       \E i \in DOMAIN store[id].events :
         LET from == store[id].events[i].id
         IN  Valid(store[id]) /\ StoreBranch(Fork(store[id], from, b), b,
                               [run |-> store[id], from |-> from, rerun |-> FALSE])
  /\ UNCHANGED <<job, permits>>

-----------------------------------------------------------------------------
\* Rerun

\* Steps of the suffix run no application code here: each needs consent to
\* reuse what was recorded.
Consented(run, options) ==
  LET suffix == Suffix(run, options.from)
  IN  /\ Cardinality(Generations(run) \intersect suffix) <= MaxCalls
      /\ \A i \in suffix \ Generations(run) : run.events[i].id \in options.reuse

StartRerun(r) ==
  /\ job[r] = Idle
  /\ \E id \in DOMAIN store, o \in RerunOptions, b \in {x \in BranchIds : Fresh(x)} :
       /\ Preflight(store[id], o) /\ Consented(store[id], o)
       /\ Become(r, [pc |-> "rerun", run |-> store[id], options |-> o, id |-> b,
                     events |-> Fork(store[id], o.from, b).events])
       /\ origins' = With(origins, b, [run |-> store[id], from |-> o.from, rerun |-> TRUE])
  /\ UNCHANGED <<store, permits>>

\* The event the branch comes to next, as prepare() makes it.
Coming(j) == j.run.events[Len(j.events) + 1]
Prepare(j) == Prepared(Coming(j), j.run, j.events, j.id, Model)
More(j) == Len(j.events) < Len(j.run.events)

\* prepare() fails, and the rerun with it, where a binding finds nothing.
Ready(j) == More(j) /\ Bindable(Coming(j), j.events)

\* ProviderExecutor reuses the output of anything but a generation.
Reuse(r) ==
  /\ job[r].pc = "rerun" /\ Ready(job[r]) /\ Coming(job[r]).kind # "generation"
  /\ Become(r, [job[r] EXCEPT !.events = Append(@,
       [Prepare(job[r]) EXCEPT !.status = "completed", !.reused = TRUE])])
  /\ UNCHANGED <<store, origins, permits>>

\* try_acquire: without a free permit the rerun fails, it does not wait.
Call(r) ==
  /\ job[r].pc = "rerun" /\ Ready(job[r]) /\ Coming(job[r]).kind = "generation"
  /\ permits > 0 /\ permits' = permits - 1
  /\ Become(r, [job[r] EXCEPT !.pc = "calling"])
  /\ UNCHANGED <<store, origins>>

Return(r) ==
  /\ job[r].pc = "calling"
  /\ \E reply \in Replies :
       Become(r, [job[r] EXCEPT !.pc = "rerun", !.events = Append(@,
         [Prepare(job[r]) EXCEPT !.status = "completed", !.output = reply.output,
                                 !.tokens = reply.tokens])])
  /\ permits' = permits + 1
  /\ UNCHANGED <<store, origins>>

\* Only a branch that came to its end is stored.
FinishRerun(r) ==
  /\ job[r].pc = "rerun" /\ ~More(job[r])
  /\ \E wall \in 0..1 :
       store' = With(store, job[r].id,
         Normalized(Completed(job[r].run, job[r].id, job[r].options.from, job[r].events, wall)))
  /\ Become(r, Idle)
  /\ UNCHANGED <<origins, permits>>

-----------------------------------------------------------------------------
\* Diff and evaluation: a sequence of pairs, each read and compared in turn.

\* No grader, or a profile the request may use and has opted in to.
StartComparison(r) ==
  /\ job[r] = Idle
  /\ \E c \in Comparisons :
       /\ \A i \in DOMAIN c.pairs : c.pairs[i][1] \in DOMAIN store /\ c.pairs[i][2] \in DOMAIN store
       /\ c.grader => c.live
       /\ Become(r, [pc |-> "load", asked |-> c, cases |-> << >>])
  /\ UNCHANGED <<store, origins, permits>>

\* Every pair is read again when its turn comes; a missing run ends the request.
Load(r) ==
  /\ job[r].pc = "load" /\ Len(job[r].cases) < Len(job[r].asked.pairs)
  /\ LET pair == job[r].asked.pairs[Len(job[r].cases) + 1]
     IN  /\ pair[1] \in DOMAIN store /\ pair[2] \in DOMAIN store
         /\ LET left == store[pair[1]]  right == store[pair[2]]
                todo == IF job[r].asked.grader THEN ChangedOutputs(left, right) ELSE {}
            IN  /\ Cardinality(todo) <= MaxCalls
                /\ Become(r, [pc |-> "grading", asked |-> job[r].asked, cases |-> job[r].cases,
                     left |-> left, right |-> right, todo |-> todo, grades |-> << >>])
  /\ UNCHANGED <<store, origins, permits>>

Graded(j, pair, grade) ==
  [j EXCEPT !.pc = "grading", !.todo = @ \ {pair}, !.grades = With(@, pair, grade)]

Ask(r) ==
  /\ job[r].pc = "grading" /\ job[r].todo # {}
  /\ permits > 0 /\ permits' = permits - 1
  /\ Become(r, [job[r] EXCEPT !.pc = "asking"])
  /\ UNCHANGED <<store, origins>>

\* The verdict of the model on the next pair: the score reaches the threshold
\* or not, and anything else than a well-formed verdict is an error.
Verdict(r) ==
  /\ job[r].pc = "asking"
  /\ \E grade \in {"equivalent", "different", "error"} :
       Become(r, Graded(job[r], CHOOSE p \in job[r].todo : TRUE, grade))
  /\ permits' = permits + 1
  /\ UNCHANGED <<store, origins>>

\* No permit, or the 120 s of the comparison are over.
Ungraded(r) ==
  /\ job[r].pc = "grading" /\ job[r].todo # {}
  /\ Become(r, Graded(job[r], CHOOSE p \in job[r].todo : TRUE, "error"))
  /\ UNCHANGED <<store, origins, permits>>

\* Fault: what the model would not grade is graded by its words.
PreparedOrOffline(j) ==
  {p \in DOMAIN j.grades : j.grades[p] = "equivalent"}
    \union {p \in Alike : p \in DOMAIN j.grades => j.grades[p] = "error"}

\* PreparedGrades: a pair the model did not find equivalent is changed.
PreparedGrades(j) == {p \in DOMAIN j.grades : j.grades[p] = "equivalent"}

Report(r) ==
  /\ job[r].pc = "grading" /\ job[r].todo = {}
  /\ LET j == job[r]
         equivalent == IF j.asked.grader THEN PreparedGrades(j) ELSE OfflineGrades
         passed == Passed(j.left, j.right, j.asked.limits, equivalent)
     IN  Become(r, [pc |-> "load", asked |-> j.asked, cases |-> Append(j.cases,
           [left |-> j.left, right |-> j.right, grades |-> j.grades, passed |-> passed])])
  /\ UNCHANGED <<store, origins, permits>>

\* The answer counts the cases that passed.
Answer(r) ==
  /\ job[r].pc = "load" /\ Len(job[r].cases) = Len(job[r].asked.pairs)
  /\ Become(r, [pc |-> "answered", asked |-> job[r].asked, cases |-> job[r].cases,
       passed |-> Cardinality({i \in DOMAIN job[r].cases : job[r].cases[i].passed})
                    = Len(job[r].cases)])
  /\ UNCHANGED <<store, origins, permits>>

Done(r) ==
  /\ job[r].pc = "answered"
  /\ Become(r, Idle)
  /\ UNCHANGED <<store, origins, permits>>

-----------------------------------------------------------------------------
\* Fault: a permit is released where a call returns, not where it is dropped.
DroppedHeld(pc) == permits

\* The permit of a call goes with it, however the call ends.
Dropped(pc) == IF pc \in {"calling", "asking"} THEN permits + 1 ELSE permits

\* A provider error, no permit, a timeout, a missing run, a binding that finds
\* nothing, a client that goes away: the future is dropped, its permit with it,
\* and nothing is written.
Abort(r) ==
  /\ job[r].pc \notin {"idle", "answered"}
  /\ Become(r, Idle)
  /\ permits' = Dropped(job[r].pc)
  /\ UNCHANGED <<store, origins>>

Init ==
  /\ store = << >> /\ origins = << >>
  /\ job = [r \in Requests |-> Idle]
  /\ permits = Permits

Next ==
  \/ Create \/ Retain \/ ForkRun
  \/ \E r \in Requests :
       \/ StartRerun(r) \/ Reuse(r) \/ Call(r) \/ Return(r) \/ FinishRerun(r)
       \/ StartComparison(r) \/ Load(r) \/ Ask(r) \/ Verdict(r) \/ Ungraded(r)
       \/ Report(r) \/ Answer(r) \/ Done(r) \/ Abort(r)

Spec == Init /\ [][Next]_vars

-----------------------------------------------------------------------------
\* Properties.

\* A permit is held by exactly the provider calls under way: none is lost with
\* a request that fails, times out or is abandoned, and none returned twice.
PermitsReturned ==
  permits + Cardinality({r \in Requests : job[r].pc \in {"calling", "asking"}}) = Permits

\* However a run came to be stored, posted, forked or executed again, it is a
\* valid execution under its own id, and nothing in it stands under a sensitive
\* key but the mask. A secret that a binding moved under another key is not
\* covered: redaction knows keys, not values.
StoredNormal ==
  \A id \in DOMAIN store :
    /\ store[id].id = id /\ Valid(store[id])
    /\ \A i \in DOMAIN store[id].events :
         \A l \in store[id].events[i].input \union store[id].events[i].output :
           Harmless(l.path) \/ l.value = Hidden

\* A stored branch is the run it was made of up to the fork, whatever became of
\* that run since; a rerun then goes on to the end with the same events, each
\* generation by the profile's model and at no known cost, each other step with
\* the recorded output. Its inputs are the recorded ones but for the bindings:
\* under a binding's key, never a sensitive one, stands what this branch put
\* out, as the branch shows it. (What a binding takes from under a sensitive
\* key the branch shows masked and the input need not.)
BranchesFaithful ==
  \A b \in DOMAIN store \intersect DOMAIN origins :
    LET run == origins[b].run
        s == store[b].events
        fork == IndexOf(run, origins[b].from)
    IN  /\ \A i \in Differences(run, store[b]) : i >= fork
        /\ Len(s) = IF origins[b].rerun THEN Len(run.events) ELSE fork - 1
        /\ \A i \in fork..Len(s) :
             LET old == run.events[i]  bind == run.events[i].bind
             IN  /\ s[i].id = old.id /\ s[i].kind = old.kind /\ s[i].bind = bind
                 /\ IF s[i].kind = "generation" THEN s[i].model = Model /\ s[i].cost = None
                    ELSE s[i].output = old.output
                 /\ bind = None => s[i].input = old.input
                 /\ bind # None =>
                      /\ bind.target \notin Sensitive
                      /\ Outside(s[i].input, bind.target) = Outside(old.input, bind.target)
                      /\ Harmless(bind.path) =>
                           At(s[i].input, <<bind.target>>) = Taken(bind, s)

\* No provider is called before the whole rest of the run is known to be
\* allowed: opted in to, nothing blocked, what has effects approved, what is
\* not a generation consented to, also where it comes after the call.
LiveCallsApproved ==
  \A r \in Requests : job[r].pc = "calling" =>
    LET j == job[r]
    IN  /\ j.options.live
        /\ \A i \in Suffix(j.run, j.options.from) :
             LET e == j.run.events[i]
             IN  /\ e.policy # "blocked"
                 /\ NeedsApproval(e) => e.id \in j.options.approved
                 /\ e.kind # "generation" => e.id \in j.options.reuse
        /\ \A i \in DOMAIN j.events : j.events[i].id = j.run.events[i].id

\* A comparison or evaluation that passed was complete: every pair asked for
\* was compared, nothing but outputs, usage and models differs, each changed
\* output was found equivalent by the grader asked for, in this comparison,
\* and each budget was measured on both sides and kept.
ReportsFailClosed ==
  \A r \in Requests : job[r].pc = "answered" /\ job[r].passed =>
    /\ Len(job[r].cases) = Len(job[r].asked.pairs)
    /\ \A n \in DOMAIN job[r].cases :
         LET c == job[r].cases[n]  limits == job[r].asked.limits
         IN  /\ Len(c.left.events) = Len(c.right.events)
             /\ \A i \in DOMAIN c.left.events :
                  LET pair == <<c.left.events[i].output, c.right.events[i].output>>
                  IN  /\ SameShape(c.left, c.right, i)
                      /\ pair[1] # pair[2] =>
                           IF job[r].asked.grader
                           THEN pair \in DOMAIN c.grades /\ c.grades[pair] = "equivalent"
                           ELSE pair \in Alike
             /\ \A m \in DOMAIN limits :
                  /\ Measure(c.left)[m] # None /\ Measure(c.right)[m] # None
                  /\ Measure(c.right)[m] * 100 <= Measure(c.left)[m] * (100 + limits[m])
===============================================================================
