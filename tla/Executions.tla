------------------------------ MODULE Executions ------------------------------
(***************************************************************************)
(* Executions as values: what a recorded run is (refract-core), how it is  *)
(* measured (metrics.rs), forked and prepared for another execution        *)
(* (refract-replay), and compared with another (refract-diff).             *)
(* Times and names are reduced to what these tell apart. An input or an    *)
(* output is a JSON value: the set of its leaves, each at its path of keys *)
(* (an empty object or array is not represented). An event has at most one *)
(* binding, which puts the value at a path of an earlier event's output    *)
(* under a key of the input.                                               *)
(***************************************************************************)
EXTENDS Integers, Sequences, SequencesExt, FiniteSetsExt

CONSTANTS
  RunIds, EventIds, Models,
  Fields, Values,    \* keys of objects; strings, numbers and so on
  Sensitive, Hidden, \* keys that redact() masks by their name; "[REDACTED]"
  Alike,             \* pairs of outputs whose words are alike, numbers and negations equal
  None

Leaves == [path : Seq(Fields), value : Values]
Payloads == SUBSET Leaves

ASSUME ExecutionConstants ==
  /\ Sensitive \subseteq Fields /\ Hidden \in Values
  /\ Alike \subseteq Payloads \X Payloads
  /\ None \notin EventIds \union Models \union Nat

\* "effect" stands for tool calls, humans, handoffs and state changes, "step"
\* for all other kinds; "recorded" for every policy with no rule of its own.
Kinds == {"generation", "effect", "step"}
Policies == {"recorded", "read_only", "requires_approval", "blocked"}

\* A binding is an attribute of its event, under the key of its target.
Bindings == [event : EventIds, path : Seq(Fields), target : Fields]
ASSUME BindingAssumption == Hidden \notin Bindings /\ None \notin Bindings

Events ==
  [id : EventIds, run : RunIds, parent : EventIds \union {None}, kind : Kinds,
   policy : Policies, status : {"completed", "failed"}, input : Payloads, output : Payloads,
   bind : Bindings \union {None, Hidden}, model : Models \union {None},
   tokens : Nat \union {None}, cost : Nat \union {None}, reused : BOOLEAN]
Runs ==
  [id : RunIds, status : {"running", "completed", "failed"}, wall : Int \union {None},
   lineage : [of : RunIds, from : EventIds] \union {None}, events : Seq(Events)]

-----------------------------------------------------------------------------
\* refract-core

IndexOf(run, id) == CHOOSE i \in DOMAIN run.events : run.events[i].id = id
IdsBefore(run, i) == {run.events[j].id : j \in 1..(i - 1)}

\* wall is ended_at - started_at, None for a run that has not ended.
Valid(run) ==
  /\ run.wall # None => run.wall >= 0
  /\ run.status # "running" => run.wall # None
  /\ \A i \in DOMAIN run.events :
       LET e == run.events[i]
       IN  /\ e.run = run.id
           /\ e.parent # None => e.parent \in IdsBefore(run, i)
           /\ e.id \notin IdsBefore(run, i)

\* redact(): whatever stands under a sensitive key, at any depth, becomes one
\* hidden leaf at that key; everything else stays, whatever it says.
Harmless(path) == \A i \in DOMAIN path : path[i] \notin Sensitive
FirstSensitive(path) ==
  {k \in DOMAIN path : path[k] \in Sensitive /\ \A i \in 1..(k - 1) : path[i] \notin Sensitive}
MaskedLeaf(l) ==
  IF Harmless(l.path) THEN {l}
  ELSE {[path |-> SubSeq(l.path, 1, k), value |-> Hidden] : k \in FirstSensitive(l.path)}
Masked(v) == UNION {MaskedLeaf(l) : l \in v}
MaskedBind(b) == IF b \in Bindings /\ b.target \in Sensitive THEN Hidden ELSE b
Redacted(run) ==
  [run EXCEPT !.events = [i \in DOMAIN run.events |->
     [run.events[i] EXCEPT !.input = Masked(@), !.output = Masked(@), !.bind = MaskedBind(@)]]]

Generations(run) == {i \in DOMAIN run.events : run.events[i].kind = "generation"}

\* A measure is known only if every model call has it; a cost needs a call.
Cost(run) ==
  IF Generations(run) # {} /\ \A i \in Generations(run) : run.events[i].cost # None
  THEN MapThenSumSet(LAMBDA i : run.events[i].cost, Generations(run)) ELSE None
Tokens(run) ==
  IF \A i \in Generations(run) : run.events[i].tokens # None
  THEN MapThenSumSet(LAMBDA i : run.events[i].tokens, Generations(run)) ELSE None
Measure(run) == [cost |-> Cost(run), tokens |-> Tokens(run), latency |-> run.wall]

-----------------------------------------------------------------------------
\* refract-replay

\* The unfinished prefix before an event, as a run of its own.
Fork(run, from, id) ==
  [run EXCEPT !.id = id, !.status = "running", !.wall = None,
     !.lineage = [of |-> run.id, from |-> from],
     !.events = [i \in 1..(IndexOf(run, from) - 1) |-> [run.events[i] EXCEPT !.run = id]]]

NeedsApproval(e) ==
  \/ e.policy = "requires_approval"
  \/ e.kind = "effect" /\ e.policy # "read_only"

Suffix(run, from) == IndexOf(run, from)..Len(run.events)

\* Fault: the rest of the suffix is looked at when its turn comes.
AuthorizedNext(run, options) ==
  LET e == run.events[IndexOf(run, options.from)]
  IN  e.policy # "blocked" /\ (NeedsApproval(e) => e.id \in options.approved)

\* The whole suffix is authorised; every binding is legible, refers to what
\* precedes and goes into an object.
Authorized(run, options) ==
  \A i \in Suffix(run, options.from) :
    LET e == run.events[i]
    IN  /\ e.policy # "blocked"
        /\ NeedsApproval(e) => e.id \in options.approved
        /\ e.bind # None => /\ e.bind \in Bindings /\ e.bind.event \in IdsBefore(run, i)
                            /\ \A l \in e.input : l.path # << >>

Preflight(run, options) ==
  /\ Valid(run) /\ options.live
  /\ options.from \in {run.events[i].id : i \in DOMAIN run.events}
  /\ Authorized(run, options)

\* The value at a JSON pointer, and a value with another one put at a key.
At(v, path) ==
  {[path |-> SubSeq(l.path, Len(path) + 1, Len(l.path)), value |-> l.value] :
     l \in {x \in v : IsPrefix(path, x.path)}}
Outside(v, key) == {l \in v : ~IsPrefix(<<key>>, l.path)}
Under(v, key) == {[path |-> <<key>> \o l.path, value |-> l.value] : l \in v}
Inserted(v, key, w) == Outside(v, key) \union Under(w, key)

\* What a binding takes of the events of the branch or, as a fault, of the baseline.
Taken(bind, events) ==
  At(events[CHOOSE i \in DOMAIN events : events[i].id = bind.event].output, bind.path)
Bindable(old, events) == old.bind # None => Taken(old.bind, events) # {}

\* Fault: a binding takes what the baseline put out.
RecordedInput(old, run, events) ==
  IF old.bind = None THEN old.input
  ELSE Inserted(old.input, old.bind.target, Taken(old.bind, run.events))

\* A binding takes what the branch has put out, before anything of it is masked.
BoundInput(old, run, events) ==
  IF old.bind = None THEN old.input
  ELSE Inserted(old.input, old.bind.target, Taken(old.bind, events))

\* prepare(): usage of the baseline is dropped, the model replaced.
Prepared(old, run, events, id, model) ==
  [old EXCEPT !.run = id, !.input = BoundInput(old, run, events),
     !.model = IF old.kind = "generation" THEN model ELSE @,
     !.tokens = None, !.cost = None]

\* complete()
Completed(run, id, from, events, wall) ==
  Redacted([Fork(run, from, id) EXCEPT !.events = events, !.status = "completed", !.wall = wall])

-----------------------------------------------------------------------------
\* refract-diff

\* Generated ids and times are ignored; a parent is known by its position.
Semantic(e, run) ==
  [e EXCEPT !.id = None, !.run = None,
     !.parent = IF e.parent = None THEN 0 ELSE IndexOf(run, e.parent)]

Longest(left, right) == 1..Max({Len(left.events), Len(right.events)})
Shared(left, right) == DOMAIN left.events \intersect DOMAIN right.events

\* compare(): the positions that differ.
Differences(left, right) ==
  {i \in Longest(left, right) :
     i \in Shared(left, right) => Semantic(left.events[i], left) # Semantic(right.events[i], right)}

\* What remains of an event without its output, usage, model and reuse mark.
Shape(e, run) ==
  [Semantic(e, run) EXCEPT !.output = None, !.model = None, !.tokens = None,
     !.cost = None, !.reused = FALSE]

SameShape(left, right, i) == Shape(left.events[i], left) = Shape(right.events[i], right)

\* The offline grader needs no call.
OfflineGrades == Alike

\* The category of one position, given the pairs of outputs graded equivalent.
\* "changed" stands for another output and for an error of the grader.
Category(left, right, i, equivalent) ==
  IF i \notin Shared(left, right) THEN "structure"
  ELSE IF ~SameShape(left, right, i) THEN "behavior"
  ELSE LET pair == <<left.events[i].output, right.events[i].output>>
       IN  IF pair[1] = pair[2] \/ pair \in equivalent THEN "equivalent" ELSE "changed"

\* Fault: what cannot be measured is within its budget.
WithinIfKnown(old, new, percent) ==
  old # None /\ new # None => new * 100 <= old * (100 + percent)

\* A budget on what is not known is violated.
Within(old, new, percent) ==
  old # None /\ new # None /\ new * 100 <= old * (100 + percent)

Overspent(left, right, limits) ==
  {m \in DOMAIN limits : ~Within(Measure(left)[m], Measure(right)[m], limits[m])}

\* compare_with_grader(): passed only if nothing changed and nothing overran.
Passed(left, right, limits, equivalent) ==
  /\ \A i \in Longest(left, right) : Category(left, right, i, equivalent) = "equivalent"
  /\ Overspent(left, right, limits) = {}
  /\ left.status = right.status

\* The pairs of outputs a model has to grade.
ChangedOutputs(left, right) ==
  {<<left.events[i].output, right.events[i].output>> :
     i \in {j \in Shared(left, right) : SameShape(left, right, j)
              /\ left.events[j].output # right.events[j].output}}
===============================================================================
