------------------------------ MODULE MCReruns ------------------------------
(***************************************************************************)
(* Two runs of one id whose last generation is bound to the whole output   *)
(* of the first, and the step with effects between them to its secret or   *)
(* to its text; a third under that id, whose binding is hidden, since it   *)
(* goes under a sensitive key, and a fourth, whose second step is blocked; *)
(* an invalid one.                                                         *)
(***************************************************************************)
EXTENDS Reruns, TLC

CONSTANTS b1, b2, r1, r2

Text(x) == {[path |-> <<"text">>, value |-> x]}
WithToken(x) == Text(x) \union {[path |-> <<"token", "id">>, value |-> "s1"]}

Ev(id, run, kind, out) ==
  [id |-> id, run |-> run, parent |-> None, kind |-> kind, policy |-> "recorded",
   status |-> "completed", input |-> Text("o1"), output |-> out, bind |-> None,
   model |-> "base", tokens |-> 1, cost |-> 1, reused |-> FALSE]
AsRun(id, events) ==
  [id |-> id, status |-> "completed", wall |-> 1, lineage |-> None, events |-> events]

\* An event bound to the first, with the input it had when that was recorded.
BoundTo(e, path, target) ==
  [e EXCEPT !.parent = "e1", !.bind = [event |-> "e1", path |-> path, target |-> target],
            !.input = Inserted(@, target, At(WithToken("o1"), path))]
Recorded(path, target) ==
  AsRun("a", << Ev("e1", "a", "generation", WithToken("o1")),
                BoundTo(Ev("e2", "a", "effect", Text("o1")), path, target),
                BoundTo(Ev("e3", "a", "generation", Text("o1")), << >>, "prompt") >>)

MCInputs ==
  { Recorded(<<"token">>, "prompt"), Recorded(<<"text">>, "prompt"),
    AsRun("a", << Ev("e1", "a", "generation", WithToken("o1")),
                  BoundTo(Ev("e2", "a", "effect", Text("o1")), <<"text">>, "token") >>),
    AsRun("a", << Ev("e1", "a", "generation", WithToken("o1")),
                  [Ev("e2", "a", "step", Text("o2")) EXCEPT !.policy = "blocked"] >>),
    AsRun("c", << [Ev("e1", "c", "step", Text("o1")) EXCEPT !.parent = "e2"],
                  Ev("e2", "c", "step", Text("o1")) >>) }

MCReplies == {[output |-> Text("o2"), tokens |-> 1], [output |-> WithToken("o2"), tokens |-> None]}
Rerun(from, approved, live) ==
  [from |-> from, approved |-> approved, reuse |-> {"e2"}, live |-> live]
MCOptions == {Rerun("e1", {"e2"}, TRUE), Rerun("e1", {"e2"}, FALSE), Rerun("e1", {}, TRUE),
              Rerun("e3", {}, TRUE)}
MCAlike == {<<Text("o1"), Text("o2")>>}
MCComparisons ==
  {[pairs |-> <<<<"a", b1>>>>, limits |-> [m \in {"latency"} |-> 0], grader |-> FALSE, live |-> FALSE],
   [pairs |-> <<<<"a", b1>>>>, limits |-> [m \in {"tokens"} |-> 0], grader |-> TRUE, live |-> TRUE],
   [pairs |-> <<<<"a", b1>>, <<b2, b1>>>>, limits |-> << >>, grader |-> TRUE, live |-> TRUE]}

\* One request compares while another executes: two of a kind only share permits.
Apart == \A r, s \in Requests :
  r # s => job[r].pc = "idle" \/ job[s].pc = "idle"
           \/ (job[r].pc \in {"rerun", "calling"}) # (job[s].pc \in {"rerun", "calling"})

\* b1 goes to the first rerun; forks and a second rerun take b2.
InTurn == \A b \in DOMAIN origins :
  IF b = b1 THEN origins[b].rerun ELSE origins[b].rerun => b1 \in DOMAIN origins

\* The runs with a step bound to the secret or hidden are executed, and compared
\* with nothing.
Alone == {Recorded(<<"token">>, "prompt").events[2].bind, Hidden}
Sole ==
  (\/ \E id \in DOMAIN store : \E i \in DOMAIN store[id].events : store[id].events[i].bind \in Alone
   \/ \E b \in DOMAIN origins : \E i \in DOMAIN origins[b].run.events :
        origins[b].run.events[i].bind \in Alone)
  => \A r \in Requests : job[r].pc \in {"idle", "rerun", "calling"}

Interchangeable == Permutations(Requests)
===============================================================================
