---------------------------- MODULE TraceEvidence ----------------------------
(***************************************************************************)
(* What the trace receiver promises, without transactions, locks or        *)
(* expiry statements: the evidence of a trace is made of whole batches, of *)
(* one content per span id and without a parent cycle; what is published   *)
(* of a trace is exactly what it held when a batch had joined it; and only *)
(* what a trace held for a day without a batch is ever forgotten, the      *)
(* trace itself only with the last of its spans.                           *)
(***************************************************************************)
EXTENDS FiniteSets

CONSTANTS
  Traces,
  Batches     \* [Traces -> sets of spans that an export may have for a trace]

VARIABLES
  offered,    \* the batches of the requests at work: set of <<trace, batch>>
  evidence,   \* [Traces -> set of spans]
  stale,      \* [Traces -> the spans it held when a day without a batch was over]
  assemblies, \* the traces that are known
  pending,    \* contents accepted and not yet published: set of <<trace, spans>>
  published   \* published contents: set of <<trace, spans>>

vars == <<offered, evidence, stale, assemblies, pending, published>>

\* One content per id.
OneContent(S) == \A s, r \in S : s.id = r.id => s = r

\* No nonempty set of spans in which each has its parent: no cycle. A parent
\* that never arrived ends its chain.
Acyclic(S) ==
  \A C \in SUBSET S : C # {} => \E s \in C : \A r \in C : r.id # s.parent

Consistent(S) == OneContent(S) /\ Acyclic(S)

Init ==
  /\ evidence = [t \in Traces |-> {}]
  /\ stale = [t \in Traces |-> {}]
  /\ offered = {} /\ assemblies = {} /\ pending = {} /\ published = {}

\* Requests end, and others come with a batch for some traces.
Request ==
  /\ \A o \in offered' \ offered : o[1] \in Traces /\ o[2] \in Batches[o[1]]
  /\ UNCHANGED <<evidence, stale, assemblies, pending, published>>

\* A request ends or is done with some of its batches.
Withdraw == offered' \subseteq offered

\* All of a batch joins the evidence of t, which is fresh again, unless it is
\* being forgotten: then what it held before still goes.
Accept(t, batch) ==
  /\ evidence' = [evidence EXCEPT ![t] = @ \union batch]
  /\ Consistent(evidence[t] \union batch)
  /\ assemblies' = assemblies \union {t}
  /\ stale' \in {stale, [stale EXCEPT ![t] = {}]}
  /\ pending' = pending \union {<<t, evidence[t] \union batch>>}
  /\ UNCHANGED <<offered, published>>

\* A content is published; other owners of the same content may remain.
Publish(p) ==
  /\ p \in pending
  /\ published' = published \union {p}
  /\ pending' \in {pending, pending \ {p}}
  /\ Withdraw
  /\ UNCHANGED <<evidence, stale, assemblies>>

\* The process dies before publishing.
Lose(p) ==
  /\ pending' = pending \ {p}
  /\ Withdraw
  /\ UNCHANGED <<evidence, stale, assemblies, published>>

\* A day passes without a batch of t.
Age(t) ==
  /\ t \in assemblies
  /\ stale' = [stale EXCEPT ![t] = evidence[t]]
  /\ UNCHANGED <<offered, evidence, assemblies, pending, published>>

Without(T) == [t \in Traces |-> IF t \in T THEN {} ELSE stale[t]]

\* What is stale is forgotten, of any number of traces at once; those that have
\* nothing else go with it, or stay without spans.
Forget(T, gone) ==
  /\ gone \subseteq T /\ T \subseteq assemblies
  /\ evidence' = [t \in Traces |-> IF t \in T THEN evidence[t] \ stale[t] ELSE evidence[t]]
  /\ \A t \in gone : evidence[t] \subseteq stale[t]
  /\ stale' = Without(T)
  /\ assemblies' = assemblies \ gone
  /\ UNCHANGED <<offered, pending, published>>

\* The forgetting fails; traces that got a batch meanwhile are fresh.
Spare(T) ==
  /\ stale' = Without(T)
  /\ UNCHANGED <<offered, evidence, assemblies, pending, published>>

Next ==
  \/ Request
  \/ \E o \in offered : Accept(o[1], o[2])
  \/ \E t \in Traces : Age(t)
  \/ \E p \in pending : Publish(p) \/ Lose(p)
  \/ \E T \in SUBSET Traces : Spare(T) \/ \E gone \in SUBSET Traces : Forget(T, gone)

Spec == Init /\ [][Next]_vars
==============================================================================
