--------------------------- MODULE MCTraceAssembly ---------------------------
(***************************************************************************)
(* Two handlers, two traces in a tenant that may hold one. The exports: a  *)
(* root; a child that may come before its root, with a second trace in the *)
(* same export; other content for the root that, if the root is not there, *)
(* closes a cycle with the child; other content for it beside a new span,  *)
(* with which the child is more than a trace may hold; and one with an     *)
(* invalid span.                                                           *)
(***************************************************************************)
EXTENDS TraceAssembly

Raw(t, i, p, failed) ==
  [trace |-> t, id |-> i, parent |-> p, failed |-> failed, start |-> 0, end |-> 1]

MCExports ==
  { <<Raw(1, 1, None, FALSE)>>,
    <<Raw(1, 2, 1, TRUE), Raw(2, 1, None, FALSE)>>,
    <<Raw(1, 1, 2, FALSE)>>,
    <<Raw(1, 1, None, TRUE), Raw(1, 3, 1, FALSE)>>,
    <<Raw(1, 2, 1, TRUE), Raw(1, None, 2, FALSE)>> }

MCTelemetryExports == { <<"a">>, <<"a", "a">>, <<"a", "bad">> }

\* Telemetry and traces share no row and no lock: telemetry is explored beside
\* a receiver that has seen no trace yet.
Apart == telemetry = {} \/ avars = <<[t \in Traces |-> {}], [t \in Traces |-> "absent"],
  [t \in Traces |-> "free"], [w \in Writers |-> NoJob], NoExpiry, {}, {}>>

\* A history ends with the fourth content it publishes.
Brief == Cardinality(published) <= 3

Symmetric == Permutations(Writers)
==============================================================================
