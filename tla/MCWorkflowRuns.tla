--------------------------- MODULE MCWorkflowRuns ---------------------------
(* WorkflowRuns with three steps: a chain over a gate, a fan-out, a cycle, *)
(* and the four ways a template may be refused.                            *)
EXTENDS WorkflowRuns, TLC

CONSTANTS a, b, c

Chart(steps, shared, kind, next, entry) ==
  [steps |-> steps, shared |-> shared, kind |-> kind, next |-> next, entry |-> entry]

Chain == a :> {b} @@ b :> {c} @@ c :> {}
Fan   == a :> {b, c} @@ b :> {} @@ c :> {}
Cycle == a :> {b} @@ b :> {a, c} @@ c :> {}

Tools  == [s \in Steps |-> "tool"]
Gated3 == [Tools EXCEPT ![b] = "gate"]
Plain3 == [Tools EXCEPT ![a] = "plain"]

MCTemplates ==
  {Chart(Steps, FALSE, Gated3, Chain, a), Chart(Steps, FALSE, Plain3, Fan, a),
   Chart(Steps, FALSE, Gated3, Fan, a), Chart(Steps, FALSE, Tools, Cycle, a),
   Chart({}, FALSE, Tools, Chain, a), Chart(Steps, TRUE, Tools, Chain, a),
   Chart({a, b}, FALSE, Tools, Chain, a), Chart({c}, FALSE, Tools, Chain, a)}
=============================================================================
