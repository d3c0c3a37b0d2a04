------------------------------ MODULE MCAlerts ------------------------------
(* Two rules about finished traces, of which an event may match one, both  *)
(* or none; a finding; and users who edit a rule and handle the incidents. *)
EXTENDS Alerts

CONSTANTS t1, f1, ann, bob, p1, p2, a1, MaxRequests

MCHandler == 1 .. MaxRequests

MCEventMetrics ==
  [e \in {"finding", "finished"} |->
    IF e = "finding" THEN {"severity"} ELSE {"status", "risk"}]

MCAgentProject == [a \in {a1} |-> p1]

RiskIsHigh  == [metric |-> "risk", accepts |-> {"high"}]
IsError     == [metric |-> "status", accepts |-> {"error"}]
SeverityHigh == [metric |-> "severity", accepts |-> {"high"}]

Rule(condition, project, agent) ==
  [event |-> "finished", condition |-> condition, project |-> project, agent |-> agent,
   status |-> "ACTIVE"]

MCRules == <<Rule(RiskIsHigh, Null, Null), Rule(IsError, p1, Null)>>

(* The first finish of a trace, and a retry after its risk has risen. *)
FinishEvent(risk) ==
  [type |-> "finished", source |-> t1, project |-> p1, agent |-> a1,
   data |-> [m \in {"status", "risk"} |-> IF m = "status" THEN "error" ELSE risk]]

FindingEvent ==
  [type |-> "finding", source |-> f1, project |-> p1, agent |-> a1,
   data |-> [m \in {"severity"} |-> "high"]]

Same ==
  [event |-> Unset, condition |-> Unset, project |-> Unset, agent |-> Unset, status |-> Unset]

Patch(data) == [op |-> "patch", rule |-> 1, data |-> data]

Move(outcome, by) == [op |-> "transition", incident |-> 1, outcome |-> outcome, by |-> by]

MCRequests ==
  { [op |-> "ingest", raised |-> FinishEvent("low")], [op |-> "ingest", raised |-> FinishEvent("high")],
    [op |-> "ingest", raised |-> FindingEvent],
    Patch([Same EXCEPT !.event = "finding", !.condition = SeverityHigh, !.project = p2]),
    Patch([Same EXCEPT !.condition = IsError]),
    Patch([Same EXCEPT !.agent = a1, !.status = "ACTIVE"]),
    [op |-> "create",
     data |-> [event |-> Null, condition |-> SeverityHigh, project |-> Null, agent |-> a1, status |-> Unset]],
    [op |-> "delete", rule |-> 1],
    Move("ACKNOWLEDGED", ann), Move("RESOLVED", bob) }
=============================================================================
