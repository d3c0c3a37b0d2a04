------------------------------- MODULE Alerts -------------------------------
(***************************************************************************)
(* Runtime alerts of services/alerts: the rules of one organisation, the   *)
(* evaluation of an event inside the ingest request that raises it, and    *)
(* the incidents users acknowledge and resolve.                            *)
(*                                                                         *)
(* An ingest request holds the incidents it has flushed until it commits.  *)
(* Meanwhile the unique index on dedupe_key makes other INSERTs of the     *)
(* same keys wait.  Incidents and rules are numbered in insertion order.   *)
(***************************************************************************)
EXTENDS Handlers, Sequences, FiniteSets

CONSTANTS
  EventType,       (* security.finding.created and trace.finished           *)
  Finding,         (* the first of the two                                  *)
  Finished,        (* the second                                            *)
  Metric,
  EventMetrics,    (* the metrics of each type of event                     *)
  Value,           (* values of metrics                                     *)
  Project, Agent,
  AgentProject,    (* the project of each agent                             *)
  Source,          (* ids of findings and traces                            *)
  User,            (* users with at least the role ANALYST                  *)
  StoredRules,     (* the table alert_rules at the start                    *)
  Unset            (* a column that a PATCH does not name                   *)

(* A condition accepts some values of its metric, whatever the operator.   *)
Condition == [metric : Metric, accepts : SUBSET Value]

RuleStatus == {"ACTIVE", "INACTIVE"}

RuleRow ==
  [event : EventType, condition : Condition, project : Project \cup {Null},
   agent : Agent \cup {Null}, status : RuleStatus]

IncidentStatus == {"OPEN", "ACKNOWLEDGED", "RESOLVED"}

IncidentRow ==
  [rule : Nat, source : Source, status : IncidentStatus,
   acknowledgedBy : User \cup {Null}, resolvedBy : User \cup {Null}]

Event ==
  [type : EventType, source : Source, project : Project, agent : Agent \cup {Null},
   data : UNION {[M -> Value] : M \in SUBSET Metric}]

RuleData ==
  [event : EventType \cup {Null, Unset}, condition : Condition \cup {Null, Unset},
   project : Project \cup {Null, Unset}, agent : Agent \cup {Null, Unset},
   status : RuleStatus \cup {Unset}]

Body ==
  [op : {"ingest"}, raised : Event]
  \cup [op : {"create"}, data : RuleData]
  \cup [op : {"patch"}, rule : Nat, data : RuleData]
  \cup [op : {"delete"}, rule : Nat]
  \cup [op : {"transition"}, incident : Nat, outcome : {"ACKNOWLEDGED", "RESOLVED"}, by : User]

ASSUME AlertsAssumption ==
  /\ EventType = {Finding, Finished}
  /\ EventMetrics \in [EventType -> SUBSET Metric]
  /\ AgentProject \in [Agent -> Project]
  /\ StoredRules \in Seq(RuleRow)
  /\ Handler \subseteq Nat
  /\ Requests \subseteq Body

VARIABLES
  rules,         (* the table alert_rules                                   *)
  ruleLog,       (* the audit entries of each rule                          *)
  incidents,     (* the table alert_incidents                               *)
  incidentLog    (* the audit entries of each incident                      *)

alertTables == <<rules, ruleLog, incidents, incidentLog>>
vars        == <<rules, ruleLog, incidents, incidentLog, pc, req, work, resp, overlap>>

Init ==
  /\ HandlersInit
  /\ rules = StoredRules
  /\ ruleLog = [r \in DOMAIN StoredRules |-> <<StoredRules[r].status>>]
  /\ incidents = << >>
  /\ incidentLog = << >>

(* Requests are numbered in the order they arrive. *)
Arrive(h, q) ==
  /\ \A g \in Handler : g < h => pc[g] # "idle"
  /\ Receive(h, q)
  /\ UNCHANGED alertTables

-----------------------------------------------------------------------------
(* Rules *)

EventForMetric(m) == IF m \in EventMetrics[Finding] THEN Finding ELSE Finished

Given(value, current) == IF value = Unset THEN current ELSE value

(* normalize_rule_data: an event that is null is inferred from the metric. *)
EventOf(data, current) ==
  LET event     == Given(data.event, current.event)
      condition == Given(data.condition, current.condition)
  IN  IF event = Null /\ condition # Null THEN EventForMetric(condition.metric) ELSE event

Compatible(event, condition) ==
  event # Null /\ condition # Null /\ condition.metric \in EventMetrics[event]

InScope(project, agent) ==
  project = Null \/ agent = Null \/ AgentProject[agent] = project

Changed(data, current) ==
  [event     |-> EventOf(data, current),
   condition |-> Given(data.condition, current.condition),
   project   |-> Given(data.project, current.project),
   agent     |-> Given(data.agent, current.agent),
   status    |-> Given(data.status, current.status)]

Valid(row) == Compatible(row.event, row.condition) /\ InScope(row.project, row.agent)

NoRule ==
  [event |-> Null, condition |-> Null, project |-> Null, agent |-> Null, status |-> "ACTIVE"]

LogRule(r, status) == ruleLog' = [ruleLog EXCEPT ![r] = Append(@, status)]

CreateRule(h) ==
  LET row == Changed(req[h].data, NoRule) IN
  /\ pc[h] = "load" /\ req[h].op = "create"
  /\ IF Valid(row)
       THEN /\ rules' = Append(rules, row)
            /\ ruleLog' = Append(ruleLog, <<row.status>>)
            /\ Respond(h, 201, Len(rules) + 1)
       ELSE Respond(h, 422, Null) /\ UNCHANGED <<rules, ruleLog>>
  /\ UNCHANGED <<incidents, incidentLog>>

(* Bug variant of RuleLoad: the scope is not validated again.              *)
RuleLoadNoScope(h) ==
  LET q == req[h]
      new == Changed(q.data, rules[q.rule])
  IN
  /\ pc[h] = "load" /\ q.op \in {"patch", "delete"}
  /\ IF q.rule \notin DOMAIN rules THEN Respond(h, 404, Null)
     ELSE IF q.op = "patch" /\ ~ Compatible(new.event, new.condition) THEN Respond(h, 422, Null)
     ELSE Continue(h, "commit", rules[q.rule])
  /\ UNCHANGED alertTables

(* update_rule and delete_rule load the row they work on. *)
RuleLoad(h) ==
  LET q == req[h] IN
  /\ pc[h] = "load" /\ q.op \in {"patch", "delete"}
  /\ IF q.rule \notin DOMAIN rules THEN Respond(h, 404, Null)
     ELSE IF q.op = "patch" /\ ~ Valid(Changed(q.data, rules[q.rule])) THEN Respond(h, 422, Null)
     ELSE Continue(h, "commit", rules[q.rule])
  /\ UNCHANGED alertTables

(* Only the columns that differ from the loaded row are written. *)
Written(loaded, new, stored) ==
  [f \in DOMAIN stored |-> IF new[f] # loaded[f] THEN new[f] ELSE stored[f]]

UpdateRule(h) ==
  LET q   == req[h]
      new == Changed(q.data, work[h])
  IN
  /\ pc[h] = "commit" /\ q.op = "patch"
  /\ rules' = [rules EXCEPT ![q.rule] = Written(work[h], new, @)]
  /\ LogRule(q.rule, new.status)
  /\ Respond(h, 200, q.rule)
  /\ UNCHANGED <<incidents, incidentLog>>

(* A rule is deactivated, never deleted. *)
DeleteRule(h) ==
  LET q   == req[h]
      new == [work[h] EXCEPT !.status = "INACTIVE"]
  IN
  /\ pc[h] = "commit" /\ q.op = "delete"
  /\ rules' = [rules EXCEPT ![q.rule] = Written(work[h], new, @)]
  /\ LogRule(q.rule, "INACTIVE")
  /\ Respond(h, 204, Null)
  /\ UNCHANGED <<incidents, incidentLog>>

-----------------------------------------------------------------------------
(* Evaluation of an event *)

(* _matching_rules, normalize_condition and _condition_matches. *)
Matches(rule, e) ==
  /\ rule.status = "ACTIVE" /\ rule.event = e.type
  /\ rule.project \in {Null, e.project} /\ rule.agent \in {Null, e.agent}
  /\ Compatible(rule.event, rule.condition)
  /\ rule.condition.metric \in DOMAIN e.data
  /\ e.data[rule.condition.metric] \in rule.condition.accepts

IncidentsOf(r, s) == {i \in DOMAIN incidents : incidents[i].rule = r /\ incidents[i].source = s}

(* The request whose uncommitted incident has the key of rule r and s. *)
Holds(g, r, s) ==
  /\ Busy(g) /\ req[g].op = "ingest" /\ req[g].raised.source = s
  /\ work[g] # Null /\ \E n \in DOMAIN work[g].mine : work[g].mine[n] = r

MatchRules(h) ==
  LET matched == {r \in DOMAIN rules : Matches(rules[r], req[h].raised)} IN
  /\ pc[h] = "load" /\ req[h].op = "ingest"
  /\ Continue(h, "scan", [owed |-> matched, due |-> matched, rule |-> Null, mine |-> << >>])
  /\ UNCHANGED alertTables

(* The rule in hand is done with, with or without an incident of its own. *)
Settle(h, mine) ==
  Continue(h, "scan", [work[h] EXCEPT !.due = @ \ {work[h].rule}, !.rule = Null, !.mine = mine])

(* The rules come in no particular order.  The probe sees what has been    *)
(* committed.                                                              *)
ProbeIncident(h) ==
  /\ pc[h] = "scan" /\ req[h].op = "ingest"
  /\ \E r \in work[h].due :
       IF IncidentsOf(r, req[h].raised.source) # {}
         THEN Continue(h, "scan", [work[h] EXCEPT !.due = @ \ {r}])
         ELSE Continue(h, "check", [work[h] EXCEPT !.rule = r])
  /\ UNCHANGED alertTables

Flushing(h) == pc[h] = "check" /\ req[h].op = "ingest"

Waits(h, g) == g # h /\ Flushing(h) /\ Holds(g, work[h].rule, req[h].raised.source)

(* Bug variant of FlushIncident: a key that is not committed is a duplicate. *)
FlushWithoutWait(h) ==
  /\ Flushing(h)
  /\ Settle(h, IF \E g \in Handler : Waits(h, g) THEN work[h].mine ELSE Append(work[h].mine, work[h].rule))
  /\ UNCHANGED alertTables

(* The INSERT waits for those of the same key.  If one was committed, its  *)
(* IntegrityError ends the savepoint and the request goes on.              *)
FlushIncident(h) ==
  /\ Flushing(h) /\ ~ \E g \in Handler : Waits(h, g)
  /\ Settle(h, IF IncidentsOf(work[h].rule, req[h].raised.source) # {}
                 THEN work[h].mine ELSE Append(work[h].mine, work[h].rule))
  /\ UNCHANGED alertTables

(* Bug variant of Victim: nothing breaks a circle of waiting INSERTs.      *)
VictimNever(h) == FALSE

(* PostgreSQL fails one of a circle of waiting INSERTs, and the evaluation *)
(* of that rule is given up in its savepoint.                              *)
Victim(h) ==
  /\ Flushing(h)
  /\ \E S \in SUBSET Handler :
       h \in S /\ \A g \in S : (\E f \in S : Waits(g, f)) /\ (\E f \in S : Waits(f, g))
  /\ Continue(h, "scan",
       [work[h] EXCEPT !.owed = @ \ {work[h].rule}, !.due = @ \ {work[h].rule}, !.rule = Null])
  /\ UNCHANGED alertTables

NewIncidents(h) ==
  [n \in DOMAIN work[h].mine |->
    [rule |-> work[h].mine[n], source |-> req[h].raised.source, status |-> "OPEN",
     acknowledgedBy |-> Null, resolvedBy |-> Null]]

(* Bug variant of IngestCommit: the audit entry is not in the transaction. *)
IngestCommitUnlogged(h) ==
  /\ pc[h] = "scan" /\ req[h].op = "ingest" /\ work[h].due = {}
  /\ incidents' = incidents \o NewIncidents(h)
  /\ incidentLog' = incidentLog \o [n \in DOMAIN work[h].mine |-> << >>]
  /\ Respond(h, 200, Null)
  /\ UNCHANGED <<rules, ruleLog>>

IngestCommit(h) ==
  /\ pc[h] = "scan" /\ req[h].op = "ingest" /\ work[h].due = {}
  /\ incidents' = incidents \o NewIncidents(h)
  /\ incidentLog' = incidentLog \o [n \in DOMAIN work[h].mine |-> <<"OPEN">>]
  /\ Respond(h, 200, Null)
  /\ UNCHANGED <<rules, ruleLog>>

-----------------------------------------------------------------------------
(* Incidents *)

IncidentLoad(h) ==
  /\ pc[h] = "load" /\ req[h].op = "transition"
  /\ IF req[h].incident \in DOMAIN incidents THEN Continue(h, "commit", Null)
     ELSE Respond(h, 404, Null)
  /\ UNCHANGED alertTables

(* Bug variant of Allowed: what was resolved may be acknowledged.          *)
AllowedAlways(outcome) == IncidentStatus \ {outcome}

Allowed(outcome) == IF outcome = "ACKNOWLEDGED" THEN {"OPEN"} ELSE {"OPEN", "ACKNOWLEDGED"}

(* The conditional UPDATE decides, and its audit entry commits with it. *)
Transition(h) ==
  LET q == req[h] IN
  /\ pc[h] = "commit" /\ q.op = "transition"
  /\ IF incidents[q.incident].status \notin Allowed(q.outcome)
       THEN Respond(h, 409, Null) /\ UNCHANGED <<incidents, incidentLog>>
     ELSE /\ incidents' = [incidents EXCEPT ![q.incident] =
                 IF q.outcome = "ACKNOWLEDGED"
                   THEN [@ EXCEPT !.status = q.outcome, !.acknowledgedBy = q.by]
                   ELSE [@ EXCEPT !.status = q.outcome, !.resolvedBy = q.by]]
          /\ incidentLog' = [incidentLog EXCEPT ![q.incident] = Append(@, q.outcome)]
          /\ Respond(h, 200, q.incident)
  /\ UNCHANGED <<rules, ruleLog>>

Abort(h) == Die(h) /\ UNCHANGED alertTables

-----------------------------------------------------------------------------
Serve(h) ==
  \/ CreateRule(h) \/ RuleLoad(h) \/ UpdateRule(h) \/ DeleteRule(h)
  \/ MatchRules(h) \/ ProbeIncident(h) \/ FlushIncident(h) \/ Victim(h) \/ IngestCommit(h)
  \/ IncidentLoad(h) \/ Transition(h)

Next ==
  \/ \E h \in Handler, q \in Requests : Arrive(h, q)
  \/ \E h \in Handler : Serve(h) \/ Abort(h)

Spec == Init /\ [][Next]_vars

(* The event loop runs every request, and PostgreSQL looks for circles of  *)
(* waiting statements (deadlock_timeout).                                  *)
FairSpec == Spec /\ \A h \in Handler : WF_vars(Serve(h))

-----------------------------------------------------------------------------
(* Properties *)

IngestSession ==
  [owed : SUBSET Nat, due : SUBSET Nat, rule : Nat \cup {Null}, mine : Seq(Nat)]

Session == RuleRow \cup IngestSession

ASSUME AlertsNullAssumption == Null \notin User \cup Session

(* An ingest request that commits leaves an incident of every rule that    *)
(* matched its event, its own or another's, unless it had to be taken out  *)
(* of a circle of waiting requests.                                        *)
MatchesAreRaised ==
  [][\A h \in Handler :
       pc[h] = "scan" /\ pc'[h] = "done" /\ resp'[h].http = 200 =>
         \A r \in work[h].owed :
           \E i \in DOMAIN incidents' :
             incidents'[i].rule = r /\ incidents'[i].source = req[h].raised.source]_vars

(* "Resolution is terminal" (docs/architecture/runtime-alerts.md), and who *)
(* acknowledged or resolved an incident stays on it, whoever else tries.   *)
IncidentsMoveOn ==
  [][\A i \in DOMAIN incidents :
       LET old == incidents[i]
           new == incidents'[i]
       IN
       /\ new.rule = old.rule /\ new.source = old.source
       /\ old.status = "RESOLVED" => new = old
       /\ old.status = "ACKNOWLEDGED" =>
            new.status # "OPEN" /\ new.acknowledgedBy = old.acknowledgedBy]_incidents

(* Tables and sessions keep their shape.                                   *)
AlertsTypeOK ==
  /\ HandlersTypeOK(Session)
  /\ DOMAIN rules \subseteq Nat
  /\ incidents \in Seq(IncidentRow)

(* The steps the audit log should tell of an incident.                     *)
Trail(row) ==
  <<"OPEN">> \o (IF row.acknowledgedBy # Null THEN <<"ACKNOWLEDGED">> ELSE << >>)
           \o (IF row.resolvedBy # Null THEN <<"RESOLVED">> ELSE << >>)

(* An event of a source leaves one incident of a rule, however often its   *)
(* request is retried, and the audit log tells what became of it, step by  *)
(* step.                                                                   *)
LogTellsIncident ==
  /\ AlertsTypeOK
  /\ \A i, j \in DOMAIN incidents :
       incidents[i].rule = incidents[j].rule /\ incidents[i].source = incidents[j].source => i = j
  /\ DOMAIN incidentLog = DOMAIN incidents
  /\ \A i \in DOMAIN incidents :
       /\ incidentLog[i] = Trail(incidents[i])
       /\ incidents[i].status = incidentLog[i][Len(incidentLog[i])]

(* "Rules are validated when created or updated, including event           *)
(* compatibility and project or agent tenancy" (docs/architecture/runtime- *)
(* alerts.md): no rule is stored that can never match.                     *)
RulesAreValid == \A r \in DOMAIN rules : Valid(rules[r])

(* The rules at the start were created with that validation.               *)
ASSUME StoredRulesAssumption == \A r \in DOMAIN StoredRules : Valid(StoredRules[r])

(* So it is as long as no two updates overlap; and the last audit entry of *)
(* a rule then tells whether it is active.                                 *)
RulesStayValid ==
  Quiet =>
    /\ RulesAreValid
    /\ \A r \in DOMAIN rules : rules[r].status = ruleLog[r][Len(ruleLog[r])]

(* Every request is answered, even when the INSERTs of several wait for    *)
(* each other.                                                             *)
EveryRequestIsAnswered == \A h \in Handler : Busy(h) ~> pc[h] = "done"
=============================================================================
