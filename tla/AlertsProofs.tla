---------------------------- MODULE AlertsProofs ----------------------------
(***************************************************************************)
(* Proofs, for every value of the constants, of the safety properties of   *)
(* Alerts.  An ingest request holds incidents that nobody else sees until  *)
(* it commits: that an event leaves one incident of a rule rests on what   *)
(* the sessions of all requests hold together (KeysFit).                   *)
(***************************************************************************)
EXTENDS Alerts, SequenceTheorems, TLAPS

Tables ==
  /\ rules \in Seq(RuleRow)
  /\ ruleLog \in Seq(Seq(RuleStatus)) /\ Len(ruleLog) = Len(rules)
  /\ \A r \in DOMAIN ruleLog : ruleLog[r] # << >>
  /\ incidentLog \in Seq(Seq(IncidentStatus)) /\ Len(incidentLog) = Len(incidents)

(* A request holds incidents, or is about to flush one.                    *)
Ingesting(h) == pc[h] \in {"scan", "check"}

(* What a request in progress relies on, whoever else is in progress.      *)
RequestFits(h) ==
  /\ pc[h] # "idle" => req[h] \in Requests
  /\ Ingesting(h) => req[h].op = "ingest" /\ work[h] \in IngestSession
  /\ pc[h] = "check" => work[h].rule \in Nat
  /\ pc[h] = "commit" => req[h].op \in {"patch", "delete", "transition"}
  /\ pc[h] = "commit" /\ req[h].op \in {"patch", "delete"} =>
       work[h] \in RuleRow /\ req[h].rule \in DOMAIN rules
  /\ pc[h] = "commit" /\ req[h].op = "patch" => Valid(Changed(req[h].data, work[h]))
  /\ pc[h] = "commit" /\ req[h].op = "transition" => req[h].incident \in DOMAIN incidents

RequestsFit == \A h \in Handler : RequestFits(h)

Basics == AlertsTypeOK /\ Tables /\ RequestsFit

(* What the body of each operation names.                                  *)
LEMMA OpFacts ==
  ASSUME NEW q \in Requests
  PROVE  /\ q.op \in {"ingest", "create", "patch", "delete", "transition"}
         /\ q.op = "ingest" => q.raised \in Event
         /\ q.op \in {"create", "patch"} => q.data \in RuleData
         /\ q.op \in {"patch", "delete"} => q.rule \in Nat
         /\ q.op = "transition" =>
              q.incident \in Nat /\ q.outcome \in {"ACKNOWLEDGED", "RESOLVED"} /\ q.by \in User
BY AlertsAssumption DEF Body

(* A rule made of the data of a request and the row it changes is a row.   *)
LEMMA ChangedRow ==
  ASSUME NEW data \in RuleData, NEW current, current = NoRule \/ current \in RuleRow,
         Valid(Changed(data, current))
  PROVE  Changed(data, current) \in RuleRow
<1> DEFINE row == Changed(data, current)
<1>1. /\ current.event \in EventType \cup {Null} /\ current.condition \in Condition \cup {Null}
      /\ current.project \in Project \cup {Null} /\ current.agent \in Agent \cup {Null}
      /\ current.status \in RuleStatus
  BY DEF NoRule, RuleRow, RuleStatus
<1>2. /\ data.event \in EventType \cup {Null, Unset} /\ data.condition \in Condition \cup {Null, Unset}
      /\ data.project \in Project \cup {Null, Unset} /\ data.agent \in Agent \cup {Null, Unset}
      /\ data.status \in RuleStatus \cup {Unset}
  BY DEF RuleData
<1>3. /\ Given(data.event, current.event) \in EventType \cup {Null}
      /\ Given(data.condition, current.condition) \in Condition \cup {Null}
      /\ Given(data.project, current.project) \in Project \cup {Null}
      /\ Given(data.agent, current.agent) \in Agent \cup {Null}
      /\ Given(data.status, current.status) \in RuleStatus
  BY <1>1, <1>2 DEF Given
<1>4. EventOf(data, current) \in EventType \cup {Null}
  BY <1>3, AlertsAssumption DEF EventOf, EventForMetric
<1>5. row = [event |-> EventOf(data, current), condition |-> Given(data.condition, current.condition),
             project |-> Given(data.project, current.project), agent |-> Given(data.agent, current.agent),
             status |-> Given(data.status, current.status)]
  BY DEF Changed
<1>6. row.event # Null /\ row.condition # Null
  BY DEF Valid, Compatible
<1> QED
  BY <1>3, <1>4, <1>5, <1>6 DEF RuleRow

(* What is written of a row that is still the one loaded is the new row.   *)
LEMMA WrittenRow ==
  ASSUME NEW loaded \in RuleRow, NEW new \in RuleRow, NEW stored \in RuleRow
  PROVE  /\ Written(loaded, new, stored) \in RuleRow
         /\ loaded = stored => Written(loaded, new, stored) = new
<1>1. DOMAIN stored = {"event", "condition", "project", "agent", "status"}
  BY DEF RuleRow
<1>2. Written(loaded, new, stored) =
        [event |-> IF new.event # loaded.event THEN new.event ELSE stored.event,
         condition |-> IF new.condition # loaded.condition THEN new.condition ELSE stored.condition,
         project |-> IF new.project # loaded.project THEN new.project ELSE stored.project,
         agent |-> IF new.agent # loaded.agent THEN new.agent ELSE stored.agent,
         status |-> IF new.status # loaded.status THEN new.status ELSE stored.status]
  BY <1>1 DEF Written
<1> QED
  BY <1>2 DEF RuleRow

(* A step of a request moves that request alone: on with a session, or to  *)
(* its answer.                                                             *)
LEMMA ServeMovesOne ==
  ASSUME NEW h \in Handler, Serve(h) \/ Abort(h)
  PROVE  /\ Busy(h) /\ req' = req /\ overlap' = overlap
         /\ \/ \E l \in {"check", "scan", "commit"} : \E w :
                 /\ pc' = [pc EXCEPT ![h] = l] /\ work' = [work EXCEPT ![h] = w] /\ resp' = resp
            \/ \E a : /\ pc' = [pc EXCEPT ![h] = "done"] /\ work' = [work EXCEPT ![h] = Null]
                      /\ resp' = [resp EXCEPT ![h] = a]
<1> USE DEF Busy, Continue, Respond
<1>1. CASE CreateRule(h) \/ RuleLoad(h) \/ UpdateRule(h) \/ DeleteRule(h)
  BY <1>1 DEF CreateRule, RuleLoad, UpdateRule, DeleteRule
<1>2. CASE MatchRules(h) \/ ProbeIncident(h) \/ FlushIncident(h) \/ Victim(h) \/ IngestCommit(h)
  BY <1>2 DEF MatchRules, ProbeIncident, FlushIncident, Flushing, Settle, Victim, IngestCommit
<1>3. CASE IncidentLoad(h) \/ Transition(h)
  BY <1>3 DEF IncidentLoad, Transition
<1>4. CASE Abort(h)
  BY <1>4 DEF Abort, Die
<1> QED
  BY <1>1, <1>2, <1>3, <1>4 DEF Serve

(* Rows of rules and incidents are never removed.                          *)
TablesStay == DOMAIN rules \subseteq DOMAIN rules' /\ DOMAIN incidents \subseteq DOMAIN incidents'

TablesOK == Tables /\ DOMAIN rules \subseteq Nat /\ incidents \in Seq(IncidentRow)

LEMMA At ==
  ASSUME Basics, NEW h \in Handler, pc[h] # "idle"
  PROVE  /\ req[h] \in Requests /\ RequestFits(h) /\ TablesOK
         /\ pc \in [Handler -> {"idle", "load", "check", "scan", "commit", "done"}]
         /\ work \in [Handler -> Session \cup {Null}]
BY DEF Basics, RequestsFit, RequestFits, AlertsTypeOK, HandlersTypeOK, TablesOK

LEMMA NoTables ==
  ASSUME Basics, UNCHANGED alertTables
  PROVE  TablesStay /\ TablesOK'
BY DEF alertTables, TablesStay, TablesOK, Tables, Basics, AlertsTypeOK

(* A request moves on: what it then relies on is all that is left to show. *)
LEMMA MoveOn ==
  ASSUME Basics, NEW h \in Handler, Serve(h) \/ Abort(h),
         NEW l \in {"check", "scan", "commit"}, NEW w, Continue(h, l, w),
         w \in Session \cup {Null}, TablesOK', TablesStay,
         l \in {"check", "scan"} => req[h].op = "ingest" /\ w \in IngestSession,
         l = "check" => w.rule \in Nat,
         l = "commit" => req[h].op \in {"patch", "delete", "transition"},
         l = "commit" /\ req[h].op \in {"patch", "delete"} => w \in RuleRow /\ req[h].rule \in DOMAIN rules,
         l = "commit" /\ req[h].op = "patch" => Valid(Changed(req[h].data, w)),
         l = "commit" /\ req[h].op = "transition" => req[h].incident \in DOMAIN incidents
  PROVE  Basics'
<1>1. /\ pc' = [pc EXCEPT ![h] = l] /\ work' = [work EXCEPT ![h] = w]
      /\ UNCHANGED <<req, resp, overlap>> /\ Busy(h)
  BY ServeMovesOne DEF Continue
<1>2. AlertsTypeOK' /\ Tables'
  BY <1>1 DEF Basics, AlertsTypeOK, HandlersTypeOK, TablesOK
<1>3. /\ pc'[h] = l /\ work'[h] = w
      /\ \A g \in Handler : g # h => pc'[g] = pc[g] /\ work'[g] = work[g]
  BY <1>1 DEF Basics, AlertsTypeOK, HandlersTypeOK
<1>4. ASSUME NEW g \in Handler, g # h PROVE RequestFits(g)'
  BY <1>1, <1>3, <1>4 DEF Basics, RequestsFit, RequestFits, Ingesting, TablesStay
<1>5. RequestFits(h)'
  BY <1>1, <1>3 DEF Basics, RequestsFit, RequestFits, Ingesting, Busy, TablesStay
<1> QED
  BY <1>2, <1>4, <1>5 DEF Basics, RequestsFit

(* A request is answered. *)
LEMMA Done ==
  ASSUME Basics, NEW h \in Handler, Serve(h) \/ Abort(h),
         NEW c \in {200, 201, 204, 404, 409, 422, 500}, NEW row, Respond(h, c, row),
         row = Null \/ row \in Nat, TablesOK', TablesStay
  PROVE  Basics'
<1>1. /\ pc' = [pc EXCEPT ![h] = "done"] /\ work' = [work EXCEPT ![h] = Null]
      /\ resp' = [resp EXCEPT ![h] = [http |-> c, row |-> row]]
      /\ UNCHANGED <<req, overlap>> /\ Busy(h)
  BY ServeMovesOne DEF Respond
<1>2. AlertsTypeOK' /\ Tables'
  BY <1>1 DEF Basics, AlertsTypeOK, HandlersTypeOK, TablesOK, Answer
<1>3. /\ pc'[h] = "done"
      /\ \A g \in Handler : g # h => pc'[g] = pc[g] /\ work'[g] = work[g]
  BY <1>1 DEF Basics, AlertsTypeOK, HandlersTypeOK
<1>4. ASSUME NEW g \in Handler, g # h PROVE RequestFits(g)'
  BY <1>1, <1>3, <1>4 DEF Basics, RequestsFit, RequestFits, Ingesting, TablesStay
<1>5. RequestFits(h)'
  BY <1>1, <1>3 DEF Basics, RequestsFit, RequestFits, Ingesting, Busy
<1> QED
  BY <1>2, <1>4, <1>5 DEF Basics, RequestsFit

-----------------------------------------------------------------------------
(* Rules *)

LEMMA AppendRule ==
  ASSUME TablesOK, NEW row \in RuleRow, rules' = Append(rules, row),
         ruleLog' = Append(ruleLog, <<row.status>>), UNCHANGED <<incidents, incidentLog>>
  PROVE  /\ TablesOK' /\ TablesStay
         /\ DOMAIN rules' = DOMAIN rules \cup {Len(rules) + 1}
         /\ rules'[Len(rules) + 1] = row /\ ruleLog'[Len(rules) + 1] = <<row.status>>
         /\ \A r \in DOMAIN rules : rules'[r] = rules[r] /\ ruleLog'[r] = ruleLog[r]
<1>1. /\ rules \in Seq(RuleRow) /\ ruleLog \in Seq(Seq(RuleStatus)) /\ Len(ruleLog) = Len(rules)
      /\ <<row.status>> \in Seq(RuleStatus)
  BY DEF TablesOK, Tables, RuleRow
<1>2. /\ rules' \in Seq(RuleRow) /\ Len(rules') = Len(rules) + 1
      /\ ruleLog' \in Seq(Seq(RuleStatus)) /\ Len(ruleLog') = Len(rules) + 1
  BY <1>1
<1>3. /\ DOMAIN rules' = DOMAIN rules \cup {Len(rules) + 1}
      /\ DOMAIN ruleLog' = DOMAIN rules'
      /\ rules'[Len(rules) + 1] = row /\ ruleLog'[Len(rules) + 1] = <<row.status>>
      /\ \A r \in DOMAIN rules : rules'[r] = rules[r] /\ ruleLog'[r] = ruleLog[r]
  BY <1>1, <1>2
<1>4. \A r \in DOMAIN ruleLog' : ruleLog'[r] # << >>
  <2>1. DOMAIN ruleLog = DOMAIN rules
    BY <1>1
  <2> QED
    BY <1>3, <2>1 DEF TablesOK, Tables
<1> QED
  BY <1>2, <1>3, <1>4 DEF TablesOK, Tables, TablesStay

LEMMA SetRule ==
  ASSUME TablesOK, NEW r \in DOMAIN rules, NEW row \in RuleRow, NEW status \in RuleStatus,
         rules' = [rules EXCEPT ![r] = row], LogRule(r, status), UNCHANGED <<incidents, incidentLog>>
  PROVE  /\ TablesOK' /\ TablesStay
         /\ DOMAIN rules' = DOMAIN rules
         /\ rules'[r] = row /\ ruleLog'[r] = Append(ruleLog[r], status) /\ ruleLog[r] \in Seq(RuleStatus)
         /\ \A k \in DOMAIN rules : k # r => rules'[k] = rules[k] /\ ruleLog'[k] = ruleLog[k]
<1>1. /\ rules \in Seq(RuleRow) /\ ruleLog \in Seq(Seq(RuleStatus)) /\ Len(ruleLog) = Len(rules)
      /\ DOMAIN rules = 1 .. Len(rules) /\ DOMAIN ruleLog = 1 .. Len(rules) /\ r \in 1 .. Len(rules)
  BY DEF TablesOK, Tables
<1>2. ruleLog[r] \in Seq(RuleStatus) /\ Append(ruleLog[r], status) \in Seq(RuleStatus)
      /\ Append(ruleLog[r], status) # << >>
  BY <1>1, SMTT(30)
<1>3. ruleLog' = [ruleLog EXCEPT ![r] = Append(ruleLog[r], status)]
  BY DEF LogRule
<1> DEFINE log == Append(ruleLog[r], status)
<1> HIDE DEF log
<1>4. /\ rules' \in Seq(RuleRow) /\ Len(rules') = Len(rules)
      /\ rules'[r] = row /\ \A k \in DOMAIN rules : k # r => rules'[k] = rules[k]
  BY <1>1, ExceptSeq
<1>5. /\ ruleLog' \in Seq(Seq(RuleStatus)) /\ Len(ruleLog') = Len(ruleLog)
      /\ ruleLog'[r] = log /\ \A k \in DOMAIN rules : k # r => ruleLog'[k] = ruleLog[k]
  BY <1>1, <1>2, <1>3, ExceptSeq DEF log
<1>6. DOMAIN rules' = DOMAIN rules /\ DOMAIN ruleLog' = DOMAIN ruleLog
  BY <1>1, <1>4, <1>5
<1>7. \A k \in DOMAIN ruleLog' : ruleLog'[k] # << >>
  BY <1>1, <1>2, <1>5, <1>6 DEF TablesOK, Tables, log
<1> QED
  BY <1>1, <1>2, <1>4, <1>5, <1>6, <1>7 DEF TablesOK, Tables, TablesStay, log

LEMMA RuleBasics ==
  ASSUME Basics, NEW h \in Handler, CreateRule(h) \/ RuleLoad(h) \/ UpdateRule(h) \/ DeleteRule(h)
  PROVE  Basics'
<1> DEFINE q == req[h]
<1>1. /\ pc[h] \in {"load", "commit"} /\ q.op \in {"create", "patch", "delete"} /\ Serve(h)
      /\ q \in Requests /\ RequestFits(h) /\ TablesOK
  BY At DEF CreateRule, RuleLoad, UpdateRule, DeleteRule, Serve
<1>2. ASSUME NEW c \in {200, 201, 204, 404, 422}, NEW row, Respond(h, c, row),
             row = Null \/ row \in Nat, TablesOK', TablesStay
      PROVE  Basics'
  BY <1>1, <1>2, Done
<1>3. CASE CreateRule(h)
  <2> DEFINE row == Changed(q.data, NoRule)
  <2>1. q.data \in RuleData
    BY <1>1, <1>3, OpFacts DEF CreateRule
  <2>2. CASE Valid(row)
    <3>1. row \in RuleRow
      BY <2>1, <2>2, ChangedRow
    <3>2. /\ rules' = Append(rules, row) /\ ruleLog' = Append(ruleLog, <<row.status>>)
          /\ UNCHANGED <<incidents, incidentLog>> /\ Respond(h, 201, Len(rules) + 1)
      BY <1>3, <2>2 DEF CreateRule
    <3> HIDE DEF row
    <3>3. TablesOK' /\ TablesStay
      BY <1>1, <3>1, <3>2, AppendRule
    <3>4. Len(rules) + 1 \in Nat
      BY <1>1 DEF TablesOK, Tables
    <3> QED
      BY <1>2, <3>2, <3>3, <3>4
  <2>3. CASE ~ Valid(row)
    <3>1. UNCHANGED alertTables /\ Respond(h, 422, Null)
      BY <1>3, <2>3 DEF CreateRule, alertTables
    <3> QED
      BY <1>2, <3>1, NoTables
  <2> QED
    BY <2>2, <2>3
<1>4. CASE RuleLoad(h)
  <2>1. UNCHANGED alertTables /\ q.op \in {"patch", "delete"}
    BY <1>4 DEF RuleLoad
  <2>2. CASE Respond(h, 404, Null) \/ Respond(h, 422, Null)
    <3>1. TablesOK' /\ TablesStay
      BY <2>1, NoTables
    <3> QED
      BY <1>2, <2>2, <3>1
  <2>3. CASE /\ Continue(h, "commit", rules[q.rule]) /\ q.rule \in DOMAIN rules
             /\ q.op = "patch" => Valid(Changed(q.data, rules[q.rule]))
    <3>1. rules[q.rule] \in RuleRow
      BY <1>1, <2>3 DEF TablesOK, Tables
    <3> DEFINE w == rules[q.rule]
    <3>2. /\ w \in RuleRow /\ w \in Session /\ Continue(h, "commit", w)
          /\ q.op = "patch" => Valid(Changed(q.data, w))
      BY <2>3, <3>1 DEF Session
    <3> HIDE DEF w
    <3> QED
      BY <1>1, <2>1, <2>3, <3>2, NoTables, MoveOn
  <2> QED
    BY <1>4, <2>2, <2>3 DEF RuleLoad
<1>5. CASE UpdateRule(h) \/ DeleteRule(h)
  <2>1. PICK new \in RuleRow, status \in RuleStatus :
          /\ rules' = [rules EXCEPT ![q.rule] = Written(work[h], new, @)] /\ LogRule(q.rule, status)
    <3>1. CASE UpdateRule(h)
      <4> DEFINE new == Changed(q.data, work[h])
      <4>1. q.data \in RuleData /\ work[h] \in RuleRow /\ Valid(new)
        BY <1>1, <3>1, OpFacts DEF UpdateRule, RequestFits
      <4>2. new \in RuleRow
        BY <4>1, ChangedRow
      <4>3. rules' = [rules EXCEPT ![q.rule] = Written(work[h], new, @)] /\ LogRule(q.rule, new.status)
        BY <3>1 DEF UpdateRule
      <4>4. new.status \in RuleStatus
        BY <4>2 DEF RuleRow
      <4> HIDE DEF new
      <4> QED
        BY <4>2, <4>3, <4>4
    <3>2. CASE DeleteRule(h)
      <4>1. work[h] \in RuleRow
        BY <1>1, <3>2 DEF DeleteRule, RequestFits
      <4>2. [work[h] EXCEPT !.status = "INACTIVE"] \in RuleRow
        BY <4>1 DEF RuleRow, RuleStatus
      <4> QED
        BY <3>2, <4>2 DEF DeleteRule, RuleStatus
    <3> QED
      BY <1>5, <3>1, <3>2
  <2>2. /\ q.rule \in DOMAIN rules /\ work[h] \in RuleRow /\ q.rule \in Nat
        /\ UNCHANGED <<incidents, incidentLog>>
        /\ Respond(h, 200, q.rule) \/ Respond(h, 204, Null)
    BY <1>1, <1>5, OpFacts DEF UpdateRule, DeleteRule, RequestFits
  <2>3. rules[q.rule] \in RuleRow
    BY <1>1, <2>2 DEF TablesOK, Tables
  <2> DEFINE row == Written(work[h], new, rules[q.rule])
  <2>4. row \in RuleRow
    BY <2>2, <2>3, WrittenRow
  <2>5. rules' = [rules EXCEPT ![q.rule] = row]
    BY <2>1
  <2> HIDE DEF row
  <2>6. TablesOK' /\ TablesStay
    BY <1>1, <2>1, <2>2, <2>4, <2>5, SetRule
  <2>7. CASE Respond(h, 200, q.rule)
    BY <1>2, <2>2, <2>6, <2>7
  <2>8. CASE Respond(h, 204, Null)
    BY <1>2, <2>6, <2>8
  <2> QED
    BY <2>2, <2>7, <2>8
<1> QED
  BY <1>3, <1>4, <1>5

-----------------------------------------------------------------------------
(* Incidents *)

(* An ingest request commits the incidents it holds.                       *)
LEMMA CommitAdds ==
  ASSUME Basics, NEW h \in Handler, IngestCommit(h)
  PROVE  /\ TablesOK' /\ TablesStay
         /\ DOMAIN incidents' = 1 .. (Len(incidents) + Len(work[h].mine)) /\ Len(work[h].mine) \in Nat
         /\ DOMAIN work[h].mine = 1 .. Len(work[h].mine)
         /\ \A i \in DOMAIN incidents : incidents'[i] = incidents[i] /\ incidentLog'[i] = incidentLog[i]
         /\ \A n \in DOMAIN work[h].mine :
              /\ incidents'[Len(incidents) + n] = NewIncidents(h)[n]
              /\ incidentLog'[Len(incidents) + n] = <<"OPEN">>
<1> DEFINE mine == work[h].mine
           new == NewIncidents(h)
           log == [n \in DOMAIN mine |-> <<"OPEN">>]
<1>1. /\ pc[h] = "scan" /\ req[h].op = "ingest"
      /\ incidents' = incidents \o new /\ incidentLog' = incidentLog \o log
      /\ UNCHANGED <<rules, ruleLog>>
  BY DEF IngestCommit
<1>2. TablesOK /\ work[h] \in IngestSession /\ req[h].raised \in Event
  BY <1>1, At, OpFacts DEF RequestFits, Ingesting
<1>3. mine \in Seq(Nat) /\ req[h].raised.source \in Source
  BY <1>2 DEF IngestSession, Event
<1>4. DOMAIN mine = 1 .. Len(mine) /\ Len(mine) \in Nat
  BY <1>3
<1>5. new \in Seq(IncidentRow) /\ Len(new) = Len(mine)
  <2>1. \A n \in 1 .. Len(mine) : mine[n] \in Nat
    BY <1>3
  <2>2. \A n \in 1 .. Len(mine) :
          [rule |-> mine[n], source |-> req[h].raised.source, status |-> "OPEN",
           acknowledgedBy |-> Null, resolvedBy |-> Null] \in IncidentRow
    BY <1>3, <2>1 DEF IncidentRow, IncidentStatus
  <2>3. new \in [1 .. Len(mine) -> IncidentRow]
    BY <1>4, <2>2 DEF NewIncidents
  <2> QED
    BY <1>4, <2>3
<1>6. log \in Seq(Seq(IncidentStatus)) /\ Len(log) = Len(mine)
  <2>1. <<"OPEN">> \in Seq(IncidentStatus)
    BY DEF IncidentStatus
  <2>2. log \in [1 .. Len(mine) -> Seq(IncidentStatus)]
    BY <1>4, <2>1
  <2> QED
    BY <1>4, <2>2
<1>7. incidents \in Seq(IncidentRow) /\ incidentLog \in Seq(Seq(IncidentStatus)) /\ Len(incidentLog) = Len(incidents)
  BY <1>2 DEF TablesOK, Tables
<1>8. \A n \in DOMAIN mine : log[n] = <<"OPEN">>
  OBVIOUS
<1> HIDE DEF new, log
<1>9. /\ incidents \o new \in Seq(IncidentRow)
      /\ Len(incidents \o new) = Len(incidents) + Len(new)
      /\ \A i \in 1 .. Len(incidents) + Len(new) :
           (incidents \o new)[i] = IF i <= Len(incidents) THEN incidents[i] ELSE new[i - Len(incidents)]
  BY <1>5, <1>7, ConcatProperties
<1>10. /\ incidentLog \o log \in Seq(Seq(IncidentStatus))
      /\ Len(incidentLog \o log) = Len(incidentLog) + Len(log)
      /\ \A i \in 1 .. Len(incidentLog) + Len(log) :
           (incidentLog \o log)[i] = IF i <= Len(incidentLog) THEN incidentLog[i] ELSE log[i - Len(incidentLog)]
  BY <1>6, <1>7, ConcatProperties
<1>11. /\ incidents' \in Seq(IncidentRow) /\ Len(incidents') = Len(incidents) + Len(mine)
      /\ \A i \in 1 .. Len(incidents) + Len(mine) :
           incidents'[i] = IF i <= Len(incidents) THEN incidents[i] ELSE new[i - Len(incidents)]
  BY <1>1, <1>5, <1>9
<1>12. /\ incidentLog' \in Seq(Seq(IncidentStatus)) /\ Len(incidentLog') = Len(incidents) + Len(mine)
       /\ \A i \in 1 .. Len(incidents) + Len(mine) :
            incidentLog'[i] = IF i <= Len(incidents) THEN incidentLog[i] ELSE log[i - Len(incidents)]
  BY <1>1, <1>6, <1>7, <1>10
<1>13. DOMAIN incidents = 1 .. Len(incidents) /\ DOMAIN incidents' = 1 .. (Len(incidents) + Len(mine))
       /\ Len(incidents) \in Nat
  BY <1>7, <1>11
<1>14. \A i \in DOMAIN incidents : incidents'[i] = incidents[i] /\ incidentLog'[i] = incidentLog[i]
  BY <1>4, <1>11, <1>12, <1>13, SMTT(30)
<1>15. \A n \in DOMAIN mine : incidents'[Len(incidents) + n] = new[n] /\ incidentLog'[Len(incidents) + n] = <<"OPEN">>
  <2> SUFFICES ASSUME NEW n \in DOMAIN mine
               PROVE  /\ incidents'[Len(incidents) + n] = new[n]
                      /\ incidentLog'[Len(incidents) + n] = log[n]
    BY <1>8
  <2> DEFINE i == Len(incidents) + n
  <2>1. n \in 1 .. Len(mine)
    BY <1>4
  <2>2. i \in 1 .. Len(incidents) + Len(mine) /\ ~ (i <= Len(incidents)) /\ i - Len(incidents) = n
    BY <1>4, <1>13, <2>1
  <2> HIDE DEF i
  <2>3. incidents'[i] = new[n] /\ incidentLog'[i] = log[n]
    BY <1>11, <1>12, <2>2
  <2> QED
    BY <2>3 DEF i
<1>16. TablesStay
  BY <1>1, <1>4, <1>13 DEF TablesStay
<1>17. TablesOK'
  BY <1>1, <1>2, <1>11, <1>12 DEF TablesOK, Tables
<1> QED
  BY <1>4, <1>13, <1>14, <1>15, <1>16, <1>17 DEF new

(* The row that a transition leaves.                                       *)
Moved(row, q) ==
  IF q.outcome = "ACKNOWLEDGED"
    THEN [row EXCEPT !.status = q.outcome, !.acknowledgedBy = q.by]
    ELSE [row EXCEPT !.status = q.outcome, !.resolvedBy = q.by]

LEMMA MovedRow ==
  ASSUME NEW row \in IncidentRow, NEW q, q.outcome \in {"ACKNOWLEDGED", "RESOLVED"}, q.by \in User
  PROVE  /\ Moved(row, q) \in IncidentRow
         /\ Moved(row, q).rule = row.rule /\ Moved(row, q).source = row.source
         /\ Moved(row, q).status = q.outcome
         /\ Moved(row, q).acknowledgedBy = IF q.outcome = "ACKNOWLEDGED" THEN q.by ELSE row.acknowledgedBy
         /\ Moved(row, q).resolvedBy = IF q.outcome = "RESOLVED" THEN q.by ELSE row.resolvedBy
BY DEF Moved, IncidentRow, IncidentStatus

Moving(h) == incidents[req[h].incident].status \in Allowed(req[h].outcome)

LEMMA TransitionSets ==
  ASSUME Basics, NEW h \in Handler, Transition(h), Moving(h), NEW i, i = req[h].incident
  PROVE  /\ TablesOK' /\ TablesStay
         /\ i \in DOMAIN incidents /\ DOMAIN incidents' = DOMAIN incidents
         /\ incidents[i] \in IncidentRow /\ incidents'[i] = Moved(incidents[i], req[h])
         /\ incidentLog[i] \in Seq(IncidentStatus)
         /\ incidentLog'[i] = Append(incidentLog[i], req[h].outcome)
         /\ \A k \in DOMAIN incidents : k # i => incidents'[k] = incidents[k] /\ incidentLog'[k] = incidentLog[k]
         /\ req[h].outcome \in {"ACKNOWLEDGED", "RESOLVED"} /\ req[h].by \in User
<1> DEFINE q == req[h]
<1>1. /\ pc[h] = "commit" /\ q.op = "transition"
      /\ incidents' = [incidents EXCEPT ![i] = Moved(incidents[i], q)]
      /\ incidentLog' = [incidentLog EXCEPT ![i] = Append(incidentLog[i], q.outcome)]
      /\ UNCHANGED <<rules, ruleLog>>
  BY DEF Transition, Moving, Moved
<1>2. /\ TablesOK /\ i \in DOMAIN incidents
      /\ q.outcome \in {"ACKNOWLEDGED", "RESOLVED"} /\ q.by \in User
  BY <1>1, At, OpFacts DEF RequestFits
<1>3. /\ incidents \in Seq(IncidentRow) /\ incidentLog \in Seq(Seq(IncidentStatus))
      /\ Len(incidentLog) = Len(incidents)
      /\ DOMAIN incidents = 1 .. Len(incidents) /\ DOMAIN incidentLog = 1 .. Len(incidents)
      /\ i \in 1 .. Len(incidents)
  BY <1>2 DEF TablesOK, Tables
<1>4. incidents[i] \in IncidentRow /\ incidentLog[i] \in Seq(IncidentStatus)
  BY <1>3
<1>5. Moved(incidents[i], q) \in IncidentRow
  BY <1>2, <1>4, MovedRow
<1>6. Append(incidentLog[i], q.outcome) \in Seq(IncidentStatus)
  BY <1>2, <1>4 DEF IncidentStatus
<1> DEFINE row == Moved(incidents[i], q)
           log == Append(incidentLog[i], q.outcome)
<1>7. row \in IncidentRow /\ log \in Seq(IncidentStatus)
      /\ incidents' = [incidents EXCEPT ![i] = row] /\ incidentLog' = [incidentLog EXCEPT ![i] = log]
  BY <1>1, <1>5, <1>6
<1> HIDE DEF row, log
<1>8. /\ incidents' \in Seq(IncidentRow) /\ Len(incidents') = Len(incidents)
      /\ incidents'[i] = row /\ \A k \in DOMAIN incidents : k # i => incidents'[k] = incidents[k]
  BY <1>3, <1>7, ExceptSeq
<1>9. /\ incidentLog' \in Seq(Seq(IncidentStatus)) /\ Len(incidentLog') = Len(incidentLog)
      /\ incidentLog'[i] = log /\ \A k \in DOMAIN incidents : k # i => incidentLog'[k] = incidentLog[k]
  BY <1>3, <1>7, ExceptSeq
<1>10. DOMAIN incidents' = DOMAIN incidents
  BY <1>3, <1>8
<1>11. TablesOK' /\ TablesStay
  BY <1>1, <1>2, <1>3, <1>8, <1>9, <1>10 DEF TablesOK, Tables, TablesStay
<1> QED
  BY <1>2, <1>4, <1>8, <1>9, <1>10, <1>11 DEF row, log

LEMMA IncidentBasics ==
  ASSUME Basics, NEW h \in Handler, IncidentLoad(h) \/ Transition(h)
  PROVE  Basics'
<1>1. Serve(h) /\ pc[h] # "idle" /\ req[h].op = "transition" /\ req[h] \in Requests
  BY At DEF IncidentLoad, Transition, Serve
<1>2. req[h].incident \in Nat
  BY <1>1, OpFacts
<1>3. CASE UNCHANGED alertTables /\ (Respond(h, 404, Null) \/ Respond(h, 409, Null))
  <2>1. TablesOK' /\ TablesStay
    BY <1>3, NoTables
  <2> QED
    BY <1>1, <1>3, <2>1, Done
<1>4. CASE UNCHANGED alertTables /\ Continue(h, "commit", Null) /\ req[h].incident \in DOMAIN incidents
  <2>1. TablesOK' /\ TablesStay
    BY <1>4, NoTables
  <2> QED
    BY <1>1, <1>4, <2>1, MoveOn
<1>5. CASE Transition(h) /\ Moving(h)
  <2>1. TablesOK' /\ TablesStay
    BY <1>5, TransitionSets
  <2>2. Respond(h, 200, req[h].incident)
    BY <1>5 DEF Transition, Moving
  <2> QED
    BY <1>1, <1>2, <2>1, <2>2, Done
<1> QED
  BY <1>3, <1>4, <1>5 DEF IncidentLoad, Transition, Moving, alertTables

-----------------------------------------------------------------------------
(* Evaluation *)

(* How an evaluation moves on: with the session w, at label l.             *)
LEMMA IngestMoves ==
  ASSUME Basics, NEW h \in Handler, ProbeIncident(h) \/ FlushIncident(h) \/ Victim(h)
  PROVE  /\ UNCHANGED alertTables /\ Ingesting(h) /\ work[h] \in IngestSession
         /\ \E l \in {"scan", "check"}, w \in IngestSession :
              /\ Continue(h, l, w) /\ (l = "check" => w.rule \in Nat)
              /\ \/ /\ w.mine = work[h].mine /\ w.owed \subseteq work[h].owed /\ w.due \subseteq work[h].due
                    /\ \A r \in work[h].due : r \notin w.due =>
                         r \notin w.owed \/ IncidentsOf(r, req[h].raised.source) # {}
                 \/ /\ l = "scan" /\ w.mine = Append(work[h].mine, work[h].rule) /\ pc[h] = "check"
                    /\ w.owed = work[h].owed /\ w.due = work[h].due \ {work[h].rule}
                    /\ ~ \E g \in Handler : Waits(h, g)
                    /\ IncidentsOf(work[h].rule, req[h].raised.source) = {}
              /\ l = "check" => w.rule \in w.due
<1>1. /\ UNCHANGED alertTables /\ Ingesting(h) /\ work[h] \in IngestSession
      /\ pc[h] = "check" => work[h].rule \in Nat
  BY At DEF ProbeIncident, FlushIncident, Flushing, Victim, Ingesting, RequestFits
<1>2. /\ work[h].due \in SUBSET Nat /\ work[h].owed \in SUBSET Nat /\ work[h].mine \in Seq(Nat)
  BY <1>1 DEF IngestSession
<1>3. CASE ProbeIncident(h)
  <2>1. PICK r \in work[h].due :
          IF IncidentsOf(r, req[h].raised.source) # {}
            THEN Continue(h, "scan", [work[h] EXCEPT !.due = @ \ {r}])
            ELSE Continue(h, "check", [work[h] EXCEPT !.rule = r])
    BY <1>3 DEF ProbeIncident
  <2>2. CASE IncidentsOf(r, req[h].raised.source) # {}
    <3> DEFINE w == [work[h] EXCEPT !.due = @ \ {r}]
    <3>1. w \in IngestSession /\ w.mine = work[h].mine /\ w.owed = work[h].owed /\ w.due = work[h].due \ {r}
      BY <1>1, <1>2 DEF IngestSession
    <3>2. Continue(h, "scan", w)
      BY <2>1, <2>2
    <3> HIDE DEF w
    <3> QED
      BY <1>1, <2>2, <3>1, <3>2
  <2>3. CASE IncidentsOf(r, req[h].raised.source) = {}
    <3> DEFINE w == [work[h] EXCEPT !.rule = r]
    <3>1. w \in IngestSession /\ w.mine = work[h].mine /\ w.owed = work[h].owed /\ w.due = work[h].due
          /\ w.rule = r /\ r \in Nat
      BY <1>1, <1>2 DEF IngestSession
    <3>2. Continue(h, "check", w)
      BY <2>1, <2>3
    <3> HIDE DEF w
    <3> QED
      BY <1>1, <3>1, <3>2
  <2> QED
    BY <2>2, <2>3
<1>4. CASE FlushIncident(h)
  <2> DEFINE dup == IncidentsOf(work[h].rule, req[h].raised.source) # {}
             mine == IF dup THEN work[h].mine ELSE Append(work[h].mine, work[h].rule)
             w == [work[h] EXCEPT !.due = @ \ {work[h].rule}, !.rule = Null, !.mine = mine]
  <2>1. /\ pc[h] = "check" /\ ~ \E g \in Handler : Waits(h, g)
        /\ Continue(h, "scan", w)
    BY <1>4 DEF FlushIncident, Flushing, Settle
  <2>2. mine \in Seq(Nat)
    BY <1>1, <1>2, <2>1
  <2> HIDE DEF mine
  <2>3. w \in IngestSession /\ w.mine = mine /\ w.owed = work[h].owed /\ w.due = work[h].due \ {work[h].rule}
    BY <1>1, <1>2, <2>2 DEF IngestSession
  <2> HIDE DEF w
  <2>4. CASE dup
    BY <1>1, <2>1, <2>3, <2>4 DEF mine
  <2>5. CASE ~ dup
    BY <1>1, <2>1, <2>3, <2>5 DEF mine
  <2> QED
    BY <2>4, <2>5
<1>5. CASE Victim(h)
  <2> DEFINE w == [work[h] EXCEPT !.owed = @ \ {work[h].rule}, !.due = @ \ {work[h].rule}, !.rule = Null]
  <2>1. Continue(h, "scan", w)
    BY <1>5 DEF Victim
  <2>2. w \in IngestSession /\ w.mine = work[h].mine /\ w.owed = work[h].owed \ {work[h].rule}
        /\ w.due = work[h].due \ {work[h].rule}
    BY <1>1, <1>2 DEF IngestSession
  <2> HIDE DEF w
  <2> QED
    BY <1>1, <2>1, <2>2
<1> QED
  BY <1>3, <1>4, <1>5

LEMMA IngestBasics ==
  ASSUME Basics, NEW h \in Handler,
         MatchRules(h) \/ ProbeIncident(h) \/ FlushIncident(h) \/ Victim(h) \/ IngestCommit(h)
  PROVE  Basics'
<1>1. Serve(h) /\ pc[h] # "idle" /\ req[h].op = "ingest" /\ TablesOK
  BY At DEF MatchRules, ProbeIncident, FlushIncident, Flushing, Victim, IngestCommit, Serve, TablesOK
<1>2. CASE MatchRules(h)
  <2> DEFINE matched == {r \in DOMAIN rules : Matches(rules[r], req[h].raised)}
             w == [owed |-> matched, due |-> matched, rule |-> Null, mine |-> << >>]
  <2>1. UNCHANGED alertTables /\ Continue(h, "scan", w)
    BY <1>2 DEF MatchRules
  <2>2. matched \in SUBSET Nat
    BY <1>1 DEF TablesOK
  <2> HIDE DEF matched
  <2>3. w \in IngestSession
    BY <2>2 DEF IngestSession
  <2>4. w \in Session
    BY <2>3 DEF Session
  <2> HIDE DEF w
  <2>5. TablesOK' /\ TablesStay
    BY <2>1, NoTables
  <2> QED
    BY <1>1, <2>1, <2>3, <2>4, <2>5, MoveOn
<1>3. CASE ProbeIncident(h) \/ FlushIncident(h) \/ Victim(h)
  <2>1. UNCHANGED alertTables
    BY <1>3, IngestMoves
  <2>2. PICK l \in {"scan", "check"}, w \in IngestSession : Continue(h, l, w) /\ (l = "check" => w.rule \in Nat)
    BY <1>3, IngestMoves
  <2>3. w \in Session
    BY DEF Session
  <2>4. TablesOK' /\ TablesStay
    BY <2>1, NoTables
  <2> QED
    BY <1>1, <2>2, <2>3, <2>4, MoveOn
<1>4. CASE IngestCommit(h)
  <2>1. TablesOK' /\ TablesStay
    BY <1>4, CommitAdds
  <2>2. Respond(h, 200, Null)
    BY <1>4 DEF IngestCommit
  <2> QED
    BY <1>1, <2>1, <2>2, Done
<1> QED
  BY <1>2, <1>3, <1>4

LEMMA ArriveBasics ==
  ASSUME Basics, NEW h \in Handler, NEW q \in Requests, Arrive(h, q)
  PROVE  Basics'
<1>1. /\ pc[h] = "idle" /\ pc' = [pc EXCEPT ![h] = "load"] /\ req' = [req EXCEPT ![h] = q]
      /\ overlap' = (overlap \/ \E g \in Handler : Busy(g))
      /\ UNCHANGED <<work, resp, rules, ruleLog, incidents, incidentLog>>
  BY DEF Arrive, Receive, alertTables
<1>2. AlertsTypeOK' /\ Tables'
  BY <1>1 DEF Basics, AlertsTypeOK, HandlersTypeOK, Tables
<1>3. /\ pc'[h] = "load" /\ req'[h] = q
      /\ \A g \in Handler : g # h => pc'[g] = pc[g] /\ req'[g] = req[g]
  BY <1>1 DEF Basics, AlertsTypeOK, HandlersTypeOK
<1>4. ASSUME NEW g \in Handler PROVE RequestFits(g)'
  BY <1>1, <1>3 DEF Basics, RequestsFit, RequestFits, Ingesting
<1> QED
  BY <1>2, <1>4 DEF Basics, RequestsFit

LEMMA InitBasics == Init => Basics
<1> SUFFICES ASSUME Init PROVE Basics
  OBVIOUS
<1>1. AlertsTypeOK
  <2>1. HandlersTypeOK(Session)
    BY DEF Init, HandlersInit, HandlersTypeOK
  <2>2. DOMAIN rules \subseteq Nat /\ incidents \in Seq(IncidentRow)
    BY AlertsAssumption DEF Init
  <2> QED
    BY <2>1, <2>2 DEF AlertsTypeOK
<1>2. ruleLog \in Seq(Seq(RuleStatus)) /\ Len(ruleLog) = Len(rules) /\ \A r \in DOMAIN ruleLog : ruleLog[r] # << >>
  <2>1. StoredRules \in Seq(RuleRow) /\ DOMAIN StoredRules = 1 .. Len(StoredRules) /\ Len(StoredRules) \in Nat
    BY AlertsAssumption
  <2>2. \A r \in DOMAIN StoredRules : <<StoredRules[r].status>> \in Seq(RuleStatus)
    <3>1. ASSUME NEW r \in DOMAIN StoredRules PROVE StoredRules[r].status \in RuleStatus
      <4>1. StoredRules[r] \in RuleRow
        BY <2>1
      <4> QED
        BY <4>1 DEF RuleRow
    <3> QED
      BY <3>1
  <2>3. ruleLog \in [1 .. Len(StoredRules) -> Seq(RuleStatus)]
    BY <2>1, <2>2 DEF Init
  <2>4. \A r \in DOMAIN ruleLog : ruleLog[r] # << >>
    BY DEF Init
  <2> QED
    BY <2>1, <2>3, <2>4 DEF Init
<1>3. Tables
  BY <1>2, AlertsAssumption DEF Init, Tables
<1>4. RequestsFit
  BY DEF Init, HandlersInit, RequestsFit, RequestFits, Ingesting
<1> QED
  BY <1>1, <1>3, <1>4 DEF Basics

LEMMA NextBasics == Basics /\ [Next]_vars => Basics'
<1> SUFFICES ASSUME Basics, [Next]_vars PROVE Basics'
  OBVIOUS
<1>1. ASSUME NEW h \in Handler, Serve(h) PROVE Basics'
  BY <1>1, RuleBasics, IngestBasics, IncidentBasics DEF Serve
<1>2. ASSUME NEW h \in Handler, Abort(h) PROVE Basics'
  <2>1. Respond(h, 500, Null) /\ UNCHANGED alertTables
    BY <1>2 DEF Abort, Die
  <2>2. TablesOK' /\ TablesStay
    BY <2>1, NoTables
  <2> QED
    BY <1>2, <2>1, <2>2, Done
<1>3. CASE UNCHANGED vars
  BY <1>3 DEF vars, Basics, AlertsTypeOK, HandlersTypeOK, Tables, RequestsFit, RequestFits, Ingesting
<1> QED
  BY <1>1, <1>2, <1>3, ArriveBasics DEF Next

LEMMA AlwaysBasics == Spec => []Basics
BY InitBasics, NextBasics, PTL DEF Spec

(* Tables and sessions keep their shape.                                   *)
THEOREM AlertsTypes == Spec => []AlertsTypeOK
<1>1. Basics => AlertsTypeOK
  BY DEF Basics
<1> QED
  BY <1>1, AlwaysBasics, PTL

-----------------------------------------------------------------------------
(* The keys of incidents *)

Mine(h) == {work[h].mine[n] : n \in DOMAIN work[h].mine}

Key(h) == req[h].raised.source

OneIncidentEach ==
  \A i, j \in DOMAIN incidents :
    incidents[i].rule = incidents[j].rule /\ incidents[i].source = incidents[j].source => i = j

(* A request holds an incident once, and not beside a committed one.  What *)
(* it owed it still has to do, holds, or has found committed.              *)
HoldsOnce(h) ==
  /\ \A m, n \in DOMAIN work[h].mine : work[h].mine[m] = work[h].mine[n] => m = n
  /\ \A r \in Mine(h) : r \notin work[h].due /\ IncidentsOf(r, Key(h)) = {}
  /\ pc[h] = "check" => work[h].rule \in work[h].due
  /\ \A r \in work[h].owed : r \in work[h].due \cup Mine(h) \/ IncidentsOf(r, Key(h)) # {}

(* No two requests hold an incident of the same key.                       *)
Apart(g, h) == Key(g) = Key(h) => Mine(g) \cap Mine(h) = {}

KeysFit ==
  /\ OneIncidentEach
  /\ \A h \in Handler : Ingesting(h) => HoldsOnce(h)
  /\ \A g, h \in Handler : Ingesting(g) /\ Ingesting(h) /\ g # h => Apart(g, h)

(* A step that changes no key and no session but that of h keeps the keys, *)
(* if what h then holds is right and nobody else's.                        *)
LEMMA KeysStay ==
  ASSUME Basics, KeysFit, NEW h \in Handler, Serve(h) \/ Abort(h),
         \A r, s : IncidentsOf(r, s)' = IncidentsOf(r, s), OneIncidentEach',
         Ingesting(h)' => HoldsOnce(h)',
         Ingesting(h)' => \A g \in Handler : g # h /\ Ingesting(g) /\
                            Key(g) = Key(h) => Mine(g) \cap Mine(h)' = {}
  PROVE  KeysFit'
<1>1. /\ req' = req
      /\ \A g \in Handler : g # h => pc'[g] = pc[g] /\ work'[g] = work[g]
  BY ServeMovesOne DEF Basics, AlertsTypeOK, HandlersTypeOK
<1>2. ASSUME NEW g \in Handler, g # h
      PROVE  (Ingesting(g)' <=> Ingesting(g)) /\ Mine(g)' = Mine(g)
  BY <1>1, <1>2 DEF Ingesting, Mine
<1>3. \A g \in Handler : Key(g)' = Key(g)
  BY <1>1 DEF Key
<1>4. ASSUME NEW g \in Handler, Ingesting(g)' PROVE HoldsOnce(g)'
  <2>1. CASE g # h
    <3>1. HoldsOnce(g)
      BY <1>2, <1>4, <2>1 DEF KeysFit
    <3> QED
      BY <1>1, <1>2, <1>3, <2>1, <3>1 DEF HoldsOnce
  <2> QED
    BY <1>4, <2>1
<1>5. ASSUME NEW g \in Handler, NEW k \in Handler, Ingesting(g)', Ingesting(k)', g # k PROVE Apart(g, k)'
  <2>1. CASE g # h /\ k # h
    BY <1>2, <1>3, <1>5, <2>1 DEF KeysFit, Apart
  <2>2. CASE g = h \/ k = h
    BY <1>2, <1>3, <1>5, <2>2 DEF Apart
  <2> QED
    BY <2>1, <2>2
<1> QED
  BY <1>4, <1>5 DEF KeysFit

(* An incident that is flushed is nobody else's.                           *)
LEMMA FlushedAlone ==
  ASSUME Basics, NEW h \in Handler, Flushing(h), ~ \E g \in Handler : Waits(h, g),
         NEW g \in Handler, g # h, Ingesting(g), Key(g) = Key(h)
  PROVE  work[h].rule \notin Mine(g)
<1>1. /\ req[g].op = "ingest" /\ work[g] \in IngestSession /\ Busy(g)
  BY DEF Basics, RequestsFit, RequestFits, Ingesting, Busy
<1>2. work[g] # Null
  BY <1>1, AlertsNullAssumption DEF Session
<1>3. ~ Holds(g, work[h].rule, Key(h))
  BY DEF Waits, Key
<1> QED
  BY <1>1, <1>2, <1>3 DEF Holds, Mine, Key

LEMMA SameIncidents ==
  ASSUME UNCHANGED incidents
  PROVE  /\ \A r, s : IncidentsOf(r, s)' = IncidentsOf(r, s)
         /\ OneIncidentEach => OneIncidentEach'
BY DEF IncidentsOf, OneIncidentEach

LEMMA EvaluationKeys ==
  ASSUME Basics, KeysFit, NEW h \in Handler, ProbeIncident(h) \/ FlushIncident(h) \/ Victim(h)
  PROVE  KeysFit'
<1>1. /\ UNCHANGED alertTables /\ Ingesting(h) /\ work[h] \in IngestSession /\ Serve(h) /\ HoldsOnce(h)
  BY IngestMoves DEF Serve, KeysFit
<1>2. PICK l \in {"scan", "check"}, w \in IngestSession :
        /\ Continue(h, l, w)
        /\ \/ /\ w.mine = work[h].mine /\ w.owed \subseteq work[h].owed /\ w.due \subseteq work[h].due
              /\ \A r \in work[h].due : r \notin w.due =>
                   r \notin w.owed \/ IncidentsOf(r, req[h].raised.source) # {}
           \/ /\ l = "scan" /\ w.mine = Append(work[h].mine, work[h].rule) /\ pc[h] = "check"
              /\ w.owed = work[h].owed /\ w.due = work[h].due \ {work[h].rule}
              /\ ~ \E g \in Handler : Waits(h, g)
              /\ IncidentsOf(work[h].rule, req[h].raised.source) = {}
        /\ l = "check" => w.rule \in w.due
  BY IngestMoves
<1>3. /\ pc'[h] = l /\ work'[h] = w /\ req' = req /\ UNCHANGED incidents
  BY <1>1, <1>2 DEF Continue, Basics, AlertsTypeOK, HandlersTypeOK, alertTables
<1>4. (\A r, s : IncidentsOf(r, s)' = IncidentsOf(r, s)) /\ OneIncidentEach'
  BY <1>3, SameIncidents DEF KeysFit
<1>5. Key(h)' = Key(h)
  BY <1>3 DEF Key
<1>6. CASE /\ w.mine = work[h].mine /\ w.owed \subseteq work[h].owed /\ w.due \subseteq work[h].due
           /\ \A r \in work[h].due : r \notin w.due =>
                r \notin w.owed \/ IncidentsOf(r, req[h].raised.source) # {}
  <2>1. Mine(h)' = Mine(h)
    BY <1>3, <1>6 DEF Mine
  <2>2. HoldsOnce(h)'
    <3>1. \A m, n \in DOMAIN work[h].mine : work[h].mine[m] = work[h].mine[n] => m = n
      BY <1>1 DEF HoldsOnce
    <3>2. \A r \in Mine(h) : r \notin w.due /\ IncidentsOf(r, Key(h)) = {}
      BY <1>1, <1>6 DEF HoldsOnce
    <3>3. \A r \in w.owed : r \in w.due \cup Mine(h) \/ IncidentsOf(r, Key(h)) # {}
      BY <1>1, <1>6 DEF HoldsOnce, Key
    <3> QED
      BY <1>2, <1>3, <1>4, <1>5, <1>6, <2>1, <3>1, <3>2, <3>3 DEF HoldsOnce
  <2>3. \A g \in Handler : g # h /\ Ingesting(g) /\ Key(g) = Key(h) => Mine(g) \cap Mine(h)' = {}
    BY <1>1, <2>1 DEF KeysFit, Apart
  <2> QED
    BY <1>1, <1>4, <2>2, <2>3, KeysStay
<1>7. CASE /\ l = "scan" /\ w.mine = Append(work[h].mine, work[h].rule) /\ pc[h] = "check"
           /\ w.owed = work[h].owed /\ w.due = work[h].due \ {work[h].rule}
           /\ ~ \E g \in Handler : Waits(h, g)
           /\ IncidentsOf(work[h].rule, req[h].raised.source) = {}
  <2> DEFINE mine == work[h].mine
             rule == work[h].rule
  <2>1. mine \in Seq(Nat) /\ rule \in work[h].due
    BY <1>1, <1>7 DEF IngestSession, HoldsOnce
  <2>2. /\ DOMAIN w.mine = DOMAIN mine \cup {Len(mine) + 1} /\ Len(mine) + 1 \notin DOMAIN mine
        /\ w.mine[Len(mine) + 1] = rule
        /\ \A n \in DOMAIN mine : w.mine[n] = mine[n]
    BY <1>7, <2>1
  <2>3. Mine(h)' = Mine(h) \cup {rule}
    BY <1>3, <2>2 DEF Mine
  <2>4. rule \notin Mine(h)
    BY <1>1, <2>1 DEF HoldsOnce
  <2>5. \A m, n \in DOMAIN w.mine : w.mine[m] = w.mine[n] => m = n
    <3>1. \A n \in DOMAIN mine : w.mine[n] \in Mine(h)
      BY <2>2 DEF Mine
    <3>2. \A m, n \in DOMAIN mine : mine[m] = mine[n] => m = n
      BY <1>1 DEF HoldsOnce
    <3> QED
      BY <2>2, <2>4, <3>1, <3>2
  <2>6. HoldsOnce(h)'
    <3>1. \A r \in Mine(h) \cup {rule} : r \notin w.due /\ IncidentsOf(r, Key(h)) = {}
      BY <1>1, <1>7 DEF HoldsOnce, Key
    <3>2. \A r \in w.owed : r \in w.due \cup (Mine(h) \cup {rule}) \/ IncidentsOf(r, Key(h)) # {}
      BY <1>1, <1>7 DEF HoldsOnce
    <3> QED
      BY <1>3, <1>4, <1>5, <1>7, <2>3, <2>5, <3>1, <3>2 DEF HoldsOnce
  <2>7. ASSUME NEW g \in Handler, g # h, Ingesting(g), Key(g) = Key(h)
        PROVE  Mine(g) \cap Mine(h)' = {}
    <3>1. rule \notin Mine(g)
      <4>1. Flushing(h)
        BY <1>1, <1>7 DEF Flushing, Basics, RequestsFit, RequestFits
      <4> QED
        BY <1>7, <2>7, <4>1, FlushedAlone
    <3>2. Mine(g) \cap Mine(h) = {}
      BY <1>1, <2>7 DEF KeysFit, Apart
    <3> QED
      BY <2>3, <3>1, <3>2
  <2> QED
    BY <1>1, <1>4, <2>6, <2>7, KeysStay
<1> QED
  BY <1>2, <1>6, <1>7

LEMMA MatchKeys ==
  ASSUME Basics, KeysFit, NEW h \in Handler, MatchRules(h)
  PROVE  KeysFit'
<1> DEFINE matched == {r \in DOMAIN rules : Matches(rules[r], req[h].raised)}
           w == [owed |-> matched, due |-> matched, rule |-> Null, mine |-> << >>]
<1>1. Continue(h, "scan", w) /\ UNCHANGED incidents /\ Serve(h)
  BY DEF MatchRules, alertTables, Serve
<1> HIDE DEF matched
<1>2. w.owed = w.due /\ w.mine = << >>
  OBVIOUS
<1> HIDE DEF w
<1>3. pc'[h] = "scan" /\ work'[h] = w
  BY <1>1 DEF Continue, Basics, AlertsTypeOK, HandlersTypeOK
<1>4. Mine(h)' = {} /\ DOMAIN w.mine = {}
  BY <1>2, <1>3 DEF Mine
<1>5. HoldsOnce(h)'
  BY <1>2, <1>3, <1>4 DEF HoldsOnce
<1>6. (\A r, s : IncidentsOf(r, s)' = IncidentsOf(r, s)) /\ OneIncidentEach'
  BY <1>1, SameIncidents DEF KeysFit
<1> QED
  BY <1>1, <1>4, <1>5, <1>6, KeysStay

(* What a commit adds has the keys the request held.                       *)
LEMMA CommitKeysAdded ==
  ASSUME Basics, NEW h \in Handler, IngestCommit(h), NEW i \in DOMAIN incidents'
  PROVE  \/ i \in DOMAIN incidents /\ incidents'[i] = incidents[i]
         \/ \E n \in DOMAIN work[h].mine :
              /\ i = Len(incidents) + n /\ i \notin DOMAIN incidents
              /\ incidents'[i].rule = work[h].mine[n] /\ incidents'[i].source = Key(h)
<1> DEFINE L == Len(incidents)
           M == Len(work[h].mine)
<1>1. /\ DOMAIN incidents' = 1 .. (L + M) /\ M \in Nat /\ DOMAIN work[h].mine = 1 .. M
      /\ \A k \in DOMAIN incidents : incidents'[k] = incidents[k]
      /\ \A n \in DOMAIN work[h].mine : incidents'[L + n] = NewIncidents(h)[n]
  BY CommitAdds
<1>2. L \in Nat /\ DOMAIN incidents = 1 .. L
  BY DEF Basics, AlertsTypeOK
<1> HIDE DEF L, M
<1>3. CASE i \in DOMAIN incidents
  BY <1>1, <1>3
<1>4. CASE i \notin DOMAIN incidents
  <2> DEFINE n == i - L
  <2>1. n \in 1 .. M /\ i = L + n
    BY <1>1, <1>2, <1>4
  <2> HIDE DEF n
  <2>2. incidents'[i] = NewIncidents(h)[n] /\ n \in DOMAIN work[h].mine
    BY <1>1, <2>1
  <2>3. incidents'[i].rule = work[h].mine[n] /\ incidents'[i].source = Key(h)
    BY <2>2 DEF NewIncidents, Key
  <2> QED
    BY <1>4, <2>1, <2>2, <2>3 DEF L
<1> QED
  BY <1>3, <1>4

LEMMA CommitKeys ==
  ASSUME Basics, KeysFit, NEW h \in Handler, IngestCommit(h)
  PROVE  KeysFit'
<1>1. /\ Ingesting(h) /\ HoldsOnce(h) /\ OneIncidentEach /\ DOMAIN incidents \subseteq DOMAIN incidents'
      /\ \A i \in DOMAIN incidents : incidents'[i] = incidents[i]
  BY CommitAdds DEF IngestCommit, Ingesting, KeysFit, TablesStay
<1>2. /\ pc'[h] = "done" /\ req' = req
      /\ \A g \in Handler : g # h => pc'[g] = pc[g] /\ work'[g] = work[g]
  BY DEF IngestCommit, Respond, Basics, AlertsTypeOK, HandlersTypeOK
<1>3. ASSUME NEW r, NEW s
      PROVE  /\ IncidentsOf(r, s) \subseteq IncidentsOf(r, s)'
             /\ IncidentsOf(r, s)' # {} => IncidentsOf(r, s) # {} \/ (s = Key(h) /\ r \in Mine(h))
  BY <1>1, CommitKeysAdded DEF IncidentsOf, Mine
<1>4. OneIncidentEach'
  <2> SUFFICES ASSUME NEW i \in DOMAIN incidents', NEW j \in DOMAIN incidents',
                      incidents'[i].rule = incidents'[j].rule, incidents'[i].source = incidents'[j].source
               PROVE  i = j
    BY DEF OneIncidentEach
  <2>1. CASE i \in DOMAIN incidents /\ j \in DOMAIN incidents
    BY <1>1, <2>1 DEF OneIncidentEach
  <2>2. ASSUME NEW a \in DOMAIN incidents, NEW n \in DOMAIN work[h].mine,
               incidents[a].rule = work[h].mine[n], incidents[a].source = Key(h)
        PROVE  FALSE
    <3>1. a \in IncidentsOf(work[h].mine[n], Key(h)) /\ work[h].mine[n] \in Mine(h)
      BY <2>2 DEF IncidentsOf, Mine
    <3> QED
      BY <1>1, <3>1 DEF HoldsOnce
  <2>3. CASE i \notin DOMAIN incidents /\ j \notin DOMAIN incidents
    <3>1. PICK m \in DOMAIN work[h].mine : i = Len(incidents) + m /\ incidents'[i].rule = work[h].mine[m]
      BY <2>3, CommitKeysAdded
    <3>2. PICK n \in DOMAIN work[h].mine : j = Len(incidents) + n /\ incidents'[j].rule = work[h].mine[n]
      BY <2>3, CommitKeysAdded
    <3> QED
      BY <1>1, <3>1, <3>2 DEF HoldsOnce
  <2>4. CASE i \in DOMAIN incidents /\ j \notin DOMAIN incidents
    BY <1>1, <2>2, <2>4, CommitKeysAdded
  <2>5. CASE i \notin DOMAIN incidents /\ j \in DOMAIN incidents
    BY <1>1, <2>2, <2>5, CommitKeysAdded
  <2> QED
    BY <2>1, <2>3, <2>4, <2>5
<1>5. ASSUME NEW g \in Handler, Ingesting(g)'
      PROVE  g # h /\ Ingesting(g) /\ Mine(g)' = Mine(g) /\ Key(g)' = Key(g) /\ work'[g] = work[g] /\ pc'[g] = pc[g]
  BY <1>2, <1>5 DEF Ingesting, Mine, Key
<1>6. ASSUME NEW g \in Handler, Ingesting(g)' PROVE HoldsOnce(g)'
  <2>1. HoldsOnce(g) /\ Apart(g, h) /\ g # h
    BY <1>1, <1>5, <1>6 DEF KeysFit
  <2>2. \A r \in Mine(g) : IncidentsOf(r, Key(g))' = {}
    BY <1>3, <1>5, <1>6, <2>1 DEF HoldsOnce, Apart
  <2>3. \A r : IncidentsOf(r, Key(g)) # {} => IncidentsOf(r, Key(g))' # {}
    BY <1>3, <1>5, <1>6
  <2> QED
    BY <1>5, <1>6, <2>1, <2>2, <2>3 DEF HoldsOnce
<1>7. ASSUME NEW g \in Handler, NEW k \in Handler, Ingesting(g)', Ingesting(k)', g # k PROVE Apart(g, k)'
  BY <1>5, <1>7 DEF KeysFit, Apart
<1> QED
  BY <1>4, <1>6, <1>7 DEF KeysFit

LEMMA OtherKeys ==
  ASSUME Basics, KeysFit, NEW h \in Handler,
         \/ CreateRule(h) \/ RuleLoad(h) \/ UpdateRule(h) \/ DeleteRule(h)
         \/ IncidentLoad(h) \/ Transition(h) \/ Abort(h)
  PROVE  KeysFit'
<1>1. Serve(h) \/ Abort(h)
  BY DEF Serve
<1>2. ~ Ingesting(h)'
  BY DEF CreateRule, RuleLoad, UpdateRule, DeleteRule, IncidentLoad, Transition, Abort, Die,
         Respond, Continue, Ingesting, Basics, AlertsTypeOK, HandlersTypeOK
<1>3. CASE UNCHANGED incidents
  BY <1>1, <1>2, <1>3, SameIncidents, KeysStay DEF KeysFit
<1>4. CASE Transition(h) /\ Moving(h)
  <2>1. PICK i : i = req[h].incident
    OBVIOUS
  <2>2. /\ DOMAIN incidents' = DOMAIN incidents
        /\ \A k \in DOMAIN incidents : k # i => incidents'[k] = incidents[k]
        /\ incidents'[i].rule = incidents[i].rule /\ incidents'[i].source = incidents[i].source
    BY <1>4, <2>1, TransitionSets, MovedRow
  <2>3. /\ \A r, s : IncidentsOf(r, s)' = IncidentsOf(r, s)
        /\ OneIncidentEach'
    BY <2>2 DEF IncidentsOf, OneIncidentEach, KeysFit
  <2> QED
    BY <1>1, <1>2, <2>3, KeysStay
<1> QED
  BY <1>3, <1>4 DEF CreateRule, RuleLoad, UpdateRule, DeleteRule, IncidentLoad, Transition, Moving,
                    Abort, alertTables

(* Nobody flushes an incident whose key another request holds, and nobody  *)
(* holds one that is committed.                                            *)
LEMMA NextKeys == Basics /\ KeysFit /\ [Next]_vars => KeysFit'
<1> SUFFICES ASSUME Basics, KeysFit, [Next]_vars PROVE KeysFit'
  OBVIOUS
<1>1. ASSUME NEW h \in Handler, Serve(h) \/ Abort(h) PROVE KeysFit'
  BY <1>1, EvaluationKeys, MatchKeys, CommitKeys, OtherKeys DEF Serve
<1>2. ASSUME NEW h \in Handler, NEW q \in Requests, Arrive(h, q) PROVE KeysFit'
  <2>1. /\ pc[h] = "idle" /\ pc' = [pc EXCEPT ![h] = "load"] /\ req' = [req EXCEPT ![h] = q]
        /\ UNCHANGED <<work, incidents>>
    BY <1>2 DEF Arrive, Receive, alertTables
  <2>2. pc'[h] = "load" /\ \A g \in Handler : g # h => pc'[g] = pc[g] /\ req'[g] = req[g]
    BY <2>1 DEF Basics, AlertsTypeOK, HandlersTypeOK
  <2>3. \A g \in Handler : Ingesting(g)' => Ingesting(g) /\ Key(g)' = Key(g) /\ pc'[g] = pc[g]
    BY <2>2 DEF Ingesting, Key
  <2>4. \A g \in Handler : Mine(g)' = Mine(g)
    BY <2>1 DEF Mine
  <2>5. (\A r, s : IncidentsOf(r, s)' = IncidentsOf(r, s)) /\ OneIncidentEach'
    BY <2>1, SameIncidents DEF KeysFit
  <2>6. \A g \in Handler : Ingesting(g)' => HoldsOnce(g)'
    BY <2>1, <2>3, <2>4, <2>5 DEF KeysFit, HoldsOnce
  <2> QED
    BY <2>3, <2>4, <2>5, <2>6 DEF KeysFit, Apart
<1>3. CASE UNCHANGED vars
  <2>1. UNCHANGED <<pc, req, work, incidents>>
    BY <1>3 DEF vars
  <2>2. \A g \in Handler : (Ingesting(g)' <=> Ingesting(g)) /\ Mine(g)' = Mine(g) /\ Key(g)' = Key(g)
    BY <2>1 DEF Ingesting, Mine, Key
  <2>3. (\A r, s : IncidentsOf(r, s)' = IncidentsOf(r, s)) /\ OneIncidentEach'
    BY <2>1, SameIncidents DEF KeysFit
  <2> QED
    BY <2>1, <2>2, <2>3 DEF KeysFit, HoldsOnce, Apart
<1> QED
  BY <1>1, <1>2, <1>3 DEF Next

LEMMA AlwaysKeysFit == Spec => []KeysFit
<1>1. Init => KeysFit
  BY DEF Init, HandlersInit, KeysFit, OneIncidentEach, Ingesting
<1> QED
  BY <1>1, NextKeys, AlwaysBasics, PTL DEF Spec

(* An ingest request that commits leaves an incident of every rule that    *)
(* matched, its own or another's, unless it was taken out of a circle.     *)
THEOREM MatchesRaised == Spec => MatchesAreRaised
<1>1. Basics /\ KeysFit /\ [Next]_vars =>
        [\A h \in Handler :
           pc[h] = "scan" /\ pc'[h] = "done" /\ resp'[h].http = 200 =>
             \A r \in work[h].owed :
               \E i \in DOMAIN incidents' :
                 incidents'[i].rule = r /\ incidents'[i].source = req[h].raised.source]_vars
  <2> SUFFICES ASSUME Basics, KeysFit, Next, NEW h \in Handler,
                      pc[h] = "scan", pc'[h] = "done", resp'[h].http = 200, NEW r \in work[h].owed
               PROVE  \E i \in DOMAIN incidents' :
                        incidents'[i].rule = r /\ incidents'[i].source = req[h].raised.source
    OBVIOUS
  <2>1. PICK g \in Handler : Serve(g) \/ Abort(g) \/ \E q \in Requests : Arrive(g, q)
    BY DEF Next
  <2>2. ~ \E q \in Requests : Arrive(g, q)
    BY DEF Arrive, Receive, Basics, AlertsTypeOK, HandlersTypeOK
  <2>3. g = h
    BY <2>1, <2>2, ServeMovesOne DEF Basics, AlertsTypeOK, HandlersTypeOK
  <2>4. ~ Abort(h)
    <3> SUFFICES ASSUME Abort(h) PROVE FALSE
      OBVIOUS
    <3>1. resp'[h] = [http |-> 500, row |-> Null]
      BY DEF Abort, Die, Respond, Basics, AlertsTypeOK, HandlersTypeOK
    <3> QED
      BY <3>1
  <2>5. req[h].op = "ingest"
    BY DEF Basics, RequestsFit, RequestFits, Ingesting
  <2>6. IngestCommit(h)
    BY <2>1, <2>2, <2>3, <2>4, <2>5
       DEF Serve, CreateRule, RuleLoad, UpdateRule, DeleteRule, MatchRules, ProbeIncident, FlushIncident,
           Flushing, Victim, IncidentLoad, Transition, Continue, Basics, AlertsTypeOK, HandlersTypeOK
  <2>7. r \in Mine(h) \/ IncidentsOf(r, Key(h)) # {}
    BY <2>6 DEF IngestCommit, KeysFit, HoldsOnce, Ingesting
  <2>8. CASE IncidentsOf(r, Key(h)) # {}
    BY <2>6, <2>8, CommitAdds DEF IncidentsOf, Key, TablesStay
  <2>9. CASE r \in Mine(h)
    <3>1. PICK n \in DOMAIN work[h].mine : r = work[h].mine[n]
      BY <2>9 DEF Mine
    <3>2. /\ n \in 1 .. Len(work[h].mine) /\ Len(work[h].mine) \in Nat
          /\ DOMAIN incidents' = 1 .. (Len(incidents) + Len(work[h].mine))
          /\ incidents'[Len(incidents) + n] = NewIncidents(h)[n]
      BY <2>6, CommitAdds
    <3>3. Len(incidents) \in Nat
      BY DEF Basics, AlertsTypeOK
    <3>4. Len(incidents) + n \in DOMAIN incidents'
      BY <3>2, <3>3
    <3>5. NewIncidents(h)[n].rule = r /\ NewIncidents(h)[n].source = req[h].raised.source
      BY <3>1 DEF NewIncidents
    <3> QED
      BY <3>2, <3>4, <3>5
  <2> QED
    BY <2>7, <2>8, <2>9
<1> QED
  BY <1>1, AlwaysBasics, AlwaysKeysFit, PTL DEF Spec, MatchesAreRaised

-----------------------------------------------------------------------------
(* Incidents and their audit entries *)

LEMMA PairIsAppend == ASSUME NEW S, NEW a \in S, NEW b \in S PROVE Append(<<a>>, b) = <<a, b>>
<1>1. /\ <<a>> \in Seq(S) /\ <<a, b>> \in Seq(S) /\ Append(<<a>>, b) \in Seq(S)
      /\ Len(Append(<<a>>, b)) = 2 /\ Append(<<a>>, b)[1] = a /\ Append(<<a>>, b)[2] = b
  BY AppendProperties
<1>2. Len(<<a, b>>) = 2 /\ <<a, b>>[1] = a /\ <<a, b>>[2] = b /\ \A i \in 1 .. 2 : i \in {1, 2}
  OBVIOUS
<1>3. \A i \in 1 .. 2 : Append(<<a>>, b)[i] = <<a, b>>[i]
  BY <1>1, <1>2
<1> QED
  BY <1>1, <1>2, <1>3, SeqEqual

LEMMA TripleIsAppend ==
  ASSUME NEW S, NEW a \in S, NEW b \in S, NEW c \in S
  PROVE  Append(<<a, b>>, c) = <<a, b, c>>
<1>1. /\ <<a, b>> \in Seq(S) /\ <<a, b, c>> \in Seq(S) /\ Append(<<a, b>>, c) \in Seq(S)
      /\ Len(Append(<<a, b>>, c)) = 3
      /\ Append(<<a, b>>, c)[1] = a /\ Append(<<a, b>>, c)[2] = b /\ Append(<<a, b>>, c)[3] = c
  BY AppendProperties
<1>2. /\ Len(<<a, b, c>>) = 3 /\ <<a, b, c>>[1] = a /\ <<a, b, c>>[2] = b /\ <<a, b, c>>[3] = c
      /\ \A i \in 1 .. 3 : i \in {1, 2, 3}
  OBVIOUS
<1>3. \A i \in 1 .. 3 : Append(<<a, b>>, c)[i] = <<a, b, c>>[i]
  BY <1>1, <1>2
<1> QED
  BY <1>1, <1>2, <1>3, SeqEqual

LEMMA Trails ==
  ASSUME NEW row \in IncidentRow
  PROVE  /\ row.acknowledgedBy = Null /\ row.resolvedBy = Null => Trail(row) = <<"OPEN">>
         /\ row.acknowledgedBy # Null /\ row.resolvedBy = Null => Trail(row) = <<"OPEN", "ACKNOWLEDGED">>
         /\ row.acknowledgedBy = Null /\ row.resolvedBy # Null => Trail(row) = <<"OPEN", "RESOLVED">>
         /\ row.acknowledgedBy # Null /\ row.resolvedBy # Null =>
              Trail(row) = <<"OPEN", "ACKNOWLEDGED", "RESOLVED">>
<1> DEFINE T == Seq(IncidentStatus)
<1>1. /\ <<"OPEN">> \in T /\ <<"OPEN", "ACKNOWLEDGED">> \in T
      /\ "ACKNOWLEDGED" \in IncidentStatus /\ "RESOLVED" \in IncidentStatus /\ "OPEN" \in IncidentStatus
  BY DEF IncidentStatus
<1>2. /\ <<"OPEN">> \o << >> = <<"OPEN">>
      /\ <<"OPEN", "ACKNOWLEDGED">> \o << >> = <<"OPEN", "ACKNOWLEDGED">>
  BY <1>1, ConcatEmptySeq
<1>3. /\ <<"OPEN">> \o <<"ACKNOWLEDGED">> = Append(<<"OPEN">>, "ACKNOWLEDGED")
      /\ <<"OPEN">> \o <<"RESOLVED">> = Append(<<"OPEN">>, "RESOLVED")
      /\ <<"OPEN", "ACKNOWLEDGED">> \o <<"RESOLVED">> = Append(<<"OPEN", "ACKNOWLEDGED">>, "RESOLVED")
  BY <1>1, AppendIsConcat
<1>4. /\ <<"OPEN">> \o <<"ACKNOWLEDGED">> = <<"OPEN", "ACKNOWLEDGED">>
      /\ <<"OPEN">> \o <<"RESOLVED">> = <<"OPEN", "RESOLVED">>
      /\ <<"OPEN", "ACKNOWLEDGED">> \o <<"RESOLVED">> = <<"OPEN", "ACKNOWLEDGED", "RESOLVED">>
  BY <1>1, <1>3, PairIsAppend, TripleIsAppend
<1> QED
  BY <1>2, <1>4 DEF Trail

(* The status of an incident tells who can have handled it.                *)
RowFits(row) ==
  /\ row.status = "OPEN" => row.acknowledgedBy = Null /\ row.resolvedBy = Null
  /\ row.status = "ACKNOWLEDGED" => row.acknowledgedBy # Null /\ row.resolvedBy = Null
  /\ row.status = "RESOLVED" => row.resolvedBy # Null

LogFits ==
  \A i \in DOMAIN incidents : RowFits(incidents[i]) /\ incidentLog[i] = Trail(incidents[i])

LEMMA MovedFits ==
  ASSUME NEW row \in IncidentRow, RowFits(row), NEW q, q.outcome \in {"ACKNOWLEDGED", "RESOLVED"},
         q.by \in User, row.status \in Allowed(q.outcome)
  PROVE  RowFits(Moved(row, q)) /\ Append(Trail(row), q.outcome) = Trail(Moved(row, q))
<1>1. /\ Moved(row, q) \in IncidentRow /\ Moved(row, q).status = q.outcome /\ q.by # Null
      /\ Moved(row, q).acknowledgedBy = IF q.outcome = "ACKNOWLEDGED" THEN q.by ELSE row.acknowledgedBy
      /\ Moved(row, q).resolvedBy = IF q.outcome = "RESOLVED" THEN q.by ELSE row.resolvedBy
  BY MovedRow, AlertsNullAssumption
<1>2. row.status \in {"OPEN", "ACKNOWLEDGED"} /\ row.resolvedBy = Null
  BY DEF Allowed, RowFits
<1>3. RowFits(Moved(row, q))
  BY <1>1, <1>2 DEF RowFits
<1>4. /\ Append(<<"OPEN">>, "ACKNOWLEDGED") = <<"OPEN", "ACKNOWLEDGED">>
      /\ Append(<<"OPEN">>, "RESOLVED") = <<"OPEN", "RESOLVED">>
      /\ Append(<<"OPEN", "ACKNOWLEDGED">>, "RESOLVED") = <<"OPEN", "ACKNOWLEDGED", "RESOLVED">>
  <2>1. {"OPEN", "ACKNOWLEDGED", "RESOLVED"} = IncidentStatus
    BY DEF IncidentStatus
  <2>2. "OPEN" \in IncidentStatus /\ "ACKNOWLEDGED" \in IncidentStatus /\ "RESOLVED" \in IncidentStatus
    BY <2>1
  <2> QED
    BY <2>2, PairIsAppend, TripleIsAppend
<1>5. CASE q.outcome = "ACKNOWLEDGED"
  <2>1. row.acknowledgedBy = Null /\ Trail(row) = <<"OPEN">>
    BY <1>2, <1>5, Trails DEF Allowed, RowFits
  <2>2. Trail(Moved(row, q)) = <<"OPEN", "ACKNOWLEDGED">>
    BY <1>1, <1>2, <1>5, Trails
  <2> QED
    BY <1>3, <1>5, <1>4, <2>1, <2>2
<1>6. CASE q.outcome = "RESOLVED" /\ row.acknowledgedBy = Null
  <2>1. Trail(row) = <<"OPEN">> /\ Trail(Moved(row, q)) = <<"OPEN", "RESOLVED">>
    BY <1>1, <1>2, <1>6, Trails
  <2> QED
    BY <1>3, <1>6, <1>4, <2>1
<1>7. CASE q.outcome = "RESOLVED" /\ row.acknowledgedBy # Null
  <2>1. Trail(row) = <<"OPEN", "ACKNOWLEDGED">> /\ Trail(Moved(row, q)) = <<"OPEN", "ACKNOWLEDGED", "RESOLVED">>
    BY <1>1, <1>2, <1>7, Trails
  <2> QED
    BY <1>3, <1>7, <1>4, <2>1
<1> QED
  BY <1>5, <1>6, <1>7

(* Steps that touch no incident. *)
LEMMA IncidentSteps ==
  ASSUME [Next]_vars
  PROVE  \/ UNCHANGED <<incidents, incidentLog>>
         \/ \E h \in Handler : IngestCommit(h) \/ (Transition(h) /\ Moving(h))
BY ZenonT(60) DEF Next, Arrive, Abort, Serve, CreateRule, RuleLoad, UpdateRule, DeleteRule, MatchRules, ProbeIncident,
       FlushIncident, Victim, IncidentLoad, Transition, Moving, alertTables, vars

LEMMA NextLogFits == Basics /\ LogFits /\ [Next]_vars => LogFits'
<1> SUFFICES ASSUME Basics, LogFits, [Next]_vars PROVE LogFits'
  OBVIOUS
<1>1. CASE UNCHANGED <<incidents, incidentLog>>
  BY <1>1 DEF LogFits
<1>2. ASSUME NEW h \in Handler, IngestCommit(h) PROVE LogFits'
  <2> SUFFICES ASSUME NEW i \in DOMAIN incidents'
               PROVE  RowFits(incidents'[i]) /\ incidentLog'[i] = Trail(incidents'[i])
    BY DEF LogFits
  <2>1. CASE i \in DOMAIN incidents
    <3>1. incidents'[i] = incidents[i] /\ incidentLog'[i] = incidentLog[i]
      BY <1>2, <2>1, CommitAdds
    <3> QED
      BY <2>1, <3>1 DEF LogFits
  <2>2. CASE i \notin DOMAIN incidents
    <3>1. PICK n \in DOMAIN work[h].mine : i = Len(incidents) + n
      BY <1>2, <2>2, CommitKeysAdded
    <3>2. incidents'[i] = NewIncidents(h)[n] /\ incidentLog'[i] = <<"OPEN">> /\ incidents' \in Seq(IncidentRow)
      BY <1>2, <3>1, CommitAdds DEF TablesOK
    <3>3. incidents'[i] \in IncidentRow
      BY <3>2
    <3>4. NewIncidents(h)[n].status = "OPEN" /\ NewIncidents(h)[n].acknowledgedBy = Null
          /\ NewIncidents(h)[n].resolvedBy = Null
      BY DEF NewIncidents
    <3> QED
      BY <3>2, <3>3, <3>4, Trails DEF RowFits
  <2> QED
    BY <2>1, <2>2
<1>3. ASSUME NEW h \in Handler, Transition(h), Moving(h) PROVE LogFits'
  <2>1. PICK i : i = req[h].incident
    OBVIOUS
  <2>2. /\ i \in DOMAIN incidents /\ DOMAIN incidents' = DOMAIN incidents
        /\ incidents[i] \in IncidentRow /\ incidents'[i] = Moved(incidents[i], req[h])
        /\ incidentLog'[i] = Append(incidentLog[i], req[h].outcome)
        /\ \A k \in DOMAIN incidents : k # i => incidents'[k] = incidents[k] /\ incidentLog'[k] = incidentLog[k]
        /\ req[h].outcome \in {"ACKNOWLEDGED", "RESOLVED"} /\ req[h].by \in User
    BY <1>3, <2>1, TransitionSets
  <2>3. RowFits(incidents[i]) /\ incidentLog[i] = Trail(incidents[i])
    BY <2>2 DEF LogFits
  <2>4. RowFits(incidents'[i]) /\ incidentLog'[i] = Trail(incidents'[i])
    BY <1>3, <2>1, <2>2, <2>3, MovedFits DEF Moving
  <2> QED
    BY <2>2, <2>4 DEF LogFits
<1> QED
  BY <1>1, <1>2, <1>3, IncidentSteps

(* An event leaves one incident of a rule, and the audit log tells what    *)
(* became of it, step by step.                                             *)
THEOREM LogTellsIncidents == Spec => []LogTellsIncident
<1>1. Init => LogFits
  BY DEF Init, LogFits
<1>2. Basics /\ KeysFit /\ LogFits => LogTellsIncident
  <2> SUFFICES ASSUME Basics, KeysFit, LogFits PROVE LogTellsIncident
    OBVIOUS
  <2>1. DOMAIN incidentLog = DOMAIN incidents
    BY DEF Basics, AlertsTypeOK, Tables
  <2>2. ASSUME NEW i \in DOMAIN incidents PROVE incidents[i].status = incidentLog[i][Len(incidentLog[i])]
    <3>1. incidents[i] \in IncidentRow /\ RowFits(incidents[i]) /\ incidentLog[i] = Trail(incidents[i])
      BY DEF LogFits, Basics, AlertsTypeOK
    <3>2. incidents[i].status \in {"OPEN", "ACKNOWLEDGED", "RESOLVED"}
      BY <3>1 DEF IncidentRow, IncidentStatus
    <3> DEFINE row == incidents[i]
               log == incidentLog[i]
    <3>3. CASE row.status = "OPEN"
      <4>1. log = <<"OPEN">>
        BY <3>1, <3>3, Trails DEF RowFits
      <4> QED
        BY <3>3, <4>1
    <3>4. CASE row.status = "ACKNOWLEDGED"
      <4>1. log = <<"OPEN", "ACKNOWLEDGED">>
        BY <3>1, <3>4, Trails DEF RowFits
      <4> QED
        BY <3>4, <4>1
    <3>5. CASE row.status = "RESOLVED"
      <4>1. log = <<"OPEN", "RESOLVED">> \/ log = <<"OPEN", "ACKNOWLEDGED", "RESOLVED">>
        BY <3>1, <3>5, Trails DEF RowFits
      <4>2. ASSUME log = <<"OPEN", "RESOLVED">> PROVE log[Len(log)] = "RESOLVED"
        BY <4>2
      <4>3. ASSUME log = <<"OPEN", "ACKNOWLEDGED", "RESOLVED">> PROVE log[Len(log)] = "RESOLVED"
        BY <4>3
      <4> QED
        BY <3>5, <4>1, <4>2, <4>3
    <3> QED
      BY <3>2, <3>3, <3>4, <3>5
  <2> QED
    BY <2>1, <2>2 DEF LogTellsIncident, Basics, KeysFit, OneIncidentEach, LogFits
<1> QED
  BY <1>1, <1>2, NextLogFits, AlwaysBasics, AlwaysKeysFit, PTL DEF Spec

(* What became of an incident stays: its rule and source, who acknowledged *)
(* it, and everything once it is resolved.                                 *)
THEOREM IncidentsOnlyMoveOn == Spec => IncidentsMoveOn
<1>1. Basics /\ [Next]_vars =>
        [\A i \in DOMAIN incidents :
           LET old == incidents[i]
               new == incidents'[i]
           IN
           /\ new.rule = old.rule /\ new.source = old.source
           /\ old.status = "RESOLVED" => new = old
           /\ old.status = "ACKNOWLEDGED" =>
                new.status # "OPEN" /\ new.acknowledgedBy = old.acknowledgedBy]_incidents
  <2> SUFFICES ASSUME Basics, [Next]_vars, incidents' # incidents, NEW i \in DOMAIN incidents
               PROVE  /\ incidents'[i].rule = incidents[i].rule /\ incidents'[i].source = incidents[i].source
                      /\ incidents[i].status = "RESOLVED" => incidents'[i] = incidents[i]
                      /\ incidents[i].status = "ACKNOWLEDGED" =>
                           /\ incidents'[i].status # "OPEN"
                           /\ incidents'[i].acknowledgedBy = incidents[i].acknowledgedBy
    OBVIOUS
  <2>1. CASE incidents'[i] = incidents[i]
    BY <2>1
  <2>2. ASSUME NEW h \in Handler, IngestCommit(h) PROVE incidents'[i] = incidents[i]
    BY <2>2, CommitAdds
  <2>3. ASSUME NEW h \in Handler, Transition(h), Moving(h), incidents'[i] # incidents[i]
        PROVE  /\ i = req[h].incident /\ incidents'[i] = Moved(incidents[i], req[h])
               /\ incidents[i] \in IncidentRow
               /\ req[h].outcome \in {"ACKNOWLEDGED", "RESOLVED"} /\ req[h].by \in User
    BY <2>3, TransitionSets
  <2>4. ASSUME NEW h \in Handler, Transition(h), Moving(h), incidents'[i] # incidents[i]
        PROVE  /\ incidents'[i].rule = incidents[i].rule /\ incidents'[i].source = incidents[i].source
               /\ incidents[i].status # "RESOLVED"
               /\ incidents[i].status = "ACKNOWLEDGED" =>
                    /\ incidents'[i].status # "OPEN"
                    /\ incidents'[i].acknowledgedBy = incidents[i].acknowledgedBy
    <3>1. incidents[i].status \in Allowed(req[h].outcome)
      BY <2>3, <2>4 DEF Moving
    <3> QED
      BY <2>3, <2>4, <3>1, MovedRow DEF Allowed
  <2> QED
    BY <2>1, <2>2, <2>4, IncidentSteps
<1> QED
  BY <1>1, AlwaysBasics, PTL DEF Spec, IncidentsMoveOn

-----------------------------------------------------------------------------
(* Rules, as long as requests do not overlap *)

OneAtATime == Quiet => \A g, h \in Handler : Busy(g) /\ Busy(h) => g = h

LEMMA QuietBefore == [Next]_vars /\ Quiet' => Quiet
<1> SUFFICES ASSUME [Next]_vars PROVE Quiet' => Quiet
  OBVIOUS
<1>1. ASSUME NEW h \in Handler, Serve(h) \/ Abort(h) PROVE overlap' = overlap
  BY <1>1, ServeMovesOne
<1>2. ASSUME NEW h \in Handler, NEW q \in Requests, Arrive(h, q) PROVE Quiet' => Quiet
  BY <1>2 DEF Arrive, Receive, Quiet
<1> QED
  BY <1>1, <1>2 DEF Next, Quiet, vars

LEMMA NextOneAtATime == Basics /\ OneAtATime /\ [Next]_vars => OneAtATime'
<1> SUFFICES ASSUME Basics, OneAtATime, [Next]_vars, Quiet', NEW g \in Handler, NEW h \in Handler,
                    Busy(g)', Busy(h)'
             PROVE  g = h
  BY DEF OneAtATime
<1>0. Quiet /\ pc \in [Handler -> {"idle", "load", "check", "scan", "commit", "done"}]
  BY QuietBefore DEF Basics, AlertsTypeOK, HandlersTypeOK
<1>1. ASSUME NEW k \in Handler, Serve(k) \/ Abort(k), NEW j \in Handler, Busy(j)' PROVE Busy(j)
  <2>1. Busy(k) /\ (j # k => pc'[j] = pc[j])
    BY <1>0, <1>1, ServeMovesOne
  <2> QED
    BY <1>1, <2>1 DEF Busy
<1>2. ASSUME NEW k \in Handler, NEW q \in Requests, Arrive(k, q), NEW j \in Handler, Busy(j)' PROVE j = k
  <2>1. pc' = [pc EXCEPT ![k] = "load"] /\ ~ \E i \in Handler : Busy(i)
    BY <1>2 DEF Arrive, Receive, Quiet
  <2> QED
    BY <1>0, <1>2, <2>1 DEF Busy
<1>3. CASE UNCHANGED vars
  BY <1>0, <1>3 DEF OneAtATime, Busy, vars
<1> QED
  BY <1>0, <1>1, <1>2, <1>3 DEF Next, OneAtATime

(* The row a request has loaded is the row stored, every rule stored is    *)
(* valid, and its last audit entry tells whether it is active.             *)
RulesFit ==
  Quiet =>
    /\ \A h \in Handler : pc[h] = "commit" /\ req[h].op \in {"patch", "delete"} =>
         work[h] = rules[req[h].rule]
    /\ RulesAreValid
    /\ \A r \in DOMAIN rules : rules[r].status = ruleLog[r][Len(ruleLog[r])]

LEMMA RuleSteps ==
  ASSUME [Next]_vars
  PROVE  \/ UNCHANGED <<rules, ruleLog>>
         \/ \E h \in Handler : CreateRule(h) \/ UpdateRule(h) \/ DeleteRule(h)
BY ZenonT(60) DEF Next, Arrive, Abort, Serve, CreateRule, RuleLoad, MatchRules, ProbeIncident,
       FlushIncident, Victim, IngestCommit, IncidentLoad, Transition, alertTables, vars

(* No step of another request comes between a load and its commit.         *)
LEMMA LoadedStays ==
  ASSUME Basics, OneAtATime, RulesFit, [Next]_vars, Quiet', NEW h \in Handler,
         pc'[h] = "commit", req'[h].op \in {"patch", "delete"}
  PROVE  work'[h] = rules'[req'[h].rule]
<1>0. /\ Quiet /\ pc \in [Handler -> {"idle", "load", "check", "scan", "commit", "done"}]
      /\ work \in [Handler -> Session \cup {Null}]
  BY QuietBefore DEF Basics, AlertsTypeOK, HandlersTypeOK
<1>1. ASSUME NEW g \in Handler, Serve(g) \/ Abort(g) PROVE g = h
  <2>1. Busy(g) /\ (g # h => pc'[h] = pc[h])
    BY <1>0, <1>1, ServeMovesOne
  <2> QED
    BY <1>0, <2>1 DEF OneAtATime, Busy
<1>2. ASSUME NEW g \in Handler, NEW q \in Requests, Arrive(g, q) PROVE FALSE
  <2>1. pc[g] = "idle" /\ pc' = [pc EXCEPT ![g] = "load"] /\ ~ \E k \in Handler : Busy(k)
    BY <1>2 DEF Arrive, Receive, Quiet
  <2>2. g # h /\ pc'[h] = pc[h]
    BY <1>0, <2>1
  <2> QED
    BY <2>1, <2>2 DEF Busy
<1>3. CASE Serve(h) \/ Abort(h)
  <2>1. req' = req
    BY <1>3, ServeMovesOne
  <2>2. ~ Abort(h)
    BY <1>0 DEF Abort, Die, Respond
  <2>3. RuleLoad(h)
    BY <1>0, <1>3, <2>1, <2>2
       DEF Serve, CreateRule, RuleLoad, UpdateRule, DeleteRule, MatchRules, ProbeIncident, FlushIncident,
           Flushing, Settle, Victim, IngestCommit, IncidentLoad, Transition, Continue, Respond
  <2>4. Continue(h, "commit", rules[req[h].rule]) /\ UNCHANGED rules
    BY <1>0, <2>3 DEF RuleLoad, Respond, alertTables
  <2> QED
    BY <1>0, <2>4 DEF Continue
<1>4. CASE UNCHANGED vars
  BY <1>0, <1>4 DEF RulesFit, vars
<1> QED
  BY <1>1, <1>2, <1>3, <1>4 DEF Next

(* A rule that was written is valid, and its audit entry tells its status. *)
Told(row, log) == Valid(row) /\ row.status = log[Len(log)]

LEMMA SetRuleTold ==
  ASSUME TablesOK, NEW r \in DOMAIN rules, NEW new \in RuleRow, Valid(new),
         rules' = [rules EXCEPT ![r] = new], LogRule(r, new.status), UNCHANGED <<incidents, incidentLog>>
  PROVE  /\ DOMAIN rules' = DOMAIN rules /\ Told(rules'[r], ruleLog'[r])
         /\ \A k \in DOMAIN rules : k # r => rules'[k] = rules[k] /\ ruleLog'[k] = ruleLog[k]
<1>1. new.status \in RuleStatus
  BY DEF RuleRow
<1>2. /\ DOMAIN rules' = DOMAIN rules
      /\ rules'[r] = new /\ ruleLog'[r] = Append(ruleLog[r], new.status) /\ ruleLog[r] \in Seq(RuleStatus)
      /\ \A k \in DOMAIN rules : k # r => rules'[k] = rules[k] /\ ruleLog'[k] = ruleLog[k]
  BY <1>1, SetRule
<1> DEFINE log == ruleLog[r]
           status == new.status
<1>3. log \in Seq(RuleStatus) /\ status \in RuleStatus
  BY <1>1, <1>2
<1> HIDE DEF log, status
<1>4. Append(log, status)[Len(Append(log, status))] = status
  BY <1>3
<1> QED
  BY <1>2, <1>4 DEF Told, log, status

(* What an update or a delete of the row it has loaded stores.             *)
LEMMA WrittenOver ==
  ASSUME TablesOK, NEW r \in DOMAIN rules, NEW loaded, NEW new \in RuleRow, loaded = rules[r],
         rules' = [rules EXCEPT ![r] = Written(loaded, new, @)]
  PROVE  rules' = [rules EXCEPT ![r] = new]
<1>1. rules[r] \in RuleRow
  BY DEF TablesOK, Tables
<1>2. Written(loaded, new, rules[r]) = new
  BY <1>1, WrittenRow
<1> QED
  BY <1>2

LEMMA RuleTold ==
  ASSUME Basics, Quiet, RulesFit, NEW h \in Handler, CreateRule(h) \/ UpdateRule(h) \/ DeleteRule(h),
         NEW r \in DOMAIN rules'
  PROVE  Told(rules'[r], ruleLog'[r])
<1> DEFINE q == req[h]
<1>1. q \in Requests /\ RequestFits(h) /\ TablesOK
  BY At DEF CreateRule, UpdateRule, DeleteRule
<1>2. \A k \in DOMAIN rules : Told(rules[k], ruleLog[k])
  BY DEF RulesFit, RulesAreValid, Told
<1>3. CASE CreateRule(h)
  <2> DEFINE row == Changed(q.data, NoRule)
  <2>1. q.data \in RuleData
    BY <1>1, <1>3, OpFacts DEF CreateRule
  <2>2. CASE Valid(row)
    <3>1. row \in RuleRow
      BY <2>1, <2>2, ChangedRow
    <3>2. /\ rules' = Append(rules, row) /\ ruleLog' = Append(ruleLog, <<row.status>>)
          /\ UNCHANGED <<incidents, incidentLog>>
      BY <1>3, <2>2 DEF CreateRule
    <3> HIDE DEF row
    <3>3. /\ DOMAIN rules' = DOMAIN rules \cup {Len(rules) + 1}
          /\ rules'[Len(rules) + 1] = row /\ ruleLog'[Len(rules) + 1] = <<row.status>>
          /\ \A k \in DOMAIN rules : rules'[k] = rules[k] /\ ruleLog'[k] = ruleLog[k]
      BY <1>1, <3>1, <3>2, AppendRule
    <3>4. CASE r \in DOMAIN rules
      BY <1>2, <3>3, <3>4
    <3>5. CASE r = Len(rules) + 1
      <4>1. rules'[r] = row /\ ruleLog'[r] = <<row.status>>
        BY <3>3, <3>5
      <4>2. ruleLog'[r][Len(ruleLog'[r])] = row.status
        BY <4>1
      <4> QED
        BY <2>2, <4>1, <4>2 DEF Told
    <3> QED
      BY <3>3, <3>4, <3>5
  <2>3. CASE ~ Valid(row)
    <3>1. UNCHANGED <<rules, ruleLog>>
      BY <1>3, <2>3 DEF CreateRule
    <3> QED
      BY <1>2, <3>1
  <2> QED
    BY <2>2, <2>3
<1>4. CASE UpdateRule(h)
  <2> DEFINE new == Changed(q.data, work[h])
  <2>1. /\ pc[h] = "commit" /\ q.op = "patch" /\ UNCHANGED <<incidents, incidentLog>>
        /\ rules' = [rules EXCEPT ![q.rule] = Written(work[h], new, @)] /\ LogRule(q.rule, new.status)
    BY <1>4 DEF UpdateRule
  <2>2. /\ q.data \in RuleData /\ work[h] \in RuleRow /\ q.rule \in DOMAIN rules /\ Valid(new)
        /\ work[h] = rules[q.rule]
    BY <1>1, <2>1, OpFacts DEF RequestFits, RulesFit
  <2>3. new \in RuleRow
    BY <2>2, ChangedRow
  <2> HIDE DEF new
  <2>4. rules' = [rules EXCEPT ![q.rule] = new]
    BY <1>1, <2>1, <2>2, <2>3, WrittenOver, ZenonT(60)
  <2>5. /\ DOMAIN rules' = DOMAIN rules /\ Told(rules'[q.rule], ruleLog'[q.rule])
        /\ \A k \in DOMAIN rules : k # q.rule => rules'[k] = rules[k] /\ ruleLog'[k] = ruleLog[k]
    BY <1>1, <2>1, <2>2, <2>3, <2>4, SetRuleTold
  <2> QED
    BY <1>2, <2>5
<1>5. CASE DeleteRule(h)
  <2> DEFINE new == [work[h] EXCEPT !.status = "INACTIVE"]
  <2>1. /\ pc[h] = "commit" /\ q.op = "delete" /\ UNCHANGED <<incidents, incidentLog>>
        /\ rules' = [rules EXCEPT ![q.rule] = Written(work[h], new, @)] /\ LogRule(q.rule, "INACTIVE")
    BY <1>5 DEF DeleteRule
  <2>2. /\ work[h] \in RuleRow /\ q.rule \in DOMAIN rules /\ work[h] = rules[q.rule]
    BY <1>1, <2>1 DEF RequestFits, RulesFit
  <2>3. Valid(work[h])
    BY <2>2 DEF RulesFit, RulesAreValid
  <2>4. new \in RuleRow /\ new.status = "INACTIVE"
    BY <2>2 DEF RuleRow, RuleStatus
  <2>5. Valid(new)
    BY <2>2, <2>3 DEF Valid, Compatible, InScope, RuleRow
  <2> HIDE DEF new
  <2>6. LogRule(q.rule, new.status)
    BY <2>1, <2>4
  <2>7. rules' = [rules EXCEPT ![q.rule] = new]
    BY <1>1, <2>1, <2>2, <2>4, WrittenOver, ZenonT(60)
  <2>8. /\ DOMAIN rules' = DOMAIN rules /\ Told(rules'[q.rule], ruleLog'[q.rule])
        /\ \A k \in DOMAIN rules : k # q.rule => rules'[k] = rules[k] /\ ruleLog'[k] = ruleLog[k]
    BY <1>1, <2>1, <2>2, <2>4, <2>5, <2>6, <2>7, SetRuleTold
  <2> QED
    BY <1>2, <2>8
<1> QED
  BY <1>3, <1>4, <1>5

LEMMA NextRulesFit == Basics /\ OneAtATime /\ RulesFit /\ [Next]_vars => RulesFit'
<1> SUFFICES ASSUME Basics, OneAtATime, RulesFit, [Next]_vars, Quiet' PROVE RulesFit'
  BY DEF RulesFit
<1>1. Quiet
  BY QuietBefore
<1>2. \A h \in Handler : pc'[h] = "commit" /\ req'[h].op \in {"patch", "delete"} =>
        work'[h] = rules'[req'[h].rule]
  BY LoadedStays
<1>3. ASSUME NEW r \in DOMAIN rules' PROVE Told(rules'[r], ruleLog'[r])
  <2>1. CASE UNCHANGED <<rules, ruleLog>>
    <3>1. Told(rules[r], ruleLog[r])
      BY <1>1, <1>3, <2>1 DEF RulesFit, RulesAreValid, Told
    <3> QED
      BY <2>1, <3>1
  <2> QED
    BY <1>1, <1>3, <2>1, RuleTold, RuleSteps
<1> QED
  BY <1>2, <1>3 DEF RulesFit, RulesAreValid, Told

(* As long as no two requests overlap, every rule stored is valid and its  *)
(* last audit entry tells whether it is active.                            *)
THEOREM RulesKeepValid == Spec => []RulesStayValid
<1>1. Init => OneAtATime /\ RulesFit
  <2> SUFFICES ASSUME Init PROVE OneAtATime /\ RulesFit
    OBVIOUS
  <2>1. OneAtATime
    BY DEF Init, HandlersInit, OneAtATime, Busy
  <2>2. \A h \in Handler : pc[h] = "idle"
    BY DEF Init, HandlersInit
  <2>3. RulesAreValid
    BY StoredRulesAssumption DEF Init, RulesAreValid
  <2>4. ASSUME NEW r \in DOMAIN rules PROVE rules[r].status = ruleLog[r][Len(ruleLog[r])]
    <3>1. ruleLog[r] = <<rules[r].status>>
      BY <2>4 DEF Init
    <3> QED
      BY <3>1
  <2> QED
    BY <2>1, <2>2, <2>3, <2>4 DEF RulesFit
<1>2. RulesFit => RulesStayValid
  BY DEF RulesFit, RulesStayValid
<1> QED
  BY <1>1, <1>2, NextOneAtATime, NextRulesFit, AlwaysBasics, PTL DEF Spec

=============================================================================
