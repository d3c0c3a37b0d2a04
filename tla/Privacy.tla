------------------------------- MODULE Privacy -------------------------------
(***************************************************************************)
(* Retention, the requests of data subjects, export and anonymisation:     *)
(* services/privacy and api/v1/privacy.  Retention deletes traces that     *)
(* ingestion stores and entries of the audit log itself.                   *)
(***************************************************************************)
EXTENDS AuditLog, Integers, FiniteSets

CONSTANTS
  TraceId,          (* external ids of traces                               *)
  Subject,          (* values of user_reference in telemetry                *)
  PlainSubject,     (* those that read like personal data                   *)
  StoredTraces,
  StoredPolicy

VARIABLES
  traces,           (* the table traces; a row that is deleted turns Null   *)
  policy,           (* the retention policy of the organisation, or Null    *)
  wishes            (* the table privacy_requests                           *)

privacy == <<traces, policy, wishes>>

Traces == {n \in DOMAIN traces : traces[n] # Null}

Hash(s) == <<"hash", s>>

DefaultPolicy == [traces |-> 90, audit |-> 365]

Days == Int \cup {Null}

RetentionPolicy == [traces : Days, audit : Days]

TraceRow ==
  [id : TraceId, key : Nat, project : Nat \cup {Null}, agent : Nat \cup {Null},
   environment : Nat \cup {Null}, subject : Subject, at : Nat, stored : Nat]

(* The periods of a policy are not validated. *)
ASSUME PrivacyAssumption ==
  /\ PlainSubject \subseteq Subject
  /\ Null \notin TraceRow \cup RetentionPolicy \cup Int
  /\ StoredTraces \in Seq(TraceRow) /\ StoredPolicy \in RetentionPolicy \cup {Null}
  /\ \A q \in Requests :
       /\ q.op = "policy" =>
            \A f \in DOMAIN q.fields : f \in {"traces", "audit"} /\ q.fields[f] \in Days
       /\ q.op = "anonymize" => q.subject \in Subject \cup {Null}

-----------------------------------------------------------------------------
(* create_retention_policy and update_retention_policy are one handler     *)

PolicyLoad(h) ==
  /\ pc[h] = "load" /\ req[h].op = "policy"
  /\ Continue(h, "commit", [policy |-> policy])
  /\ UNCHANGED <<privacy, ledger>>

(* An organisation has one policy: the second INSERT fails. *)
PolicyCommit(h) ==
  LET loaded == work[h].policy IN
  /\ pc[h] = "commit" /\ req[h].op = "policy"
  /\ IF loaded = Null /\ policy # Null
     THEN Respond(h, 500, Null) /\ UNCHANGED <<policy, log>>
     ELSE /\ policy' = IF loaded = Null THEN Set(DefaultPolicy, req[h].fields)
                       ELSE Set(policy, Changed(req[h].fields, loaded))
          /\ log' = Append(log, Entry("policy.updated", Null, req[h].fields))
          /\ Respond(h, 200, Null)
  /\ UNCHANGED <<traces, wishes, now>>

(* Zero days and none both keep everything. *)
Limited(days) == days \notin {Null, 0}

(* Bug variant of Old: a record goes a day late.                           *)
OldByADay(at, days, executed) == Limited(days) /\ at + days + 1 < executed

Old(at, days, executed) == Limited(days) /\ at + days < executed

(* run_retention reads the policy, then the clock, and deletes by both.    *)
RetentionLoad(h) ==
  /\ pc[h] = "load" /\ req[h].op = "retention"
  /\ IF policy = Null THEN Respond(h, 200, Null)
     ELSE Continue(h, "commit", [days |-> policy, executed |-> now])
  /\ UNCHANGED <<privacy, ledger>>

(* It deletes from both tables before it writes its entry; the last row of *)
(* traces that it saw is kept for the properties only.                     *)
RunRetention(h) ==
  LET days     == work[h].days
      executed == work[h].executed
  IN
  /\ pc[h] = "commit" /\ req[h].op = "retention"
  /\ traces' = [n \in DOMAIN traces |->
                  IF n \in Traces /\ Old(traces[n].at, days.traces, executed) THEN Null ELSE traces[n]]
  /\ log' = Append([n \in DOMAIN log |->
                      IF n \in Entries /\ Old(log[n].at, days.audit, executed) THEN Null ELSE log[n]],
                   Entry("retention.executed", Null,
                         [days |-> days, executed |-> executed, upto |-> Len(traces)]))
  /\ Respond(h, 200, Null)
  /\ UNCHANGED <<policy, wishes, now>>

-----------------------------------------------------------------------------
(* Requests of data subjects *)

WishType == {"EXPORT", "DELETION", "RECTIFICATION"}

WishStatus == {"PENDING", "IN_PROGRESS", "COMPLETED", "REJECTED"}

(* The endpoint takes four types, of which the column knows one. *)
CreateWish(h) ==
  LET q   == req[h]
      ref == IF q.subject \in PlainSubject THEN Hash(q.subject) ELSE q.subject
  IN
  /\ pc[h] = "load" /\ q.op = "wish"
  /\ IF q.type \notin {"EXPORT", "ANONYMIZE", "DELETE", "ACCESS"}
       THEN Respond(h, 422, Null) /\ UNCHANGED <<wishes, log>>
     ELSE IF q.type \notin WishType THEN Respond(h, 500, Null) /\ UNCHANGED <<wishes, log>>
     ELSE /\ wishes' = Append(wishes, [type |-> q.type, subject |-> ref,
                                       status |-> "PENDING", completed |-> Null])
          /\ log' = Append(log, Entry("wish.created", Len(wishes'), ref))
          /\ Respond(h, 201, Len(wishes'))
  /\ UNCHANGED <<traces, policy, now>>

WishLoad(h) ==
  LET q == req[h] IN
  /\ pc[h] = "load" /\ q.op = "progress"
  /\ IF q.wish \notin DOMAIN wishes THEN Respond(h, 404, Null)
     ELSE IF q.status \notin WishStatus THEN Respond(h, 500, Null)
     ELSE Continue(h, "commit", [before |-> wishes[q.wish].status])
  /\ UNCHANGED <<privacy, ledger>>

(* Any status may follow any other; the time of completion is kept. *)
WishCommit(h) ==
  LET q == req[h] IN
  /\ pc[h] = "commit" /\ q.op = "progress"
  /\ wishes' = [wishes EXCEPT ![q.wish].status = IF q.status # work[h].before THEN q.status ELSE @,
                              ![q.wish].completed = IF q.status = "COMPLETED" THEN now ELSE @]
  /\ log' = Append(log, Entry("wish.updated", q.wish, q.status))
  /\ Respond(h, 200, q.wish)
  /\ UNCHANGED <<traces, policy, now>>

-----------------------------------------------------------------------------
(* Export and anonymisation; export changes nothing but the log *)

Export(h) ==
  /\ pc[h] = "load" /\ req[h].op = "export"
  /\ log' = Append(log, Entry("data.exported", req[h].subject, Null))
  /\ Respond(h, 200, Null)
  /\ UNCHANGED <<privacy, now>>

(* anonymize_subject sets input_data and output_data, which are columns of *)
(* spans and not of traces: the UPDATE is refused, whoever the subject is. *)
Anonymize(h) ==
  /\ pc[h] = "load" /\ req[h].op = "anonymize"
  /\ Respond(h, IF req[h].subject = Null THEN 422 ELSE 500, Null)
  /\ UNCHANGED <<privacy, ledger>>

PrivacyServe(h) ==
  \/ PolicyLoad(h) \/ PolicyCommit(h) \/ RetentionLoad(h) \/ RunRetention(h)
  \/ CreateWish(h) \/ WishLoad(h) \/ WishCommit(h)
  \/ Export(h) \/ Anonymize(h)
=============================================================================
