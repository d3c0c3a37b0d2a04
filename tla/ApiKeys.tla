------------------------------- MODULE ApiKeys -------------------------------
(***************************************************************************)
(* API keys and the ingestion they admit: api/v1/api_keys, services/api_key *)
(* core/ingest_auth, and trace start with its checks of scope.  Resolving  *)
(* a key marks it as used; that UPDATE is sent before the next query and   *)
(* holds the row of the key until the request commits.                     *)
(***************************************************************************)
EXTENDS Privacy, Projects

CONSTANT StoredKeys

VARIABLE keys      (* the table api_keys; a row that is deleted turns Null  *)

KeyRow ==
  [project : Nat \cup {Null}, status : {"ACTIVE", "REVOKED", "EXPIRED"},
   expires : Nat \cup {Null}, used : Nat \cup {Null}]

ASSUME ApiKeysAssumption ==
  /\ Null \notin KeyRow
  /\ StoredKeys \in Seq(KeyRow)
  /\ \A id \in DOMAIN StoredKeys :
       LET project == StoredKeys[id].project IN
       project # Null => /\ project \in DOMAIN StoredCatalog.project
                         /\ StoredCatalog.project[project].parent = Organization
  /\ \A q \in Requests :
       /\ q.op = "key" => {q.project, q.expires} \subseteq Nat \cup {Null}
       /\ q.op = "ingest" =>
            /\ {q.project, q.agent, q.environment} \subseteq Nat \cup {Null}
            /\ {q.key, q.at} \subseteq Nat /\ q.id \in TraceId /\ q.subject \in Subject

Key(id) == IF id \in DOMAIN keys THEN keys[id] ELSE Null

-----------------------------------------------------------------------------
(* create, revoke and delete *)

NewKeyLoad(h) ==
  LET project == req[h].project IN
  /\ pc[h] = "load" /\ req[h].op = "key"
  /\ IF project = Null \/ Visible("project", project)
     THEN Continue(h, "commit", Null) ELSE Respond(h, 404, Null)
  /\ UNCHANGED <<keys, privacy, ledger>>

CreateKey(h) ==
  LET q == req[h] IN
  /\ pc[h] = "commit" /\ q.op = "key"
  /\ IF q.project # Null /\ Row("project", q.project) = Null
     THEN Respond(h, 500, Null) /\ UNCHANGED <<keys, log>>
     ELSE /\ keys' = Append(keys, [project |-> q.project, status |-> "ACTIVE",
                                   expires |-> q.expires, used |-> Null])
          /\ log' = Append(log, Entry("key.created", Len(keys'), q.project))
          /\ Respond(h, 201, Len(keys'))
  /\ UNCHANGED <<privacy, now>>

(* Revoke refuses a key that is not active; delete takes any. *)
KeyLoad(h) ==
  LET q == req[h] IN
  /\ pc[h] = "load" /\ q.op \in {"revoke", "delete"}
  /\ IF Key(q.key) = Null THEN Respond(h, 404, Null)
     ELSE IF q.op = "revoke" /\ Key(q.key).status # "ACTIVE" THEN Respond(h, 409, Null)
     ELSE Continue(h, "commit", Null)
  /\ UNCHANGED <<keys, privacy, ledger>>

(* Requests whose transaction holds the row of a key. *)
Holds(g, id) == pc[g] \in {"scan", "commit"} /\ req[g].op = "ingest" /\ req[g].key = id

Free(id) == \A g \in Handler : ~ Holds(g, id)

(* A row that is gone cannot be updated. *)
Revoke(h) ==
  LET id == req[h].key IN
  /\ pc[h] = "commit" /\ req[h].op = "revoke" /\ Free(id)
  /\ IF Key(id) = Null THEN Respond(h, 500, Null) /\ UNCHANGED <<keys, log>>
     ELSE /\ keys' = [keys EXCEPT ![id].status = "REVOKED"]
          /\ log' = Append(log, Entry("key.revoked", id, Null))
          /\ Respond(h, 200, id)
  /\ UNCHANGED <<privacy, now>>

(* A row that is gone is deleted without complaint. *)
Delete(h) ==
  LET id == req[h].key IN
  /\ pc[h] = "commit" /\ req[h].op = "delete" /\ Free(id)
  /\ keys' = [keys EXCEPT ![id] = Null]
  /\ log' = Append(log, Entry("key.deleted", id, Null))
  /\ Respond(h, 204, Null)
  /\ UNCHANGED <<privacy, now>>

-----------------------------------------------------------------------------
(* Trace start with a key *)

Ingesting(h, label) == pc[h] = label /\ req[h].op = "ingest"

(* _resolve_key: the status and the expiry of the key, once. *)
Resolve(h) ==
  LET key == Key(req[h].key) IN
  /\ Ingesting(h, "load")
  /\ IF key # Null /\ key.status = "ACTIVE" /\ (key.expires = Null \/ now <= key.expires)
     THEN Continue(h, "check", key) ELSE Respond(h, 401, Null)
  /\ UNCHANGED <<keys, privacy, ledger>>

(* _touch_key, sent before the first query of start_trace. *)
TouchKey(h) ==
  LET id == req[h].key IN
  /\ Ingesting(h, "check") /\ Free(id)
  /\ IF Key(id) = Null THEN Respond(h, 500, Null)
     ELSE Continue(h, "scan", [key |-> work[h], at |-> now, project |-> Null])
  /\ UNCHANGED <<keys, privacy, ledger>>

(* The trace of an external id, if there is one. *)
TracesNamed(id) == {n \in Traces : traces[n].id = id}

(* The project a request writes to. *)
Scope(key, project) == IF key.project # Null THEN key.project ELSE project

(* Bug variant of Fits: one of the organisation will do.                   *)
FitsOrganization(kind, id, project) == id = Null \/ Visible(kind, id)

(* _validate_trace_references, of the agent or the environment. *)
Fits(kind, id, project) == id = Null \/ id \in MembersOf(kind, project)

(* start_trace: a trace that exists is answered whatever the scope is; a   *)
(* new one needs a project the key may write to, and an agent and an       *)
(* environment of it.                                                      *)
Admit(h) ==
  LET q       == req[h]
      key     == work[h].key
      project == Scope(key, q.project)
  IN
  /\ Ingesting(h, "scan")
  /\ IF Cardinality(TracesNamed(q.id)) > 1 THEN Respond(h, 500, Null)
     ELSE IF TracesNamed(q.id) # {} THEN Continue(h, "commit", work[h])
     ELSE IF Null \notin {key.project, q.project} /\ q.project # key.project
       THEN Respond(h, 403, Null)
     ELSE IF project = Null THEN Respond(h, 400, Null)
     ELSE IF ~ Visible("project", project) \/ ~ Fits("agent", q.agent, project)
             \/ ~ Fits("environment", q.environment, project)
       THEN Respond(h, 403, Null)
     ELSE Continue(h, "commit", [work[h] EXCEPT !.project = project])
  /\ UNCHANGED <<keys, privacy, ledger>>

(* The client says when a trace started; the row dates from its            *)
(* transaction.  The key is kept for the properties only.                  *)
NewTrace(q, project, stored) ==
  [id |-> q.id, key |-> q.key, project |-> project, agent |-> q.agent,
   environment |-> q.environment, subject |-> q.subject, at |-> q.at, stored |-> stored]

(* The tables with the trace of request h, unless it was stored before. *)
TracesWith(h) ==
  IF work[h].project = Null THEN traces
  ELSE Append(traces, NewTrace(req[h], work[h].project, work[h].at))

(* Bug variant of StoreTrace: the key is written back as it was loaded.    *)
StoreTraceWhole(h) ==
  /\ Ingesting(h, "commit")
  /\ traces' = TracesWith(h)
  /\ keys' = [keys EXCEPT ![req[h].key] = [work[h].key EXCEPT !.used = work[h].at]]
  /\ Respond(h, 201, Null)
  /\ UNCHANGED <<policy, wishes, ledger>>

(* The row a new trace refers to was deleted after it was looked up. *)
Dangling(h) ==
  /\ work[h].project # Null
  /\ \/ Row("project", work[h].project) = Null
     \/ \E kind \in {"agent", "environment"} : req[h][kind] # Null /\ Row(kind, req[h][kind]) = Null

StoreTrace(h) ==
  /\ Ingesting(h, "commit")
  /\ IF Dangling(h) THEN Respond(h, 500, Null) /\ UNCHANGED <<traces, keys>>
     ELSE /\ traces' = TracesWith(h)
          /\ keys' = [keys EXCEPT ![req[h].key].used = work[h].at]
          /\ Respond(h, 201, Null)
  /\ UNCHANGED <<policy, wishes, ledger>>

KeysServe(h) ==
  \/ NewKeyLoad(h) \/ CreateKey(h) \/ KeyLoad(h) \/ Revoke(h) \/ Delete(h)
  \/ Resolve(h) \/ TouchKey(h) \/ Admit(h) \/ StoreTrace(h)
=============================================================================
