------------------------------ MODULE Deletions ------------------------------
(***************************************************************************)
(* delete_project, delete_agent and delete_environment.  The session loads *)
(* what the relationships of models/project reach and deletes it, or takes *)
(* its reference away; what it did not load is left to the foreign keys of *)
(* the database, which do not always say the same.                         *)
(***************************************************************************)
EXTENDS Evaluations, ApiKeys

(* What goes from a table with a row: itself and, if a project, its members. *)
Goes(kind, id, table) ==
  IF table = kind THEN {id} ELSE IF kind = "project" THEN MembersOf(table, id) ELSE {}

(* The traces and the keys that refer to a row. *)
TracesOf(kind, id) == {n \in Traces : traces[n][kind] = id}

KeysOf(kind, id) ==
  {n \in DOMAIN keys : kind = "project" /\ keys[n] # Null /\ keys[n].project = id}

DatasetsOf(kind, id) ==
  {n \in DOMAIN datasets : kind = "project" /\ HasDataset(n) /\ datasets[n].project = id}

DropLoad(h) ==
  LET q == req[h] IN
  /\ pc[h] = "load" /\ q.op = "drop"
  /\ IF Visible(q.kind, q.id) /\ q.within \in {Null, Row(q.kind, q.id).parent}
     THEN Continue(h, "commit", [traces |-> TracesOf(q.kind, q.id), keys |-> KeysOf(q.kind, q.id)])
     ELSE Respond(h, 404, Null)
  /\ UNCHANGED <<catalog, keys, privacy, evaluations, pricing, ledger>>

(* Rows that other transactions hold: a key that was marked as used, and   *)
(* the agent and the dataset of a run in progress.                         *)
Waits(h) ==
  LET q == req[h] IN
  \/ \E n \in work[h].keys \cup KeysOf(q.kind, q.id) : ~ Free(n)
  \/ \E g \in Handler : \E label \in {"scan", "check", "commit"} :
       /\ Evaluating(g, label)
       /\ \/ req[g].agent \in Goes(q.kind, q.id, "agent")
          \/ req[g].dataset \in DatasetsOf(q.kind, q.id)

(* An UPDATE of a single row that is gone is an error. *)
Stale(rows, table) == Cardinality(rows) = 1 /\ \A n \in rows : table[n] = Null

CatalogWithout(kind, id) ==
  [k \in Kind |->
     [n \in DOMAIN catalog[k] |-> IF n \in Goes(kind, id, k) THEN Null ELSE catalog[k][n]]]

(* A project takes its traces along, an agent those the session loaded;    *)
(* the others lose the reference, as those of an environment do.           *)
TracesWithout(kind, id, loaded) ==
  [n \in DOMAIN traces |->
     IF n \notin TracesOf(kind, id) THEN traces[n]
     ELSE IF kind = "project" \/ (kind = "agent" /\ n \in loaded) THEN Null
     ELSE [traces[n] EXCEPT ![kind] = Null]]

(* The keys the session loaded lose their project, the others go with it:  *)
(* the relationship cascades nothing, the foreign key does.                *)
KeysWithout(kind, id, loaded) ==
  [n \in DOMAIN keys |->
     IF keys[n] # Null /\ n \in loaded THEN [keys[n] EXCEPT !.project = Null]
     ELSE IF n \in KeysOf(kind, id) THEN Null ELSE keys[n]]

(* A project takes its datasets along. *)
DatasetsWithout(kind, id) ==
  [n \in DOMAIN datasets |-> IF n \in DatasetsOf(kind, id) THEN Null ELSE datasets[n]]

RunsWithout(agents) ==
  [n \in DOMAIN runs |-> IF runs[n].agent \in agents THEN [runs[n] EXCEPT !.agent = Null] ELSE runs[n]]

Drop(h) ==
  LET q      == req[h]
      loaded == work[h]
  IN
  /\ pc[h] = "commit" /\ q.op = "drop" /\ ~ Waits(h)
  /\ IF Stale(loaded.keys, keys) \/ (q.kind = "environment" /\ Stale(loaded.traces, traces))
     THEN Respond(h, 500, Null) /\ UNCHANGED <<catalog, keys, traces, datasets, runs, log>>
     ELSE /\ catalog' = CatalogWithout(q.kind, q.id)
          /\ traces' = TracesWithout(q.kind, q.id, loaded.traces)
          /\ keys' = KeysWithout(q.kind, q.id, loaded.keys)
          /\ datasets' = DatasetsWithout(q.kind, q.id)
          /\ runs' = RunsWithout(Goes(q.kind, q.id, "agent"))
          /\ log' = Append(log, Entry("deleted", <<q.kind, q.id>>, Null))
          /\ Respond(h, 204, Null)
  /\ UNCHANGED <<policy, wishes, cases, results, compared, pricing, now>>

DeletionsServe(h) == DropLoad(h) \/ Drop(h)
=============================================================================
