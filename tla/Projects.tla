------------------------------- MODULE Projects -------------------------------
(***************************************************************************)
(* Projects, and the agents and environments in them: creation and change, *)
(* by api/v1/projects, agents and environments over repositories/project.  *)
(* A row has a parent, the organisation of a project or the project of the *)
(* others, and a name of its own there: the slug, or an environment's name.*)
(***************************************************************************)
EXTENDS AuditLog, SequencesExt

CONSTANTS
  Organizations, Organization,   (* all of them, and the one of the requests *)
  Name,                          (* names, titles and slugs                  *)
  StoredCatalog

Kind == {"project", "agent", "environment"}

VARIABLE catalog    (* the tables projects, agents and environments; a row  *)
                    (* that is deleted turns Null                           *)

Row(kind, id) == IF id \in DOMAIN catalog[kind] THEN catalog[kind][id] ELSE Null

Rows(kind) == {n \in DOMAIN catalog[kind] : catalog[kind][n] # Null}

(* The members of kind of a project. *)
MembersOf(kind, project) == {n \in Rows(kind) : catalog[kind][n].parent = project}

(* Whether the organisation has the row: get_by_id_and_org and its like,   *)
(* which join agents and environments with their projects.                 *)
Visible(kind, id) ==
  LET row == Row(kind, id) IN
  /\ row # Null
  /\ IF kind = "project" THEN row.parent = Organization
     ELSE Row("project", row.parent) # Null /\ Row("project", row.parent).parent = Organization

(* The rows that a unique constraint of the three tables looks for. *)
Named(kind, parent, slug) == {n \in MembersOf(kind, parent) : catalog[kind][n].slug = slug}

ParentExists(kind, parent) == kind = "project" \/ Row("project", parent) # Null

-----------------------------------------------------------------------------
(* create_project, create_agent and create_environment *)

NewRow(q) ==
  [parent |-> q.parent, slug |-> q.slug, title |-> q.title, version |-> <<0, 1, 0>>,
   status |-> "ACTIVE"]

Version == Seq(Nat \cup {Null}) \ {<< >>}

AgentStatus == {"ACTIVE", "PAUSED", "ARCHIVED"}

(* Every row has the columns of an agent. *)
CatalogRow ==
  [parent : Organizations \cup Nat, slug : Name, title : Name, version : Version,
   status : AgentStatus]

(* The audit entries on the versions and the states of rows. *)
ToldEntry ==
  LET Columns == [{"version"} -> Version] \cup [{"status"} -> AgentStatus] IN
  [event : {"bump", "status"}, about : Kind \X Nat, note : [before : Columns, after : Columns], at : Nat]

(* AgentUpdate and its like have neither version nor status. *)
ASSUME ProjectsAssumption ==
  /\ Null \notin CatalogRow \cup ToldEntry \cup Nat
  /\ StoredCatalog \in [Kind -> Seq(CatalogRow)]
  /\ \A kind \in {"agent", "environment"} : \A n \in DOMAIN StoredCatalog[kind] :
       StoredCatalog[kind][n].parent \in DOMAIN StoredCatalog.project
  /\ \A q \in Requests :
       /\ q.op \in {"create", "edit", "bump", "status", "drop"} => q.kind \in Kind
       /\ q.op = "create" => NewRow(q) \in CatalogRow
       /\ q.op = "edit" =>
            \A f \in DOMAIN q.fields : f \in {"slug", "title"} /\ q.fields[f] \in Name
       /\ q.op = "bump" => q.version \in Version \cup {Null}
       /\ q.op = "status" => q.status \in AgentStatus

(* Only the slug of a project is looked up before it is taken. *)
CreateLoad(h) ==
  LET q == req[h] IN
  /\ pc[h] = "load" /\ q.op = "create"
  /\ IF q.kind = "project" /\ Named("project", q.parent, q.slug) # {} THEN Respond(h, 409, Null)
     ELSE IF q.kind # "project" /\ ~ Visible("project", q.parent) THEN Respond(h, 404, Null)
     ELSE Continue(h, "commit", Null)
  /\ UNCHANGED <<catalog, ledger>>

CreateCommit(h) ==
  LET q == req[h] IN
  /\ pc[h] = "commit" /\ q.op = "create"
  /\ IF Named(q.kind, q.parent, q.slug) # {} \/ ~ ParentExists(q.kind, q.parent)
     THEN Respond(h, 500, Null) /\ UNCHANGED <<catalog, log>>
     ELSE LET rows == Append(catalog[q.kind], NewRow(q)) IN
          /\ catalog' = [catalog EXCEPT ![q.kind] = rows]
          /\ log' = Append(log, Entry("created", <<q.kind, Len(rows)>>, Null))
          /\ Respond(h, 201, Len(rows))
  /\ UNCHANGED now

-----------------------------------------------------------------------------
(* The PATCH endpoints, bump_agent_version and update_agent_status *)

(* The parts of a version; Null stands for one that is not a number. *)
Bump(version) ==
  IF Last(version) = Null THEN Append(version, 1)
  ELSE [version EXCEPT ![Len(version)] = @ + 1]

(* What a request assigns to the row it loaded. *)
Assigned(q, row) ==
  CASE q.op = "edit" -> q.fields
    [] q.op = "bump" -> [version |-> IF q.version = Null THEN Bump(row.version) ELSE q.version]
    [] q.op = "status" -> [status |-> q.status]

(* The path of an environment names its project. *)
ChangeLoad(h) ==
  LET q == req[h] IN
  /\ pc[h] = "load" /\ q.op \in {"edit", "bump", "status"}
  /\ IF Visible(q.kind, q.id) /\ q.within \in {Null, Row(q.kind, q.id).parent}
     THEN Continue(h, "commit", [row |-> Row(q.kind, q.id)]) ELSE Respond(h, 404, Null)
  /\ UNCHANGED <<catalog, ledger>>

Picked(row, fields) == [f \in DOMAIN fields |-> row[f]]

(* Bug variant of Told: the row is read after it was assigned.             *)
ToldAfter(q, row) ==
  IF q.op = "edit" THEN Null ELSE [before |-> Assigned(q, row), after |-> Assigned(q, row)]

(* before_data and after_data of the audit entry. *)
Told(q, row) ==
  IF q.op = "edit" THEN Null
  ELSE [before |-> Picked(row, Assigned(q, row)), after |-> Assigned(q, row)]

(* An UPDATE fails if its row is gone or the name is taken.  A request     *)
(* that changes nothing sends none, and fails on reading the row again.    *)
ChangeCommit(h) ==
  LET q      == req[h]
      loaded == work[h].row
      fields == Changed(Assigned(q, loaded), loaded)
      gone   == Row(q.kind, q.id) = Null
      clash  == /\ "slug" \in DOMAIN fields
                /\ Named(q.kind, loaded.parent, fields.slug) \ {q.id} # {}
  IN
  /\ pc[h] = "commit" /\ q.op \in {"edit", "bump", "status"}
  /\ IF clash \/ (gone /\ DOMAIN fields # {})
     THEN Respond(h, 500, Null) /\ UNCHANGED <<catalog, log>>
     ELSE /\ catalog' = IF gone THEN catalog
                        ELSE [catalog EXCEPT ![q.kind][q.id] = Set(@, fields)]
          /\ log' = Append(log, Entry(q.op, <<q.kind, q.id>>, Told(q, loaded)))
          /\ Respond(h, IF gone THEN 500 ELSE 200, q.id)
  /\ UNCHANGED now

ProjectsServe(h) == CreateLoad(h) \/ CreateCommit(h) \/ ChangeLoad(h) \/ ChangeCommit(h)
=============================================================================
