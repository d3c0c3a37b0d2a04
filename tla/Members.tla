------------------------------- MODULE Members -------------------------------
(***************************************************************************)
(* The members of one organisation: the guards of core/deps and the        *)
(* invite, role change and removal of api/v1/organizations, with the audit *)
(* log they write.  A member's id is its place in members; a removed row   *)
(* keeps its place with role Null, for ids are never drawn again.          *)
(***************************************************************************)
EXTENDS Handlers, Sequences, FiniteSets

CONSTANTS
  User,
  Active,          (* the users whose is_active is set                      *)
  StoredMembers    (* the table organization_members at the start           *)

VARIABLES
  members,         (* the table organization_members                        *)
  audit            (* the table audit_logs, in insertion order              *)

MemberRole == {"VIEWER", "ANALYST", "DEVELOPER", "ADMIN", "OWNER"}

Rank == [VIEWER |-> 0, ANALYST |-> 1, DEVELOPER |-> 2, ADMIN |-> 3, OWNER |-> 4]

Elevated == {"ADMIN", "OWNER"}

MemberRow == [user : User, role : MemberRole \cup {Null}]

MemberBody ==
  [op : {"invite"}, by : User, user : User, role : MemberRole]
  \cup [op : {"change"}, by : User, member : Nat, role : MemberRole]
  \cup [op : {"remove"}, by : User, member : Nat]

(* about is the user an entry names, and before and after a role of theirs. *)
AuditRow ==
  [event : {"member_added", "member_role_changed", "member_removed", "cross_org_access",
            "access_denied", "login", "login_failed", "logout"},
   by : User, about : User \cup {Null},
   before : MemberRole \cup {Null}, after : MemberRole \cup {Null}]

Exists(i) == i \in DOMAIN members /\ members[i].role # Null

MembershipsOf(u) == {i \in DOMAIN members : members[i].user = u /\ Exists(i)}

Owners == {i \in DOMAIN members : members[i].role = "OWNER"}

WriteAudit(event, by, about, before, after) ==
  audit' = Append(audit, [event |-> event, by |-> by, about |-> about,
                          before |-> before, after |-> after])

(* Bug variant of MayAssign: an admin makes admins.                        *)
MayAssignAdmin(actor, role) == role = "OWNER" => actor = "OWNER"

(* Only an owner assigns the roles admin and owner. *)
MayAssign(actor, role) == role \in Elevated => actor = "OWNER"

-----------------------------------------------------------------------------
(* current_user and require_role(ADMIN).  A refusal is audited; an invite  *)
(* checks the role it assigns at once.                                     *)
Guard(h) ==
  LET q == req[h] IN
  /\ pc[h] = "load" /\ q.op \in {"invite", "change", "remove"}
  /\ UNCHANGED members
  /\ \/ q.by \notin Active /\ Respond(h, 401, Null) /\ UNCHANGED audit
     \/ /\ q.by \in Active /\ MembershipsOf(q.by) = {}
        /\ WriteAudit("cross_org_access", q.by, Null, Null, Null)
        /\ Respond(h, 403, Null)
     \/ \E i \in MembershipsOf(q.by) :
          LET role == members[i].role IN
          /\ q.by \in Active
          /\ IF Rank[role] < Rank["ADMIN"]
               THEN /\ WriteAudit("access_denied", q.by, Null, Null, Null)
                    /\ Respond(h, 403, Null)
             ELSE IF q.op = "invite" /\ ~ MayAssign(role, q.role)
               THEN Respond(h, 403, Null) /\ UNCHANGED audit
             ELSE /\ Continue(h, "check", [mine |-> i, role |-> role, target |-> Null])
                  /\ UNCHANGED audit

InviteCheck(h) ==
  /\ pc[h] = "check" /\ req[h].op = "invite"
  /\ IF MembershipsOf(req[h].user) # {} THEN Respond(h, 409, Null)
     ELSE Continue(h, "commit", work[h])
  /\ UNCHANGED <<members, audit>>

(* A role the session has loaded already is not loaded again. *)
Loaded(h, i) == IF i = work[h].mine THEN work[h].role ELSE members[i].role

LosesOwner(h, role) ==
  role = "OWNER" /\ (req[h].op = "remove" \/ req[h].role # "OWNER")

TargetCheck(h) ==
  LET q == req[h] IN
  /\ pc[h] = "check" /\ q.op \in {"change", "remove"}
  /\ IF ~ Exists(q.member) THEN Respond(h, 404, Null)
     ELSE IF q.op = "change" /\ ~ MayAssign(work[h].role, q.role) THEN Respond(h, 403, Null)
     ELSE LET role == Loaded(h, q.member) IN
          Continue(h, IF LosesOwner(h, role) THEN "scan" ELSE "commit",
                   [work[h] EXCEPT !.target = role])
  /\ UNCHANGED <<members, audit>>

(* Bug variant of OwnerCheck: the owner that goes is not counted in.       *)
OwnerCheckOffByOne(h) ==
  /\ pc[h] = "scan" /\ req[h].op \in {"change", "remove"}
  /\ IF Cardinality(Owners) < 1 THEN Respond(h, 409, Null)
     ELSE Continue(h, "commit", work[h])
  /\ UNCHANGED <<members, audit>>

(* The last owner stays. *)
OwnerCheck(h) ==
  /\ pc[h] = "scan" /\ req[h].op \in {"change", "remove"}
  /\ IF Cardinality(Owners) <= 1 THEN Respond(h, 409, Null)
     ELSE Continue(h, "commit", work[h])
  /\ UNCHANGED <<members, audit>>

-----------------------------------------------------------------------------
(* The organisation and the user of a member are unique. *)
Invite(h) ==
  LET q == req[h] IN
  /\ pc[h] = "commit" /\ q.op = "invite"
  /\ IF MembershipsOf(q.user) # {}
       THEN Respond(h, 500, Null) /\ UNCHANGED <<members, audit>>
     ELSE /\ members' = Append(members, [user |-> q.user, role |-> q.role])
          /\ WriteAudit("member_added", q.by, q.user, Null, q.role)
          /\ Respond(h, 201, Null)

(* Bug variant of ChangeRole: the audit entry is built before the change.  *)
ChangeRoleAuditedFirst(h) ==
  LET q == req[h] IN
  /\ pc[h] = "commit" /\ q.op = "change"
  /\ Exists(q.member)
  /\ members' = [members EXCEPT ![q.member].role = q.role]
  /\ WriteAudit("member_role_changed", q.by, members[q.member].user, work[h].target, work[h].target)
  /\ Respond(h, 200, Null)

(* The role is written if it differs from the one loaded.  The UPDATE      *)
(* fails if the row is gone, and so does reading it back for the answer.   *)
ChangeRole(h) ==
  LET q == req[h]
      before == work[h].target
  IN
  /\ pc[h] = "commit" /\ q.op = "change"
  /\ IF q.role # before /\ ~ Exists(q.member)
       THEN Respond(h, 500, Null) /\ UNCHANGED <<members, audit>>
     ELSE /\ members' = [members EXCEPT ![q.member].role = IF q.role # before THEN q.role ELSE @]
          /\ WriteAudit("member_role_changed", q.by, members[q.member].user, before, q.role)
          /\ Respond(h, IF Exists(q.member) THEN 200 ELSE 500, Null)

(* A row that is gone is deleted without complaint. *)
Remove(h) ==
  LET q == req[h] IN
  /\ pc[h] = "commit" /\ q.op = "remove"
  /\ members' = [members EXCEPT ![q.member].role = Null]
  /\ WriteAudit("member_removed", q.by, members[q.member].user, Null, Null)
  /\ Respond(h, 204, Null)

MembersServe(h) ==
  \/ Guard(h) \/ InviteCheck(h) \/ TargetCheck(h) \/ OwnerCheck(h)
  \/ Invite(h) \/ ChangeRole(h) \/ Remove(h)
=============================================================================
