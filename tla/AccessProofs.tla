---------------------------- MODULE AccessProofs ----------------------------
(***************************************************************************)
(* Proofs, for every value of the constants, of the safety properties of   *)
(* Access.  What a request has checked is only as good as the row it read: *)
(* the invariants say what the session of a request knows in any case      *)
(* (RequestsFit), and what it knows as long as no two requests have        *)
(* overlapped (SessionsAreFresh).                                          *)
(***************************************************************************)
EXTENDS Access, FiniteSetTheorems, SequenceTheorems, TLAPS

MemberOps == {"invite", "change", "remove"}

AccountOps == {"login", "refresh", "logout"}

(* What a member request holds once it has passed its guard.               *)
MemberSession == [mine : Nat, role : MemberRole, target : MemberRole \cup {Null}]

(* What a request in progress relies on, whoever else is in progress.      *)
RequestFits(h) ==
  /\ pc[h] # "idle" => req[h] \in Requests
  /\ resp[h] # Null => pc[h] = "done"
  /\ Busy(h) /\ req[h].op = "invite" => pc[h] \in {"load", "check", "commit"}
  /\ Busy(h) /\ req[h].op \in {"change", "remove", "login"} => pc[h] \in {"load", "check", "scan", "commit"}
  /\ pc[h] \in {"check", "scan", "commit"} /\ req[h].op \in MemberOps =>
       /\ work[h] \in MemberSession
       /\ work[h].mine \in DOMAIN members /\ members[work[h].mine].user = req[h].by
  /\ pc[h] \in {"check", "commit"} /\ req[h].op = "invite" => MayAssign(work[h].role, req[h].role)
  /\ pc[h] \in {"scan", "commit"} /\ req[h].op = "change" => MayAssign(work[h].role, req[h].role)
  /\ pc[h] \in {"scan", "commit"} /\ req[h].op \in {"change", "remove"} =>
       req[h].member \in DOMAIN members /\ work[h].target \in MemberRole
  /\ pc[h] \in {"scan", "commit"} /\ req[h].op = "login" => work[h] \in Account

RequestsFit == \A h \in Handler : RequestFits(h)

(* What the body of each operation names.                                  *)
LEMMA OpFacts ==
  ASSUME NEW q \in Requests
  PROVE  /\ q.op \in MemberOps \cup AccountOps
         /\ q.op \in MemberOps => q \in MemberBody /\ q.by \in User
         /\ q.op = "invite" => q.user \in User /\ q.role \in MemberRole
         /\ q.op \in {"change", "remove"} => q.member \in Nat
         /\ q.op = "change" => q.role \in MemberRole
         /\ q.op = "login" => q.user \in User
         /\ q.op \in {"refresh", "logout"} => q.key \in SessionKey
         /\ q.op = "logout" => q.by \in User
BY AccessAssumption DEF MemberBody, AccountBody, MemberOps, AccountOps

(* A step of a request moves that request alone: on with a session, or to  *)
(* its answer.                                                             *)
LEMMA ServeMovesOne ==
  ASSUME NEW h \in Handler,
         MembersServe(h) \/ AccountsServe(h) \/ Abort(h)
  PROVE  /\ Busy(h) /\ req' = req /\ overlap' = overlap
         /\ \/ \E l \in {"check", "scan", "commit"} : \E w :
                 /\ pc' = [pc EXCEPT ![h] = l] /\ work' = [work EXCEPT ![h] = w] /\ resp' = resp
            \/ \E a : /\ pc' = [pc EXCEPT ![h] = "done"] /\ work' = [work EXCEPT ![h] = Null]
                      /\ resp' = [resp EXCEPT ![h] = a]
<1> USE DEF Busy, Continue, Respond
<1>1. CASE Guard(h)
  BY <1>1 DEF Guard
<1>2. CASE InviteCheck(h) \/ TargetCheck(h) \/ OwnerCheck(h)
  BY <1>2 DEF InviteCheck, TargetCheck, OwnerCheck
<1>3. CASE Invite(h) \/ ChangeRole(h) \/ Remove(h)
  BY <1>3, ZenonT(60) DEF Invite, ChangeRole, Remove
<1>4. CASE LoginLoad(h) \/ LoginFails(h) \/ OpenSession(h) \/ LoginSucceeds(h)
  BY <1>4 DEF LoginLoad, LoginFails, OpenSession, LoginSucceeds
<1>5. CASE RefreshLoad(h) \/ RefreshCheck(h) \/ LogoutLoad(h) \/ LogoutCommit(h)
  BY <1>5 DEF RefreshLoad, RefreshCheck, LogoutLoad, LogoutCommit
<1>6. CASE Abort(h)
  BY <1>6 DEF Abort, Die
<1> QED
  BY <1>1, <1>2, <1>3, <1>4, <1>5, <1>6 DEF MembersServe, AccountsServe

(* How the table of members changes: a row is added, or the role of a row  *)
(* is set; its user is never touched.                                      *)
MembersStay ==
  /\ DOMAIN members \subseteq DOMAIN members'
  /\ \A i \in DOMAIN members : members'[i].user = members[i].user

LEMMA AddMember ==
  ASSUME members \in Seq(MemberRow), NEW u \in User, NEW r \in MemberRole,
         members' = Append(members, [user |-> u, role |-> r])
  PROVE  /\ members' \in Seq(MemberRow) /\ MembersStay
         /\ DOMAIN members' = DOMAIN members \cup {Len(members) + 1}
         /\ Len(members) + 1 \notin DOMAIN members
         /\ members'[Len(members) + 1] = [user |-> u, role |-> r]
         /\ \A i \in DOMAIN members : members'[i] = members[i]
BY DEF MemberRow, MembersStay

LEMMA SetRole ==
  ASSUME members \in Seq(MemberRow), NEW i \in DOMAIN members, NEW r \in MemberRole \cup {Null},
         members' = [members EXCEPT ![i].role = r]
  PROVE  /\ members' \in Seq(MemberRow) /\ MembersStay
         /\ DOMAIN members' = DOMAIN members
         /\ members'[i] = [user |-> members[i].user, role |-> r]
         /\ \A j \in DOMAIN members : j # i => members'[j] = members[j]
<1>1. members[i] \in MemberRow
  OBVIOUS
<1>2. [members[i] EXCEPT !.role = r] = [user |-> members[i].user, role |-> r]
  BY <1>1 DEF MemberRow
<1>3. members' = [members EXCEPT ![i] = [user |-> members[i].user, role |-> r]]
  BY <1>2
<1>4. [user |-> members[i].user, role |-> r] \in MemberRow
  BY <1>1 DEF MemberRow
<1>5. i \in 1 .. Len(members) /\ DOMAIN members = 1 .. Len(members)
  OBVIOUS
<1>6. members' \in Seq(MemberRow) /\ DOMAIN members' = DOMAIN members
  <2>1. DOMAIN members' = DOMAIN members
    BY <1>3
  <2>2. [members EXCEPT ![i] = [user |-> members[i].user, role |-> r]] \in Seq(MemberRow)
    BY <1>4, <1>5, ExceptSeq
  <2> QED
    BY <1>3, <2>1, <2>2
<1>7. /\ members'[i] = [user |-> members[i].user, role |-> r]
      /\ \A j \in DOMAIN members : j # i => members'[j] = members[j]
  BY <1>3, <1>4, <1>5, ExceptSeq
<1> QED
  BY <1>6, <1>7 DEF MembersStay

(* An audit entry is appended. *)
LEMMA AuditEntry ==
  ASSUME audit \in Seq(AuditRow), NEW e, NEW by, NEW u, NEW b, NEW a, WriteAudit(e, by, u, b, a)
  PROVE  /\ DOMAIN audit' = DOMAIN audit \cup {Len(audit) + 1}
         /\ Len(audit') = Len(audit) + 1
         /\ \A n \in DOMAIN audit : n \in Nat /\ n < Len(audit) + 1 /\ audit'[n] = audit[n]
         /\ audit'[Len(audit) + 1] = [event |-> e, by |-> by, about |-> u, before |-> b, after |-> a]
         /\ [event |-> e, by |-> by, about |-> u, before |-> b, after |-> a] \in AuditRow =>
              audit' \in Seq(AuditRow)
BY DEF WriteAudit

LEMMA AuditIfMemberType ==
  ASSUME audit \in Seq(AuditRow), NEW u \in User, NEW e \in {"login", "login_failed", "logout"},
         AuditIfMember(e, u)
  PROVE  audit' \in Seq(AuditRow)
<1>1. [event |-> e, by |-> u, about |-> u, before |-> Null, after |-> Null] \in AuditRow
  BY DEF AuditRow
<1> QED
  BY <1>1, AuditEntry DEF AuditIfMember

-----------------------------------------------------------------------------
(* Types, and what a request in progress relies on *)

Basics == AccessTypeOK /\ RequestsFit

(* A request moves on: what it then relies on is all that is left to show. *)
LEMMA MoveOn ==
  ASSUME Basics, NEW h \in Handler, MembersServe(h) \/ AccountsServe(h) \/ Abort(h),
         NEW l \in {"check", "scan", "commit"}, NEW w \in Session \cup {Null}, Continue(h, l, w),
         members' \in Seq(MemberRow), MembersStay, audit' \in Seq(AuditRow),
         accounts' \in [User -> Account], sessions' \subseteq SessionKey,
         req[h].op = "invite" => l # "scan",
         req[h].op \in MemberOps =>
           w \in MemberSession /\ w.mine \in DOMAIN members /\ members[w.mine].user = req[h].by,
         req[h].op \in {"invite"} \/ (req[h].op = "change" /\ l # "check") => MayAssign(w.role, req[h].role),
         req[h].op \in {"change", "remove"} /\ l # "check" =>
           req[h].member \in DOMAIN members /\ w.target \in MemberRole,
         req[h].op = "login" => w \in Account
  PROVE  Basics'
<1>1. /\ pc' = [pc EXCEPT ![h] = l] /\ work' = [work EXCEPT ![h] = w]
      /\ UNCHANGED <<req, resp, overlap>> /\ Busy(h)
  BY ServeMovesOne DEF Continue
<1>2. AccessTypeOK'
  BY <1>1 DEF Basics, AccessTypeOK, HandlersTypeOK
<1>3. /\ pc'[h] = l /\ work'[h] = w
      /\ \A g \in Handler : g # h => pc'[g] = pc[g] /\ work'[g] = work[g]
  BY <1>1 DEF Basics, AccessTypeOK, HandlersTypeOK
<1>4. ASSUME NEW g \in Handler, g # h PROVE RequestFits(g)'
  BY <1>1, <1>3, <1>4 DEF Basics, RequestsFit, RequestFits, Busy, MembersStay
<1>5. RequestFits(h)'
  BY <1>1, <1>3 DEF Basics, RequestsFit, RequestFits, Busy, MembersStay
<1> QED
  BY <1>2, <1>4, <1>5 DEF Basics, RequestsFit

(* A request is answered. *)
LEMMA Done ==
  ASSUME Basics, NEW h \in Handler, MembersServe(h) \/ AccountsServe(h) \/ Abort(h),
         NEW c \in {200, 201, 204, 401, 403, 404, 409, 429, 500}, Respond(h, c, Null),
         members' \in Seq(MemberRow), MembersStay, audit' \in Seq(AuditRow),
         accounts' \in [User -> Account], sessions' \subseteq SessionKey
  PROVE  Basics'
<1>1. /\ pc' = [pc EXCEPT ![h] = "done"] /\ work' = [work EXCEPT ![h] = Null]
      /\ resp' = [resp EXCEPT ![h] = [http |-> c, row |-> Null]]
      /\ UNCHANGED <<req, overlap>> /\ Busy(h)
  BY ServeMovesOne, ZenonT(60) DEF Respond
<1>2. AccessTypeOK'
  BY <1>1 DEF Basics, AccessTypeOK, HandlersTypeOK, Answer
<1>3. /\ pc'[h] = "done"
      /\ \A g \in Handler : g # h => pc'[g] = pc[g] /\ work'[g] = work[g] /\ resp'[g] = resp[g]
  BY <1>1 DEF Basics, AccessTypeOK, HandlersTypeOK
<1>4. ASSUME NEW g \in Handler, g # h PROVE RequestFits(g)'
  BY <1>1, <1>3, <1>4 DEF Basics, RequestsFit, RequestFits, Busy, MembersStay
<1>5. RequestFits(h)'
  BY <1>1, <1>3 DEF Basics, RequestsFit, RequestFits, Busy
<1> QED
  BY <1>2, <1>4, <1>5 DEF Basics, RequestsFit

(* What a step may rely on at the request it serves.                       *)
LEMMA At ==
  ASSUME Basics, NEW h \in Handler, pc[h] # "idle"
  PROVE  /\ req[h] \in Requests /\ RequestFits(h)
         /\ members \in Seq(MemberRow) /\ audit \in Seq(AuditRow)
         /\ accounts \in [User -> Account] /\ sessions \subseteq SessionKey
BY DEF Basics, RequestsFit, RequestFits, AccessTypeOK

LEMMA TablesStay ==
  ASSUME Basics, UNCHANGED members
  PROVE  MembersStay /\ members' \in Seq(MemberRow)
BY DEF MembersStay, Basics, AccessTypeOK

LEMMA GuardBasics ==
  ASSUME Basics, NEW h \in Handler, Guard(h), UNCHANGED <<accounts, sessions>>
  PROVE  Basics'
<1> DEFINE q == req[h]
<1>1. /\ pc[h] = "load" /\ q.op \in MemberOps /\ MembersServe(h) /\ UNCHANGED members
      /\ q \in Requests /\ q.by \in User
      /\ members \in Seq(MemberRow) /\ audit \in Seq(AuditRow)
      /\ accounts' \in [User -> Account] /\ sessions' \subseteq SessionKey
  BY At, OpFacts DEF Guard, MembersServe, MemberOps
<1>2. MembersStay /\ members' \in Seq(MemberRow)
  BY <1>1, TablesStay
<1>3. ASSUME NEW e \in {"cross_org_access", "access_denied"}, WriteAudit(e, q.by, Null, Null, Null)
      PROVE  audit' \in Seq(AuditRow)
  <2>1. [event |-> e, by |-> q.by, about |-> Null, before |-> Null, after |-> Null] \in AuditRow
    BY <1>1 DEF AuditRow
  <2> QED
    BY <1>1, <1>3, <2>1, AuditEntry
<1>4. ASSUME NEW c \in {401, 403}, Respond(h, c, Null), audit' \in Seq(AuditRow)
      PROVE  Basics'
  BY <1>1, <1>2, <1>4, Done
<1>5. ASSUME NEW i \in MembershipsOf(q.by), q.op = "invite" => MayAssign(members[i].role, q.role),
             Continue(h, "check", [mine |-> i, role |-> members[i].role, target |-> Null]),
             UNCHANGED audit
      PROVE  Basics'
  <2> DEFINE w == [mine |-> i, role |-> members[i].role, target |-> Null]
  <2>1. i \in DOMAIN members /\ members[i].user = q.by /\ members[i].role # Null /\ members[i] \in MemberRow
    BY <1>1 DEF MembershipsOf, Exists
  <2>2. w \in MemberSession /\ w.mine \in DOMAIN members /\ members[w.mine].user = q.by
        /\ w.role = members[i].role
    BY <1>1, <2>1 DEF MemberSession, MemberRow
  <2>3. w \in Session
    BY <2>2 DEF MemberSession, Session
  <2>4. audit' \in Seq(AuditRow)
    BY <1>1, <1>5
  <2>5. Continue(h, "check", w)
    BY <1>5
  <2> HIDE DEF w
  <2> QED
    BY <1>1, <1>2, <1>5, <2>2, <2>3, <2>4, <2>5, MoveOn DEF MemberOps
<1>6. CASE q.by \notin Active \/ MembershipsOf(q.by) = {}
  BY <1>1, <1>3, <1>4, <1>6, ZenonT(60) DEF Guard
<1>7. CASE q.by \in Active /\ MembershipsOf(q.by) # {}
  <2>1. PICK i \in MembershipsOf(q.by) :
          LET role == members[i].role IN
          IF Rank[role] < Rank["ADMIN"]
            THEN WriteAudit("access_denied", q.by, Null, Null, Null) /\ Respond(h, 403, Null)
          ELSE IF q.op = "invite" /\ ~ MayAssign(role, q.role)
            THEN Respond(h, 403, Null) /\ UNCHANGED audit
          ELSE /\ Continue(h, "check", [mine |-> i, role |-> role, target |-> Null])
               /\ UNCHANGED audit
    BY <1>7 DEF Guard
  <2>2. CASE Rank[members[i].role] < Rank["ADMIN"]
    BY <1>3, <1>4, <2>1, <2>2
  <2>3. CASE ~ (Rank[members[i].role] < Rank["ADMIN"])
    BY <1>1, <1>4, <1>5, <2>1, <2>3
  <2> QED
    BY <2>2, <2>3
<1> QED
  BY <1>6, <1>7

LEMMA ChecksBasics ==
  ASSUME Basics, NEW h \in Handler, InviteCheck(h) \/ TargetCheck(h) \/ OwnerCheck(h),
         UNCHANGED <<accounts, sessions>>
  PROVE  Basics'
<1> DEFINE q == req[h]
<1>1. /\ pc[h] \in {"check", "scan"} /\ q.op \in MemberOps /\ MembersServe(h) /\ UNCHANGED <<members, audit>>
      /\ q \in Requests /\ q.by \in User /\ RequestFits(h)
      /\ members \in Seq(MemberRow) /\ audit' \in Seq(AuditRow)
      /\ accounts' \in [User -> Account] /\ sessions' \subseteq SessionKey
  BY At, OpFacts DEF InviteCheck, TargetCheck, OwnerCheck, MembersServe, MemberOps
<1>2. MembersStay /\ members' \in Seq(MemberRow)
  BY <1>1, TablesStay
<1>3. ASSUME NEW c \in {403, 404, 409}, Respond(h, c, Null)
      PROVE  Basics'
  BY <1>1, <1>2, <1>3, Done
<1>4. /\ work[h] \in MemberSession /\ work[h] \in Session
      /\ work[h].mine \in DOMAIN members /\ members[work[h].mine].user = q.by
  BY <1>1 DEF RequestFits, MemberSession, Session
<1>5. CASE InviteCheck(h)
  <2>1. q.op = "invite" /\ pc[h] = "check" /\ MayAssign(work[h].role, q.role)
    BY <1>1, <1>5 DEF InviteCheck, RequestFits
  <2>2. CASE Continue(h, "commit", work[h])
    BY <1>1, <1>2, <1>4, <2>1, <2>2, MoveOn
  <2> QED
    BY <1>3, <1>5, <2>2 DEF InviteCheck
<1>6. CASE OwnerCheck(h)
  <2>1. /\ q.op \in {"change", "remove"} /\ q.member \in DOMAIN members /\ work[h].target \in MemberRole
        /\ q.op = "change" => MayAssign(work[h].role, q.role)
    BY <1>1, <1>6 DEF OwnerCheck, RequestFits
  <2>2. CASE Continue(h, "commit", work[h])
    BY <1>1, <1>2, <1>4, <2>1, <2>2, MoveOn
  <2> QED
    BY <1>3, <1>6, <2>2 DEF OwnerCheck
<1>7. CASE TargetCheck(h)
  <2> DEFINE l == IF LosesOwner(h, Loaded(h, q.member)) THEN "scan" ELSE "commit"
             w == [work[h] EXCEPT !.target = Loaded(h, q.member)]
  <2>1. CASE /\ Exists(q.member) /\ (q.op = "change" => MayAssign(work[h].role, q.role))
             /\ Continue(h, l, w)
    <3>1. q.member \in DOMAIN members /\ members[q.member].role \in MemberRole
      <4>1. q.member \in DOMAIN members /\ members[q.member].role # Null
        BY <2>1 DEF Exists
      <4>2. members[q.member] \in MemberRow
        BY <1>1, <4>1
      <4> QED
        BY <4>1, <4>2 DEF MemberRow
    <3>2. Loaded(h, q.member) \in MemberRole
      BY <1>4, <3>1 DEF Loaded, MemberSession
    <3>3. /\ w \in MemberSession /\ w.target = Loaded(h, q.member)
          /\ w.mine = work[h].mine /\ w.role = work[h].role
      BY <1>4, <3>2 DEF MemberSession
    <3>4. w \in Session /\ l \in {"scan", "commit"}
      BY <3>3 DEF MemberSession, Session
    <3>5. q.op \in {"change", "remove"}
      BY <1>7 DEF TargetCheck
    <3> HIDE DEF w, l
    <3> QED
      BY <1>1, <1>2, <1>4, <2>1, <3>1, <3>2, <3>3, <3>4, <3>5, MoveOn
  <2> QED
    BY <1>3, <1>7, <2>1 DEF TargetCheck
<1> QED
  BY <1>5, <1>6, <1>7

LEMMA CommitsBasics ==
  ASSUME Basics, NEW h \in Handler, Invite(h) \/ ChangeRole(h) \/ Remove(h),
         UNCHANGED <<accounts, sessions>>
  PROVE  Basics'
<1> DEFINE q == req[h]
<1>1. /\ pc[h] = "commit" /\ q.op \in MemberOps /\ MembersServe(h)
      /\ q \in Requests /\ q.by \in User /\ RequestFits(h)
      /\ members \in Seq(MemberRow) /\ audit \in Seq(AuditRow)
      /\ accounts' \in [User -> Account] /\ sessions' \subseteq SessionKey
  BY At, OpFacts DEF Invite, ChangeRole, Remove, MembersServe, MemberOps
<1>2. ASSUME NEW c \in {200, 201, 204, 500}, Respond(h, c, Null),
             members' \in Seq(MemberRow), MembersStay, audit' \in Seq(AuditRow)
      PROVE  Basics'
  <2>1. MembersServe(h) \/ AccountsServe(h) \/ Abort(h)
    BY <1>1
  <2>2. accounts' \in [User -> Account] /\ sessions' \subseteq SessionKey
    BY <1>1
  <2> QED
    BY <1>2, <2>1, <2>2, Done
<1>3. ASSUME UNCHANGED <<members, audit>>, Respond(h, 500, Null)
      PROVE  Basics'
  BY <1>1, <1>2, <1>3, TablesStay
<1>4. CASE Invite(h) /\ MembershipsOf(q.user) = {}
  <2>1. q.user \in User /\ q.role \in MemberRole
    BY <1>1, <1>4, OpFacts DEF Invite
  <2>2. members' \in Seq(MemberRow) /\ MembersStay
    BY <1>1, <1>4, <2>1, AddMember DEF Invite
  <2>3. [event |-> "member_added", by |-> q.by, about |-> q.user, before |-> Null, after |-> q.role] \in AuditRow
    BY <1>1, <2>1 DEF AuditRow
  <2>4. audit' \in Seq(AuditRow)
    BY <1>1, <1>4, <2>3, AuditEntry DEF Invite
  <2> QED
    BY <1>2, <1>4, <2>2, <2>4 DEF Invite
<1>5. CASE ChangeRole(h) /\ ~ (q.role # work[h].target /\ ~ Exists(q.member))
  <2>1. /\ q.role \in MemberRole /\ q.member \in DOMAIN members /\ work[h].target \in MemberRole
        /\ members[q.member] \in MemberRow
    BY <1>1, <1>5, OpFacts DEF ChangeRole, RequestFits
  <2>2. PICK r \in MemberRole \cup {Null} : members' = [members EXCEPT ![q.member].role = r]
    <3>1. members[q.member].role \in MemberRole \cup {Null}
      BY <2>1 DEF MemberRow
    <3>2. members' = [members EXCEPT ![q.member].role = IF q.role # work[h].target THEN q.role ELSE members[q.member].role]
      BY <1>5, <2>1 DEF ChangeRole
    <3> QED
      BY <2>1, <3>1, <3>2
  <2>3. members' \in Seq(MemberRow) /\ MembersStay
    BY <1>1, <2>1, <2>2, SetRole
  <2>4. [event |-> "member_role_changed", by |-> q.by, about |-> members[q.member].user,
         before |-> work[h].target, after |-> q.role] \in AuditRow
    BY <1>1, <2>1 DEF AuditRow, MemberRow
  <2>5. audit' \in Seq(AuditRow)
    BY <1>1, <1>5, <2>4, AuditEntry DEF ChangeRole
  <2> QED
    BY <1>2, <1>5, <2>3, <2>5 DEF ChangeRole
<1>6. CASE Remove(h)
  <2>1. q.member \in DOMAIN members /\ members[q.member] \in MemberRow
    BY <1>1, <1>6 DEF Remove, RequestFits
  <2>2. members' \in Seq(MemberRow) /\ MembersStay
    BY <1>1, <1>6, <2>1, SetRole DEF Remove
  <2>3. [event |-> "member_removed", by |-> q.by, about |-> members[q.member].user,
         before |-> Null, after |-> Null] \in AuditRow
    BY <1>1, <2>1 DEF AuditRow, MemberRow
  <2>4. audit' \in Seq(AuditRow)
    BY <1>1, <1>6, <2>3, AuditEntry DEF Remove
  <2> QED
    BY <1>2, <1>6, <2>2, <2>4 DEF Remove
<1> QED
  BY <1>3, <1>4, <1>5, <1>6 DEF Invite, ChangeRole

LEMMA LoginBasics ==
  ASSUME Basics, NEW h \in Handler, LoginLoad(h) \/ LoginFails(h) \/ OpenSession(h) \/ LoginSucceeds(h)
  PROVE  Basics'
<1> DEFINE q == req[h]
           u == q.user
<1>1. /\ pc[h] \in {"load", "scan", "commit"} /\ q.op = "login" /\ AccountsServe(h) /\ UNCHANGED members
      /\ q \in Requests /\ u \in User /\ RequestFits(h)
      /\ accounts \in [User -> Account] /\ sessions \subseteq SessionKey /\ audit \in Seq(AuditRow)
  BY At, OpFacts DEF LoginLoad, LoginFails, OpenSession, LoginSucceeds, AccountsServe
<1>2. MembersStay /\ members' \in Seq(MemberRow)
  BY <1>1, TablesStay
<1>3. \A a \in Account : a \in Session
  BY DEF Session
<1>4. CASE LoginLoad(h)
  <2>1. /\ accounts' \in [User -> Account] /\ sessions' \subseteq SessionKey /\ audit' \in Seq(AuditRow)
        /\ accounts[u] \in Account
    BY <1>1, <1>4 DEF LoginLoad
  <2>2. ASSUME NEW c \in {401, 429}, Respond(h, c, Null) PROVE Basics'
    BY <1>1, <1>2, <2>1, <2>2, Done, SMTT(30)
  <2>3. ASSUME NEW l \in {"scan", "commit"}, Continue(h, l, accounts[u]) PROVE Basics'
    BY <1>1, <1>2, <1>3, <2>1, <2>3, MoveOn DEF MemberOps
  <2> QED
    BY <1>4, <2>2, <2>3 DEF LoginLoad
<1>5. CASE LoginFails(h)
  <2>1. work[h] \in Account
    BY <1>1, <1>5 DEF LoginFails, RequestFits
  <2>2. accounts' = [accounts EXCEPT ![u].failed = work[h].failed + 1,
                        ![u].lock = IF work[h].failed + 1 >= MaxAttempts THEN "ahead" ELSE @]
    BY <1>5 DEF LoginFails
  <2>3. accounts' \in [User -> Account]
    BY <1>1, <2>1, <2>2 DEF Account, Lock
  <2>4. audit' \in Seq(AuditRow) /\ sessions' \subseteq SessionKey /\ Respond(h, 401, Null)
    BY <1>1, <1>5, AuditIfMemberType DEF LoginFails
  <2> QED
    BY <1>1, <1>2, <2>3, <2>4, Done
<1>6. CASE OpenSession(h)
  <2>1. work[h] \in Account /\ Continue(h, "commit", work[h])
    BY <1>1, <1>6 DEF OpenSession, RequestFits
  <2>2. [id |-> h, user |-> u] \in SessionKey
    BY <1>1 DEF SessionKey
  <2>3. accounts' \in [User -> Account] /\ sessions' \subseteq SessionKey /\ audit' \in Seq(AuditRow)
    BY <1>1, <1>6, <2>2 DEF OpenSession
  <2> QED
    BY <1>1, <1>2, <1>3, <2>1, <2>3, MoveOn DEF MemberOps
<1>7. CASE LoginSucceeds(h)
  <2>1. accounts' = [accounts EXCEPT ![u].failed = IF work[h].failed # 0 THEN 0 ELSE @,
                        ![u].lock = IF work[h].lock # "none" THEN "none" ELSE @]
    BY <1>7 DEF LoginSucceeds
  <2>2. accounts' \in [User -> Account]
    BY <1>1, <2>1 DEF Account, Lock
  <2>3. audit' \in Seq(AuditRow) /\ sessions' \subseteq SessionKey /\ Respond(h, 200, Null)
    BY <1>1, <1>7, AuditIfMemberType DEF LoginSucceeds
  <2> QED
    BY <1>1, <1>2, <2>2, <2>3, Done
<1> QED
  BY <1>4, <1>5, <1>6, <1>7

LEMMA SessionBasics ==
  ASSUME Basics, NEW h \in Handler,
         RefreshLoad(h) \/ RefreshCheck(h) \/ LogoutLoad(h) \/ LogoutCommit(h)
  PROVE  Basics'
<1> DEFINE q == req[h]
<1>1. /\ pc[h] \in {"load", "check", "commit"} /\ q.op \in {"refresh", "logout"} /\ AccountsServe(h)
      /\ UNCHANGED <<members, accounts>>
      /\ q \in Requests
      /\ q.op = "logout" => q.by \in User
      /\ accounts' \in [User -> Account] /\ sessions' \subseteq SessionKey /\ audit \in Seq(AuditRow)
  BY At, OpFacts DEF RefreshLoad, RefreshCheck, LogoutLoad, LogoutCommit, AccountsServe
<1>2. MembersStay /\ members' \in Seq(MemberRow)
  BY <1>1, TablesStay
<1>3. audit' \in Seq(AuditRow)
  <2>1. CASE LogoutCommit(h)
    BY <1>1, <2>1, AuditIfMemberType DEF LogoutCommit
  <2>2. CASE RefreshLoad(h) \/ RefreshCheck(h) \/ LogoutLoad(h)
    BY <1>1, <2>2 DEF RefreshLoad, RefreshCheck, LogoutLoad
  <2> QED
    BY <2>1, <2>2
<1>4. ASSUME NEW c \in {200, 204, 401}, Respond(h, c, Null) PROVE Basics'
  BY <1>1, <1>2, <1>3, <1>4, Done
<1>5. ASSUME NEW l \in {"check", "commit"}, Continue(h, l, Null) PROVE Basics'
  BY <1>1, <1>2, <1>3, <1>5, MoveOn DEF MemberOps
<1> QED
  BY <1>4, <1>5 DEF RefreshLoad, RefreshCheck, LogoutLoad, LogoutCommit

LEMMA ArriveBasics ==
  ASSUME Basics, NEW h \in Handler, NEW q \in Requests, Arrive(h, q)
  PROVE  Basics'
<1>1. /\ pc[h] = "idle" /\ pc' = [pc EXCEPT ![h] = "load"] /\ req' = [req EXCEPT ![h] = q]
      /\ overlap' = (overlap \/ \E g \in Handler : Busy(g))
      /\ UNCHANGED <<work, resp, members, audit, accounts, sessions>>
  BY DEF Arrive, Receive
<1>2. AccessTypeOK'
  BY <1>1 DEF Basics, AccessTypeOK, HandlersTypeOK
<1>3. /\ pc'[h] = "load" /\ req'[h] = q
      /\ \A g \in Handler : g # h => pc'[g] = pc[g] /\ req'[g] = req[g]
  BY <1>1 DEF Basics, AccessTypeOK, HandlersTypeOK
<1>4. ASSUME NEW g \in Handler, g # h PROVE RequestFits(g)'
  BY <1>1, <1>3, <1>4 DEF Basics, RequestsFit, RequestFits, Busy
<1>5. RequestFits(h)'
  BY <1>1, <1>3 DEF Basics, RequestsFit, RequestFits, Busy
<1> QED
  BY <1>2, <1>4, <1>5 DEF Basics, RequestsFit

LEMMA AbortBasics ==
  ASSUME Basics, NEW h \in Handler, Abort(h)
  PROVE  Basics'
<1>1. Respond(h, 500, Null) /\ UNCHANGED <<members, audit, accounts, sessions>>
  BY DEF Abort, Die
<1>2. /\ audit' \in Seq(AuditRow) /\ accounts' \in [User -> Account] /\ sessions' \subseteq SessionKey
  BY <1>1 DEF Basics, AccessTypeOK
<1> QED
  BY <1>1, <1>2, TablesStay, Done

(* The clock passes a lock, and Redis drops a key.                         *)
LEMMA ClockBasics ==
  ASSUME Basics, (\E u \in User : LockPasses(u)) \/ (\E key \in SessionKey : SessionExpires(key))
  PROVE  Basics'
<1>1. UNCHANGED <<pc, req, work, resp, overlap, members, audit>>
  BY DEF LockPasses, SessionExpires, handlers
<1>2. accounts' \in [User -> Account]
  BY DEF LockPasses, SessionExpires, Basics, AccessTypeOK, Account, Lock
<1>3. sessions' \subseteq SessionKey
  BY DEF LockPasses, SessionExpires, Basics, AccessTypeOK
<1>4. AccessTypeOK'
  BY <1>1, <1>2, <1>3 DEF Basics, AccessTypeOK, HandlersTypeOK
<1>5. RequestsFit'
  BY <1>1 DEF Basics, RequestsFit, RequestFits, Busy
<1> QED
  BY <1>4, <1>5 DEF Basics

(* Tables, sessions and requests keep their shape, and a request in        *)
(* progress holds what its last step left it.                              *)
LEMMA InitBasics == Init => Basics
<1> SUFFICES ASSUME Init PROVE Basics
  OBVIOUS
<1>1. HandlersTypeOK(Session)
  BY DEF Init, HandlersInit, HandlersTypeOK
<1>2. members \in Seq(MemberRow) /\ audit \in Seq(AuditRow) /\ sessions \subseteq SessionKey
  BY AccessAssumption DEF Init, SessionKey
<1>3. accounts \in [User -> Account]
  BY DEF Init, Account, Lock
<1>4. RequestsFit
  BY DEF Init, HandlersInit, RequestsFit, RequestFits, Busy
<1> QED
  BY <1>1, <1>2, <1>3, <1>4 DEF Basics, AccessTypeOK

LEMMA NextBasics == Basics /\ [Next]_vars => Basics'
<1> SUFFICES ASSUME Basics, [Next]_vars PROVE Basics'
  OBVIOUS
<1>1. ASSUME NEW h \in Handler, MembersServe(h), UNCHANGED <<accounts, sessions>> PROVE Basics'
  BY <1>1, GuardBasics, ChecksBasics, CommitsBasics DEF MembersServe
<1>2. ASSUME NEW h \in Handler, AccountsServe(h) \/ Abort(h) PROVE Basics'
  BY <1>2, LoginBasics, SessionBasics, AbortBasics DEF AccountsServe
<1>3. CASE UNCHANGED vars
  BY <1>3 DEF vars, handlers, Basics, AccessTypeOK, HandlersTypeOK, RequestsFit, RequestFits, Busy
<1> QED
  BY <1>1, <1>2, <1>3, ArriveBasics, ClockBasics DEF Next

LEMMA AlwaysBasics == Spec => []Basics
BY InitBasics, NextBasics, PTL DEF Spec

(* The tables and the sessions of requests have their types.               *)
THEOREM AccessTypes == Spec => []AccessTypeOK
<1>1. Basics => AccessTypeOK
  BY DEF Basics
<1> QED
  BY <1>1, AlwaysBasics, PTL

-----------------------------------------------------------------------------
(* One membership each *)

OneMembership ==
  \A i, j \in DOMAIN members :
    members[i].user = members[j].user /\ members[i].role # Null /\ members[j].role # Null => i = j

Writing(h) == ~ (req[h].role # work[h].target /\ ~ Exists(req[h].member))

(* Three statements write the table of members.                            *)
LEMMA MemberWrites ==
  ASSUME [Next]_vars
  PROVE  \/ members' = members
         \/ \E h \in Handler : /\ Invite(h) /\ MembershipsOf(req[h].user) = {}
                              /\ UNCHANGED <<accounts, sessions>>
         \/ \E h \in Handler : /\ (ChangeRole(h) /\ Writing(h)) \/ Remove(h)
                              /\ UNCHANGED <<accounts, sessions>>
<1>1. ASSUME NEW h \in Handler, MembersServe(h), UNCHANGED <<accounts, sessions>>
      PROVE  \/ members' = members
             \/ Invite(h) /\ MembershipsOf(req[h].user) = {}
             \/ ChangeRole(h) /\ Writing(h)
             \/ Remove(h)
  BY <1>1 DEF MembersServe, Guard, InviteCheck, TargetCheck, OwnerCheck, Invite, ChangeRole, Writing
<1>2. ASSUME NEW h \in Handler, AccountsServe(h) \/ Abort(h) PROVE members' = members
  BY <1>2 DEF AccountsServe, Abort, LoginLoad, LoginFails, OpenSession, LoginSucceeds, RefreshLoad,
              RefreshCheck, LogoutLoad, LogoutCommit
<1>3. CASE UNCHANGED vars
  BY <1>3 DEF vars
<1>4. ASSUME NEW h \in Handler, NEW q \in Requests, Arrive(h, q) PROVE members' = members
  BY <1>4 DEF Arrive
<1>5. CASE (\E u \in User : LockPasses(u)) \/ (\E key \in SessionKey : SessionExpires(key))
  BY <1>5 DEF LockPasses, SessionExpires
<1> QED
  BY <1>1, <1>2, <1>3, <1>4, <1>5 DEF Next

(* What an invitation adds.                                                *)
LEMMA InviteFacts ==
  ASSUME Basics, NEW h \in Handler, Invite(h), MembershipsOf(req[h].user) = {}
  PROVE  /\ pc[h] = "commit" /\ req[h].op = "invite"
         /\ req[h].user \in User /\ req[h].role \in MemberRole /\ req[h].by \in User
         /\ DOMAIN members' = DOMAIN members \cup {Len(members) + 1}
         /\ Len(members) + 1 \notin DOMAIN members
         /\ members'[Len(members) + 1] = [user |-> req[h].user, role |-> req[h].role]
         /\ \A i \in DOMAIN members : members'[i] = members[i]
         /\ WriteAudit("member_added", req[h].by, req[h].user, Null, req[h].role)
<1>1. /\ pc[h] = "commit" /\ req[h].op = "invite"
      /\ members' = Append(members, [user |-> req[h].user, role |-> req[h].role])
      /\ WriteAudit("member_added", req[h].by, req[h].user, Null, req[h].role)
  BY DEF Invite
<1>2. members \in Seq(MemberRow) /\ req[h].user \in User /\ req[h].role \in MemberRole /\ req[h].by \in User
  BY <1>1, At, OpFacts DEF MemberOps
<1> QED
  BY <1>1, <1>2, AddMember

(* The role that a role change or a removal leaves in its row.             *)
NewRole(h) ==
  IF req[h].op = "remove" THEN Null
  ELSE IF req[h].role # work[h].target THEN req[h].role ELSE members[req[h].member].role

(* What a role change and a removal set.                                   *)
LEMMA SetFacts ==
  ASSUME Basics, NEW h \in Handler, (ChangeRole(h) /\ Writing(h)) \/ Remove(h)
  PROVE  /\ pc[h] = "commit" /\ req[h].op \in {"change", "remove"}
         /\ req[h].member \in DOMAIN members /\ members[req[h].member] \in MemberRow
         /\ req[h].by \in User
         /\ req[h].op = "change" => req[h].role \in MemberRole
         /\ members[req[h].member].role = Null => NewRole(h) = Null
         /\ DOMAIN members' = DOMAIN members
         /\ members'[req[h].member] = [user |-> members[req[h].member].user, role |-> NewRole(h)]
         /\ \A j \in DOMAIN members : j # req[h].member => members'[j] = members[j]
         /\ req[h].op = "change" =>
              WriteAudit("member_role_changed", req[h].by, members[req[h].member].user,
                         work[h].target, req[h].role)
         /\ req[h].op = "remove" =>
              WriteAudit("member_removed", req[h].by, members[req[h].member].user, Null, Null)
<1> DEFINE q == req[h]
           i == q.member
<1>1. pc[h] = "commit" /\ q.op \in {"change", "remove"}
  BY DEF ChangeRole, Remove
<1>2. /\ members \in Seq(MemberRow) /\ i \in DOMAIN members /\ q.by \in User
      /\ q.op = "change" => q.role \in MemberRole
  BY <1>1, At, OpFacts DEF MemberOps, RequestFits
<1>3. members[i] \in MemberRow
  BY <1>2
<1>4. NewRole(h) \in MemberRole \cup {Null}
  BY <1>1, <1>2, <1>3 DEF MemberRow, NewRole
<1>5. members[i].role = Null => NewRole(h) = Null
  BY <1>1 DEF ChangeRole, Remove, Writing, Exists, NewRole
<1>6. members' = [members EXCEPT ![i].role = NewRole(h)]
  <2>1. CASE Remove(h)
    BY <2>1 DEF Remove, NewRole
  <2>2. CASE ChangeRole(h) /\ Writing(h)
    <3>1. members' = [members EXCEPT ![i].role = IF q.role # work[h].target THEN q.role ELSE members[i].role]
      BY <1>2, <2>2 DEF ChangeRole, Writing
    <3> QED
      BY <2>2, <3>1 DEF ChangeRole, NewRole
  <2> QED
    BY <2>1, <2>2
<1>7. /\ q.op = "change" =>
           WriteAudit("member_role_changed", q.by, members[i].user, work[h].target, q.role)
      /\ q.op = "remove" => WriteAudit("member_removed", q.by, members[i].user, Null, Null)
  BY DEF ChangeRole, Remove, Writing
<1>8. /\ DOMAIN members' = DOMAIN members
      /\ members'[i] = [user |-> members[i].user, role |-> NewRole(h)]
      /\ \A j \in DOMAIN members : j # i => members'[j] = members[j]
  BY <1>2, <1>4, <1>6, SetRole
<1> QED
  BY <1>1, <1>2, <1>3, <1>5, <1>7, <1>8

(* Nobody becomes a member twice: an invitation is checked against the     *)
(* unique constraint in the transaction that adds the row.                 *)
LEMMA NextOneMembership == Basics /\ OneMembership /\ [Next]_vars => OneMembership'
<1> SUFFICES ASSUME Basics, OneMembership, [Next]_vars PROVE OneMembership'
  OBVIOUS
<1>1. CASE members' = members
  BY <1>1 DEF OneMembership
<1>2. ASSUME NEW h \in Handler, Invite(h), MembershipsOf(req[h].user) = {} PROVE OneMembership'
  <2>1. \A i \in DOMAIN members : members[i].user = req[h].user => members[i].role = Null
    BY <1>2 DEF MembershipsOf, Exists
  <2> DEFINE n == Len(members) + 1
  <2>2. /\ DOMAIN members' = DOMAIN members \cup {Len(members) + 1}
        /\ \A i \in DOMAIN members : members'[i] = members[i]
    BY <1>2, InviteFacts
  <2>3. members'[Len(members) + 1] = [user |-> req[h].user, role |-> req[h].role]
    BY <1>2, InviteFacts
  <2>4. members'[n].user = req[h].user /\ DOMAIN members' = DOMAIN members \cup {n}
    BY <2>2, <2>3
  <2> HIDE DEF n
  <2> SUFFICES ASSUME NEW i \in DOMAIN members', NEW j \in DOMAIN members',
                      members'[i].user = members'[j].user,
                      members'[i].role # Null, members'[j].role # Null
               PROVE  i = j
    BY DEF OneMembership
  <2>5. i = n <=> j = n
    BY <2>1, <2>2, <2>4
  <2> QED
    BY <2>2, <2>4, <2>5 DEF OneMembership
<1>3. ASSUME NEW h \in Handler, (ChangeRole(h) /\ Writing(h)) \/ Remove(h) PROVE OneMembership'
  <2>1. ASSUME NEW j \in DOMAIN members'
        PROVE  /\ j \in DOMAIN members /\ members'[j].user = members[j].user
               /\ members'[j].role # Null => members[j].role # Null
    <3>1. CASE j = req[h].member
      <4>1. members'[j] = [user |-> members[j].user, role |-> NewRole(h)]
        BY <1>3, <3>1, SetFacts
      <4>2. j \in DOMAIN members /\ (members[j].role = Null => NewRole(h) = Null)
        BY <1>3, <3>1, SetFacts
      <4> QED
        BY <4>1, <4>2
    <3>2. CASE j # req[h].member
      BY <1>3, <3>2, SetFacts
    <3> QED
      BY <3>1, <3>2
  <2> QED
    BY <2>1 DEF OneMembership
<1> QED
  BY <1>1, <1>2, <1>3, MemberWrites

LEMMA AlwaysOneMembership == Spec => []OneMembership
<1>1. Init => OneMembership
  BY StoredAssumption DEF Init, OneMembership
<1> QED
  BY <1>1, NextOneMembership, AlwaysBasics, PTL DEF Spec

(* The memberships of a user are none or one. *)
LEMMA MembershipsSmall ==
  ASSUME OneMembership, NEW u
  PROVE  MembershipsOf(u) = {} \/ \E i \in MembershipsOf(u) : MembershipsOf(u) = {i}
BY DEF OneMembership, MembershipsOf, Exists

-----------------------------------------------------------------------------
(* A session that was logged out *)

(* A session a caller can name is stored, or opened by a login that is     *)
(* over; once deleted, nobody opens it again.                              *)
LogoutFits(h) ==
  pc[h] # "idle" /\ req[h].op = "logout" =>
    /\ req[h].key \in StoredSessions \/ (req[h].key.id \in Handler /\ pc[req[h].key.id] = "done")
    /\ pc[h] = "commit" \/ (pc[h] = "done" /\ resp[h].http = 204) => req[h].key \notin sessions

LogoutsFit == \A h \in Handler : LogoutFits(h)

LEMMA SessionsGrow ==
  ASSUME NEW h \in Handler, (MembersServe(h) /\ UNCHANGED sessions) \/ AccountsServe(h) \/ Abort(h)
  PROVE  \/ sessions' \subseteq sessions
         \/ pc[h] = "scan" /\ sessions' = sessions \cup {[id |-> h, user |-> req[h].user]}
BY DEF AccountsServe, Abort, LoginLoad, LoginFails, OpenSession, LoginSucceeds, RefreshLoad,
       RefreshCheck, LogoutLoad, LogoutCommit

LEMMA LogoutSteps ==
  ASSUME NEW h \in Handler, req[h].op = "logout", MembersServe(h) \/ AccountsServe(h) \/ Abort(h)
  PROVE  LogoutLoad(h) \/ LogoutCommit(h) \/ Abort(h)
BY DEF MembersServe, Guard, InviteCheck, TargetCheck, OwnerCheck, Invite, ChangeRole, Remove,
       AccountsServe, LoginLoad, LoginFails, OpenSession, LoginSucceeds, RefreshLoad, RefreshCheck

LEMMA NextLogoutsFit == Basics /\ LogoutsFit /\ [Next]_vars => LogoutsFit'
<1> SUFFICES ASSUME Basics, LogoutsFit, [Next]_vars, NEW h \in Handler
             PROVE  LogoutFits(h)'
  BY DEF LogoutsFit
<1> USE DEF LogoutsFit
<1>0. pc \in [Handler -> {"idle", "load", "check", "scan", "commit", "done"}]
      /\ req \in [Handler -> Requests \cup {Null}] /\ resp \in [Handler -> Answer \cup {Null}]
  BY DEF Basics, AccessTypeOK, HandlersTypeOK
<1>1. ASSUME NEW g \in Handler, NEW q \in Requests, Arrive(g, q) PROVE LogoutFits(h)'
  <2>1. /\ pc[g] = "idle" /\ pc' = [pc EXCEPT ![g] = "load"] /\ req' = [req EXCEPT ![g] = q]
        /\ UNCHANGED <<resp, sessions>>
    BY <1>1 DEF Arrive, Receive
  <2>2. \A d \in Handler : pc[d] = "done" => pc'[d] = "done"
    BY <1>0, <2>1
  <2>3. CASE g # h
    <3>1. pc'[h] = pc[h] /\ req'[h] = req[h]
      BY <1>0, <2>1, <2>3
    <3> QED
      BY <2>1, <2>2, <3>1 DEF LogoutFits
  <2>4. CASE g = h
    <3>1. pc'[h] = "load" /\ req'[h] = q
      BY <1>0, <2>1, <2>4
    <3>2. q.op = "logout" => Given(q.key)
      BY <1>1 DEF Arrive
    <3>3. ASSUME NEW d \in Handler, resp[d] # Null PROVE pc[d] = "done"
      BY <3>3 DEF Basics, RequestsFit, RequestFits
    <3>4. q.op = "logout" => q.key \in StoredSessions \/ (q.key.id \in Handler /\ pc[q.key.id] = "done")
      <4>1. ASSUME NEW d \in Handler, resp[d] # Null, q.key = [id |-> d, user |-> req[d].user]
            PROVE  q.key.id \in Handler /\ pc[q.key.id] = "done"
        BY <3>3, <4>1
      <4> QED
        BY <3>2, <4>1 DEF Given
    <3> QED
      BY <2>2, <3>1, <3>4 DEF LogoutFits
  <2> QED
    BY <2>3, <2>4
<1>2. ASSUME NEW g \in Handler, (MembersServe(g) /\ UNCHANGED sessions) \/ AccountsServe(g) \/ Abort(g)
      PROVE  LogoutFits(h)'
  <2>1. /\ Busy(g) /\ req' = req
        /\ \A d \in Handler : d # g => pc'[d] = pc[d] /\ resp'[d] = resp[d]
    BY <1>0, <1>2, ServeMovesOne
  <2>2. \A d \in Handler : pc[d] = "done" => pc'[d] = "done"
    BY <2>1 DEF Busy
  <2> SUFFICES ASSUME pc'[h] # "idle", req[h].op = "logout" PROVE LogoutFits(h)'
    BY <2>1 DEF LogoutFits
  <2>3. pc[h] # "idle"
    BY <2>1 DEF Busy
  <2>4. req[h].key \in StoredSessions \/ (req[h].key.id \in Handler /\ pc[req[h].key.id] = "done")
    BY <2>3 DEF LogoutFits
  <2>5. req[h].key \notin sessions => req[h].key \notin sessions'
    <3>1. req[h].key # [id |-> g, user |-> req[g].user]
      BY <2>1, <2>4, StoredAssumption DEF Busy
    <3> QED
      BY <1>2, <3>1, SessionsGrow
  <2>6. CASE g # h
    BY <2>1, <2>2, <2>3, <2>5, <2>6 DEF LogoutFits
  <2>7. CASE g = h
    <3>1. pc' = [pc EXCEPT ![h] = pc'[h]] /\ resp' = [resp EXCEPT ![h] = resp'[h]]
          /\ (LogoutLoad(h) \/ LogoutCommit(h) \/ Abort(h))
      BY <1>0, <1>2, <2>7, LogoutSteps, ServeMovesOne
    <3>2. CASE LogoutLoad(h)
      <4>1. \/ pc'[h] = "done" /\ resp'[h].http = 401
            \/ req[h].key \notin sessions'
        BY <1>0, <3>2 DEF LogoutLoad, Respond, Continue
      <4> QED
        BY <2>1, <2>2, <2>4, <4>1, <1>0, <3>2 DEF LogoutFits, LogoutLoad, Respond, Continue
    <3>3. CASE LogoutCommit(h)
      BY <2>1, <2>2, <2>3, <2>4, <3>3 DEF LogoutFits, LogoutCommit
    <3>4. CASE Abort(h)
      <4>1. pc'[h] = "done" /\ resp'[h].http = 500
        BY <1>0, <3>4 DEF Abort, Die, Respond
      <4> QED
        BY <2>1, <2>2, <2>4, <4>1 DEF LogoutFits
    <3> QED
      BY <3>1, <3>2, <3>3, <3>4
  <2> QED
    BY <2>6, <2>7
<1>3. CASE (\E u \in User : LockPasses(u)) \/ (\E key \in SessionKey : SessionExpires(key))
  BY <1>3 DEF LockPasses, SessionExpires, handlers, LogoutFits
<1>4. CASE UNCHANGED vars
  BY <1>4 DEF vars, handlers, LogoutFits
<1> QED
  BY <1>1, <1>2, <1>3, <1>4 DEF Next

(* A session that was logged out does not come back.                       *)
THEOREM LogoutIsFinal == Spec => []LogoutEndsSession
<1>1. Init => LogoutsFit
  BY DEF Init, HandlersInit, LogoutsFit, LogoutFits
<1>2. LogoutsFit => LogoutEndsSession
  BY DEF LogoutsFit, LogoutFits, LogoutEndsSession
<1> QED
  BY <1>1, <1>2, NextLogoutsFit, AlwaysBasics, PTL DEF Spec

-----------------------------------------------------------------------------
(* One request at a time *)

(* While no two requests have overlapped, one at most is in progress. *)
OneAtATime == Quiet => \A g, h \in Handler : Busy(g) /\ Busy(h) => g = h

(* Requests that overlapped have overlapped for good. *)
LEMMA QuietBefore == [Next]_vars /\ Quiet' => Quiet
<1> SUFFICES ASSUME [Next]_vars PROVE Quiet' => Quiet
  OBVIOUS
<1>1. ASSUME NEW h \in Handler, MembersServe(h) \/ AccountsServe(h) \/ Abort(h) PROVE overlap' = overlap
  BY <1>1, ServeMovesOne
<1>2. ASSUME NEW h \in Handler, NEW q \in Requests, Arrive(h, q) PROVE Quiet' => Quiet
  BY <1>2 DEF Arrive, Receive, Quiet
<1>3. CASE UNCHANGED vars
  BY <1>3 DEF vars, handlers, Quiet
<1>4. CASE (\E u \in User : LockPasses(u)) \/ (\E key \in SessionKey : SessionExpires(key))
  BY <1>4 DEF LockPasses, SessionExpires, handlers, Quiet
<1> QED
  BY <1>1, <1>2, <1>3, <1>4 DEF Next, Quiet

(* A request that is past its first step got there by a step of its own,   *)
(* or nothing moved it.                                                    *)
LEMMA OthersStandStill ==
  ASSUME Basics, OneAtATime, [Next]_vars, Quiet', NEW h \in Handler, Busy(h)', pc'[h] # "load"
  PROVE  \/ MembersServe(h) /\ UNCHANGED <<accounts, sessions>>
         \/ AccountsServe(h)
         \/ /\ UNCHANGED <<handlers, members, audit>>
            /\ \A u \in User : accounts'[u].failed = accounts[u].failed
<1>0. Quiet /\ pc \in [Handler -> {"idle", "load", "check", "scan", "commit", "done"}]
  BY QuietBefore DEF Basics, AccessTypeOK, HandlersTypeOK
<1>1. ASSUME NEW g \in Handler, MembersServe(g) \/ AccountsServe(g) \/ Abort(g)
      PROVE  g = h
  <2>1. Busy(g)
    BY <1>1, ServeMovesOne
  <2>2. g # h => pc'[h] = pc[h]
    BY <1>0, <1>1, ServeMovesOne
  <2> QED
    BY <1>0, <2>1, <2>2 DEF OneAtATime, Busy
<1>2. ~ Abort(h)
  BY <1>0 DEF Abort, Die, Respond, Busy
<1>3. ASSUME NEW g \in Handler, NEW q \in Requests, Arrive(g, q) PROVE FALSE
  <2>1. pc[g] = "idle" /\ pc' = [pc EXCEPT ![g] = "load"] /\ ~ \E k \in Handler : Busy(k)
    BY <1>3 DEF Arrive, Receive, Quiet
  <2>2. g # h /\ pc'[h] = pc[h]
    BY <1>0, <2>1
  <2> QED
    BY <2>1, <2>2 DEF Busy
<1>4. ASSUME NEW u \in User, LockPasses(u)
      PROVE  /\ UNCHANGED <<handlers, members, audit>>
             /\ \A v \in User : accounts'[v].failed = accounts[v].failed
  BY <1>4 DEF LockPasses, Basics, AccessTypeOK, Account
<1>5. ASSUME NEW key \in SessionKey, SessionExpires(key)
      PROVE  UNCHANGED <<handlers, members, audit, accounts>>
  BY <1>5 DEF SessionExpires
<1>6. CASE UNCHANGED vars
  BY <1>6 DEF vars
<1> QED
  BY <1>1, <1>2, <1>3, <1>4, <1>5, <1>6 DEF Next

LEMMA NextOneAtATime == Basics /\ OneAtATime /\ [Next]_vars => OneAtATime'
<1> SUFFICES ASSUME Basics, OneAtATime, [Next]_vars, Quiet' PROVE \A g, h \in Handler : Busy(g)' /\ Busy(h)' => g = h
  BY DEF OneAtATime
<1>0. Quiet /\ pc \in [Handler -> {"idle", "load", "check", "scan", "commit", "done"}]
  BY QuietBefore DEF Basics, AccessTypeOK, HandlersTypeOK
<1>1. ASSUME NEW k \in Handler, MembersServe(k) \/ AccountsServe(k) \/ Abort(k), NEW g \in Handler, Busy(g)'
      PROVE  Busy(g)
  <2>1. Busy(k) /\ (g # k => pc'[g] = pc[g])
    BY <1>0, <1>1, ServeMovesOne
  <2> QED
    BY <1>1, <2>1 DEF Busy
<1>2. ASSUME NEW k \in Handler, NEW q \in Requests, Arrive(k, q), NEW g \in Handler, Busy(g)'
      PROVE  g = k
  <2>1. pc' = [pc EXCEPT ![k] = "load"] /\ ~ \E j \in Handler : Busy(j)
    BY <1>2 DEF Arrive, Receive, Quiet
  <2> QED
    BY <1>0, <1>2, <2>1 DEF Busy
<1>3. CASE (\E u \in User : LockPasses(u)) \/ (\E key \in SessionKey : SessionExpires(key)) \/ UNCHANGED vars
  <2>1. pc' = pc
    BY <1>3 DEF LockPasses, SessionExpires, handlers, vars
  <2> QED
    BY <1>0, <2>1 DEF OneAtATime, Busy
<1> QED
  BY <1>0, <1>1, <1>2, <1>3 DEF Next, OneAtATime

-----------------------------------------------------------------------------
(* What a session holds is what the tables hold *)

Fresh(h) ==
  /\ pc[h] \in {"check", "scan", "commit"} /\ req[h].op \in MemberOps =>
       work[h].role = members[work[h].mine].role
  /\ pc[h] \in {"scan", "commit"} /\ req[h].op \in {"change", "remove"} =>
       work[h].target = members[req[h].member].role
  /\ pc[h] = "commit" /\ req[h].op \in {"change", "remove"} /\ LosesOwner(h, work[h].target) =>
       \E i \in Owners : i # req[h].member
  /\ pc[h] \in {"scan", "commit"} /\ req[h].op = "login" =>
       work[h].failed = accounts[req[h].user].failed

SessionsAreFresh == Quiet => \A h \in Handler : Fresh(h)

(* The count of owners tells whether there is another one.                 *)
LEMMA AnotherOwner ==
  ASSUME ~ (Cardinality(Owners) <= 1), NEW j
  PROVE  \E i \in Owners : i # j
<1> SUFFICES ASSUME ~ \E i \in Owners : i # j PROVE FALSE
  OBVIOUS
<1>1. Owners \subseteq {j}
  OBVIOUS
<1>2. IsFiniteSet({j}) /\ Cardinality({j}) = 1
  BY FS_Singleton
<1>3. Cardinality(Owners) <= 1
  BY <1>1, <1>2, FS_Subset
<1> QED
  BY <1>3

LEMMA CheckFresh ==
  ASSUME Basics, SessionsAreFresh, Quiet, NEW h \in Handler, Busy(h)',
         Guard(h) \/ InviteCheck(h) \/ TargetCheck(h) \/ OwnerCheck(h)
  PROVE  Fresh(h)'
<1> DEFINE q == req[h]
<1>0. /\ UNCHANGED <<members, req>> /\ pc[h] \in {"load", "check", "scan"} /\ q.op \in MemberOps
      /\ RequestFits(h) /\ Fresh(h)
      /\ pc \in [Handler -> {"idle", "load", "check", "scan", "commit", "done"}]
      /\ work \in [Handler -> Session \cup {Null}]
  BY At DEF Guard, InviteCheck, TargetCheck, OwnerCheck, Respond, Continue, MemberOps, SessionsAreFresh,
            Basics, AccessTypeOK, HandlersTypeOK
<1>1. ASSUME NEW c, Respond(h, c, Null) PROVE FALSE
  BY <1>0, <1>1 DEF Respond, Busy
<1>2. ASSUME NEW l \in {"check", "scan", "commit"}, NEW w, Continue(h, l, w),
             w.role = members[w.mine].role,
             l # "check" /\ q.op \in {"change", "remove"} => w.target = members[q.member].role,
             l = "commit" /\ q.op \in {"change", "remove"} /\ LosesOwner(h, w.target) =>
               \E i \in Owners : i # q.member
      PROVE  Fresh(h)'
  <2>1. pc'[h] = l /\ work'[h] = w
    BY <1>0, <1>2 DEF Continue
  <2> QED
    BY <1>0, <1>2, <2>1 DEF Fresh, LosesOwner, Owners, MemberOps
<1>3. CASE Guard(h)
  <2>1. PICK i : Continue(h, "check", [mine |-> i, role |-> members[i].role, target |-> Null])
    BY <1>1, <1>3 DEF Guard
  <2> DEFINE w == [mine |-> i, role |-> members[i].role, target |-> Null]
  <2>2. w.role = members[w.mine].role /\ Continue(h, "check", w)
    BY <2>1
  <2> HIDE DEF w
  <2> QED
    BY <1>2, <2>2
<1>5. CASE InviteCheck(h)
  <2>1. Continue(h, "commit", work[h]) /\ q.op = "invite" /\ pc[h] = "check"
    BY <1>1, <1>5 DEF InviteCheck
  <2> QED
    BY <1>0, <1>2, <2>1 DEF Fresh
<1>6. CASE OwnerCheck(h)
  <2>1. Continue(h, "commit", work[h]) /\ ~ (Cardinality(Owners) <= 1) /\ pc[h] = "scan"
    BY <1>1, <1>6 DEF OwnerCheck
  <2>2. \E i \in Owners : i # q.member
    BY <2>1, AnotherOwner
  <2> QED
    BY <1>0, <1>2, <2>1, <2>2 DEF Fresh
<1>7. CASE TargetCheck(h)
  <2> DEFINE role == Loaded(h, q.member)
             w == [work[h] EXCEPT !.target = role]
  <2>1. Continue(h, IF LosesOwner(h, role) THEN "scan" ELSE "commit", w) /\ pc[h] = "check"
    BY <1>1, <1>7 DEF TargetCheck
  <2>2. work[h] \in MemberSession /\ work[h].role = members[work[h].mine].role
    BY <1>0, <2>1 DEF Fresh, RequestFits
  <2>3. role = members[q.member].role
    BY <2>2 DEF Loaded
  <2>4. w.role = work[h].role /\ w.mine = work[h].mine /\ w.target = role
    BY <2>2 DEF MemberSession
  <2> HIDE DEF w, role
  <2> QED
    BY <1>2, <2>1, <2>2, <2>3, <2>4
<1> QED
  BY <1>3, <1>5, <1>6, <1>7

LEMMA LoginFresh ==
  ASSUME Basics, SessionsAreFresh, Quiet, NEW h \in Handler, Busy(h)', AccountsServe(h)
  PROVE  Fresh(h)'
<1>0. /\ UNCHANGED req /\ pc[h] # "idle" /\ RequestFits(h) /\ Fresh(h)
      /\ pc \in [Handler -> {"idle", "load", "check", "scan", "commit", "done"}]
      /\ work \in [Handler -> Session \cup {Null}]
  BY At, ServeMovesOne DEF SessionsAreFresh, Busy, Basics, AccessTypeOK, HandlersTypeOK
<1>1. ASSUME NEW c, Respond(h, c, Null) PROVE FALSE
  BY <1>0, <1>1 DEF Respond, Busy
<1>2. CASE LoginLoad(h)
  <2>1. /\ UNCHANGED accounts /\ req[h].op = "login"
        /\ \E l : Continue(h, l, accounts[req[h].user])
    BY <1>1, <1>2 DEF LoginLoad
  <2> QED
    BY <1>0, <2>1 DEF Fresh, Continue, MemberOps
<1>3. CASE OpenSession(h)
  <2>1. UNCHANGED accounts /\ req[h].op = "login" /\ pc[h] = "scan" /\ Continue(h, "commit", work[h])
    BY <1>3 DEF OpenSession
  <2> QED
    BY <1>0, <2>1 DEF Fresh, Continue, MemberOps
<1>4. CASE LoginFails(h) \/ LoginSucceeds(h)
  BY <1>1, <1>4 DEF LoginFails, LoginSucceeds
<1>5. CASE RefreshLoad(h) \/ RefreshCheck(h) \/ LogoutLoad(h) \/ LogoutCommit(h)
  <2>1. req[h].op \in {"refresh", "logout"}
    BY <1>5 DEF RefreshLoad, RefreshCheck, LogoutLoad, LogoutCommit
  <2> QED
    BY <1>0, <2>1 DEF Fresh, MemberOps
<1> QED
  BY <1>2, <1>3, <1>4, <1>5 DEF AccountsServe

(* As long as requests do not overlap, a request holds what the tables     *)
(* hold, and a request that takes an owner away has seen another one.      *)
LEMMA NextFresh ==
  Basics /\ OneAtATime /\ SessionsAreFresh /\ [Next]_vars => SessionsAreFresh'
<1> SUFFICES ASSUME Basics, OneAtATime, SessionsAreFresh, [Next]_vars, Quiet', NEW h \in Handler
             PROVE  Fresh(h)'
  BY DEF SessionsAreFresh
<1>0. Quiet /\ Fresh(h)
  BY QuietBefore DEF SessionsAreFresh
<1>1. CASE ~ Busy(h)' \/ pc'[h] = "load"
  BY <1>1 DEF Busy, Fresh
<1>2. CASE MembersServe(h) /\ Busy(h)'
  <2>1. ~ (Invite(h) \/ ChangeRole(h) \/ Remove(h))
    BY <1>2 DEF Invite, ChangeRole, Remove, Respond, Busy, Basics, AccessTypeOK, HandlersTypeOK
  <2> QED
    BY <1>0, <1>2, <2>1, CheckFresh DEF MembersServe
<1>3. CASE AccountsServe(h) /\ Busy(h)'
  BY <1>0, <1>3, LoginFresh
<1>4. CASE UNCHANGED <<handlers, members, audit>> /\ \A u \in User : accounts'[u].failed = accounts[u].failed
  <2>1. pc[h] # "idle" /\ req[h].op = "login" => req[h].user \in User
    BY At, OpFacts
  <2> QED
    BY <1>0, <1>4, <2>1 DEF Fresh, LosesOwner, Owners, handlers
<1> QED
  BY <1>1, <1>2, <1>3, <1>4, OthersStandStill

(* The role of a user is the role of the row they have.                    *)
RolesAreRead ==
  \A u \in User :
    /\ MembershipsOf(u) = {} => RoleOf(u) = Null
    /\ \A i \in MembershipsOf(u) : RoleOf(u) = members[i].role

LEMMA RolesRead == OneMembership => RolesAreRead
BY MembershipsSmall DEF RolesAreRead, RoleOf

Settled == Basics /\ OneMembership /\ RolesAreRead /\ OneAtATime /\ SessionsAreFresh

LEMMA AlwaysSettled == Spec => []Settled
<1>1. Init => OneAtATime /\ SessionsAreFresh
  BY DEF Init, HandlersInit, OneAtATime, SessionsAreFresh, Fresh, Busy
<1> QED
  BY <1>1, AlwaysBasics, AlwaysOneMembership, RolesRead, NextOneAtATime, NextFresh, PTL DEF Spec, Settled

-----------------------------------------------------------------------------
(* An owner remains *)

OwnerStays == Quiet => OwnerRemains

(* The request that takes an owner's role away has seen another owner, and *)
(* nobody has moved since.                                                 *)
LEMMA NextOwnerStays == Settled /\ OwnerStays /\ [Next]_vars => OwnerStays'
<1> SUFFICES ASSUME Settled, OwnerStays, [Next]_vars, Quiet' PROVE OwnerRemains'
  BY DEF OwnerStays
<1>0. Quiet /\ Owners # {} /\ Basics /\ SessionsAreFresh
  BY QuietBefore DEF OwnerStays, OwnerRemains, Settled
<1>1. CASE members' = members
  BY <1>0, <1>1 DEF OwnerRemains, Owners
<1>2. ASSUME NEW h \in Handler, Invite(h), MembershipsOf(req[h].user) = {} PROVE OwnerRemains'
  <2>1. DOMAIN members \subseteq DOMAIN members' /\ \A i \in DOMAIN members : members'[i] = members[i]
    BY <1>0, <1>2, InviteFacts
  <2> QED
    BY <1>0, <2>1 DEF OwnerRemains, Owners
<1>3. ASSUME NEW h \in Handler, (ChangeRole(h) /\ Writing(h)) \/ Remove(h) PROVE OwnerRemains'
  <2> DEFINE i == req[h].member
  <2>1. /\ pc[h] = "commit" /\ req[h].op \in {"change", "remove"} /\ DOMAIN members' = DOMAIN members
        /\ \A j \in DOMAIN members : j # i => members'[j] = members[j]
    BY <1>0, <1>3, SetFacts
  <2>2. i \in DOMAIN members /\ members'[i] = [user |-> members[i].user, role |-> NewRole(h)]
    BY <1>0, <1>3, SetFacts
  <2>3. members'[i].role = NewRole(h)
    BY <2>2
  <2>4. Fresh(h)
    BY <1>0 DEF SessionsAreFresh
  <2>5. CASE \E j \in Owners : j # i
    BY <2>1, <2>5 DEF OwnerRemains, Owners
  <2>6. CASE ~ \E j \in Owners : j # i
    <3>1. members[i].role = "OWNER"
      BY <1>0, <2>6 DEF Owners
    <3>2. work[h].target = "OWNER" /\ ~ LosesOwner(h, work[h].target)
      BY <2>1, <2>4, <2>6, <3>1 DEF Fresh
    <3>3. NewRole(h) = "OWNER"
      BY <2>1, <3>1, <3>2 DEF LosesOwner, NewRole
    <3> QED
      BY <2>1, <2>2, <2>3, <3>3 DEF OwnerRemains, Owners
  <2> QED
    BY <2>5, <2>6
<1> QED
  BY <1>1, <1>2, <1>3, MemberWrites

(* Tables keep their shape, nobody is a member twice, and as long as no    *)
(* two requests overlap somebody owns the organisation.                    *)
THEOREM MembersStaySound == Spec => []MembersAreSound
<1>1. Init => OwnerStays
  <2>1. Init => Owners # {}
    BY StoredAssumption DEF Init, Owners
  <2> QED
    BY <2>1 DEF OwnerStays, OwnerRemains
<1>2. Settled /\ OwnerStays => MembersAreSound
  <2> SUFFICES ASSUME Settled, OwnerStays, NEW u \in User PROVE Cardinality(MembershipsOf(u)) <= 1
    BY DEF MembersAreSound, Settled, Basics, OwnerStays
  <2>1. CASE MembershipsOf(u) = {}
    BY <2>1, FS_EmptySet
  <2>2. CASE \E i \in MembershipsOf(u) : MembershipsOf(u) = {i}
    BY <2>2, FS_Singleton
  <2> QED
    BY <2>1, <2>2, MembershipsSmall DEF Settled
<1> QED
  BY <1>1, <1>2, NextOwnerStays, AlwaysSettled, PTL DEF Spec

-----------------------------------------------------------------------------
(* What a write does to roles and to the audit log *)

MemberWrite(h) ==
  \/ Invite(h) /\ MembershipsOf(req[h].user) = {}
  \/ ChangeRole(h) /\ Writing(h)
  \/ Remove(h)

(* Request h gives u the role r, says so in the audit log, and leaves      *)
(* everybody else alone.                                                   *)
Gives(h, u, r) ==
  /\ \E e \in MemberEvents : \E b : WriteAudit(e, req[h].by, u, b, r)
  /\ RoleOf(u)' = r
  /\ r \in Elevated => MayAssign(work[h].role, r)
  /\ \A v \in User : v # u =>
       RoleOf(v)' = RoleOf(v) /\ (MembershipsOf(v)' = {} <=> MembershipsOf(v) = {})

LEMMA RoleKept ==
  ASSUME RolesAreRead, RolesAreRead', NEW v \in User, MembershipsOf(v)' = MembershipsOf(v),
         \A i \in MembershipsOf(v) : members'[i] = members[i]
  PROVE  RoleOf(v)' = RoleOf(v)
BY DEF RolesAreRead

LEMMA InviteGives ==
  ASSUME Settled, Settled', NEW h \in Handler, Invite(h), MembershipsOf(req[h].user) = {},
         NEW u, u = req[h].user
  PROVE  u \in User /\ Gives(h, u, req[h].role)
<1> DEFINE n == Len(members) + 1
<1>1. /\ Basics /\ RolesAreRead /\ RolesAreRead'
  BY DEF Settled
<1>2. /\ DOMAIN members' = DOMAIN members \cup {n} /\ n \notin DOMAIN members
      /\ \A i \in DOMAIN members : members'[i] = members[i]
      /\ pc[h] = "commit" /\ req[h].op = "invite"
      /\ u \in User /\ req[h].role \in MemberRole
      /\ WriteAudit("member_added", req[h].by, u, Null, req[h].role)
  BY <1>1, InviteFacts
<1>3. members'[n] = [user |-> u, role |-> req[h].role]
  BY <1>1, InviteFacts
<1>4. members'[n].user = u /\ members'[n].role = req[h].role
  BY <1>3
<1>5. req[h].role # Null
  BY <1>2, AccessAssumption
<1> HIDE DEF n
<1>6. RoleOf(u)' = req[h].role
  <2>1. n \in MembershipsOf(u)'
    BY <1>2, <1>4, <1>5 DEF MembershipsOf, Exists
  <2> QED
    BY <1>1, <1>2, <1>4, <2>1 DEF RolesAreRead
<1>7. ASSUME NEW v \in User, v # u
      PROVE  RoleOf(v)' = RoleOf(v) /\ MembershipsOf(v)' = MembershipsOf(v)
  <2>1. MembershipsOf(v)' = MembershipsOf(v)
    BY <1>2, <1>4, <1>7 DEF MembershipsOf, Exists
  <2>2. \A i \in MembershipsOf(v) : members'[i] = members[i]
    BY <1>2 DEF MembershipsOf
  <2> QED
    BY <1>1, <2>1, <2>2, RoleKept
<1>8. MayAssign(work[h].role, req[h].role)
  BY <1>1, <1>2, At DEF RequestFits
<1> QED
  BY <1>2, <1>6, <1>7, <1>8 DEF Gives, MemberEvents

LEMMA SetGives ==
  ASSUME Settled, Settled', Quiet, NEW h \in Handler, (ChangeRole(h) /\ Writing(h)) \/ Remove(h),
         NEW u, u = members[req[h].member].user, NEW i, i = req[h].member
  PROVE  u \in User /\ Gives(h, u, NewRole(h))
<1>1. Basics /\ RolesAreRead /\ RolesAreRead' /\ OneMembership /\ Fresh(h)
  BY DEF Settled, SessionsAreFresh
<1>2. /\ pc[h] = "commit" /\ req[h].op \in {"change", "remove"} /\ i \in DOMAIN members
      /\ DOMAIN members' = DOMAIN members
      /\ \A j \in DOMAIN members : j # i => members'[j] = members[j]
      /\ req[h].op = "change" => req[h].role \in MemberRole
      /\ req[h].op = "change" =>
           WriteAudit("member_role_changed", req[h].by, u, work[h].target, req[h].role)
      /\ req[h].op = "remove" => WriteAudit("member_removed", req[h].by, u, Null, Null)
  BY <1>1, SetFacts
<1>3. members'[i] = [user |-> u, role |-> NewRole(h)]
  BY <1>1, SetFacts
<1>4. members'[i].user = u /\ members'[i].role = NewRole(h)
  BY <1>3
<1>5. members[i] \in MemberRow
  BY <1>1, SetFacts
<1>6. u \in User
  BY <1>5 DEF MemberRow
<1>7. work[h].target \in MemberRole /\ work[h].target = members[i].role
  BY <1>1, <1>2, At DEF RequestFits, Fresh
<1>8. /\ Null \notin MemberRole
      /\ NewRole(h) = IF req[h].op = "remove" THEN Null ELSE req[h].role
  BY <1>2, <1>7, AccessAssumption DEF NewRole
<1>9. i \in MembershipsOf(u)
  BY <1>2, <1>7, <1>8 DEF MembershipsOf, Exists
<1>10. \A j \in MembershipsOf(u) : j = i
  BY <1>1, <1>9 DEF OneMembership, MembershipsOf, Exists
<1>11. RoleOf(u)' = NewRole(h)
  <2>1. CASE req[h].op = "remove"
    <3>1. NewRole(h) = Null
      BY <1>8, <2>1
    <3>2. MembershipsOf(u)' = {}
      BY <1>2, <1>4, <1>10, <3>1 DEF MembershipsOf, Exists
    <3> QED
      BY <1>1, <1>6, <3>1, <3>2 DEF RolesAreRead
  <2>2. CASE req[h].op = "change"
    <3>1. i \in MembershipsOf(u)'
      BY <1>2, <1>4, <1>8, <2>2 DEF MembershipsOf, Exists
    <3> QED
      BY <1>1, <1>4, <1>6, <3>1 DEF RolesAreRead
  <2> QED
    BY <1>2, <2>1, <2>2
<1>12. ASSUME NEW v \in User, v # u
       PROVE  RoleOf(v)' = RoleOf(v) /\ MembershipsOf(v)' = MembershipsOf(v)
  <2>1. MembershipsOf(v)' = MembershipsOf(v)
    BY <1>2, <1>4, <1>12 DEF MembershipsOf, Exists
  <2>2. \A j \in MembershipsOf(v) : members'[j] = members[j]
    BY <1>2, <1>12 DEF MembershipsOf
  <2> QED
    BY <1>1, <2>1, <2>2, RoleKept
<1>13. NewRole(h) \in Elevated => MayAssign(work[h].role, NewRole(h))
  BY <1>1, <1>2, <1>8, At DEF RequestFits, Elevated, MemberRole
<1>14. \E e \in MemberEvents : \E b : WriteAudit(e, req[h].by, u, b, NewRole(h))
  BY <1>2, <1>8 DEF MemberEvents
<1> QED
  BY <1>6, <1>11, <1>12, <1>13, <1>14 DEF Gives

(* Every write of the table of members gives one user a role.              *)
LEMMA WritesGive ==
  ASSUME Settled, Settled', Quiet, NEW h \in Handler, MemberWrite(h)
  PROVE  \E u \in User : \E r : Gives(h, u, r) /\ pc[h] = "commit" /\ req[h].op \in MemberOps
<1>0. Basics
  BY DEF Settled
<1>1. CASE Invite(h) /\ MembershipsOf(req[h].user) = {}
  <2>1. pc[h] = "commit" /\ req[h].op = "invite"
    BY <1>0, <1>1, InviteFacts
  <2>2. \E u \in User : Gives(h, u, req[h].role)
    BY <1>1, InviteGives
  <2> QED
    BY <2>1, <2>2 DEF MemberOps
<1>2. CASE (ChangeRole(h) /\ Writing(h)) \/ Remove(h)
  <2>1. pc[h] = "commit" /\ req[h].op \in {"change", "remove"}
    BY <1>0, <1>2, SetFacts
  <2>2. \E u \in User : Gives(h, u, NewRole(h))
    BY <1>2, SetGives
  <2> QED
    BY <2>1, <2>2 DEF MemberOps
<1> QED
  BY <1>1, <1>2 DEF MemberWrite

(* A request that gives the role of admin or owner speaks for an owner     *)
(* still, and its audit entry names both.                                  *)
LEMMA GivenByOwner ==
  ASSUME Settled, Quiet, NEW h \in Handler, NEW u \in User, NEW r, Gives(h, u, r),
         pc[h] = "commit", req[h].op \in MemberOps, r \in Elevated
  PROVE  /\ audit'[Len(audit')].about = u
         /\ RoleOf(audit'[Len(audit')].by) = "OWNER"
<1>1. Basics /\ RolesAreRead /\ Fresh(h) /\ RequestFits(h) /\ audit \in Seq(AuditRow) /\ req[h] \in Requests
  BY At DEF Settled, SessionsAreFresh
<1>2. req[h].by \in User
  BY <1>1, OpFacts
<1>3. PICK e, b : WriteAudit(e, req[h].by, u, b, r)
  BY DEF Gives
<1>4. /\ Len(audit') = Len(audit) + 1
      /\ audit'[Len(audit) + 1] = [event |-> e, by |-> req[h].by, about |-> u, before |-> b, after |-> r]
  BY <1>1, <1>3, AuditEntry
<1>5. audit'[Len(audit')].about = u /\ audit'[Len(audit')].by = req[h].by
  BY <1>4
<1>6. work[h].role = "OWNER"
  BY DEF Gives, MayAssign
<1>7. /\ work[h].mine \in DOMAIN members /\ members[work[h].mine].user = req[h].by
      /\ members[work[h].mine].role = "OWNER"
  BY <1>1, <1>6 DEF RequestFits, Fresh
<1>8. work[h].mine \in MembershipsOf(req[h].by)
  BY <1>7, AccessAssumption DEF MembershipsOf, Exists, MemberRole
<1>9. RoleOf(req[h].by) = "OWNER"
  BY <1>1, <1>2, <1>7, <1>8 DEF RolesAreRead
<1> QED
  BY <1>5, <1>9

LEMMA StepElevates == Settled /\ Settled' /\ [Next]_vars => [OwnerElevates]_members
<1> SUFFICES ASSUME Settled, Settled', [Next]_vars, members' # members, NEW u \in User,
                    ~ overlap', RoleOf(u)' \in Elevated, RoleOf(u) # RoleOf(u)'
             PROVE  audit'[Len(audit')].about = u /\ RoleOf(audit'[Len(audit')].by) = "OWNER"
  BY DEF OwnerElevates
<1>1. Quiet
  BY QuietBefore DEF Quiet
<1>2. PICK h \in Handler : MemberWrite(h)
  BY MemberWrites DEF MemberWrite
<1>3. PICK w, r : w \in User /\ Gives(h, w, r) /\ pc[h] = "commit" /\ req[h].op \in MemberOps
  BY <1>1, <1>2, WritesGive
<1>4. w = u
  BY <1>3 DEF Gives
<1>5. r \in Elevated
  BY <1>3, <1>4 DEF Gives
<1> QED
  BY <1>1, <1>3, <1>4, <1>5, GivenByOwner

(* Authority checked at the start of a request holds at its commit, unless *)
(* requests overlapped: whoever becomes admin or owner was made so by an   *)
(* owner.                                                                  *)
THEOREM OnlyOwnersElevate == Spec => OwnersElevate
BY AlwaysSettled, StepElevates, PTL DEF Spec, OwnersElevate

-----------------------------------------------------------------------------
(* What the audit log tells *)

(* A step writes the table of members, or changes an account at most, and  *)
(* its audit entry, if there is one, is about something else.              *)
LEMMA AuditSteps ==
  ASSUME Basics, [Next]_vars
  PROVE  \/ \E h \in Handler : MemberWrite(h) /\ accounts' = accounts
         \/ \E h \in Handler : LoginFails(h) \/ LoginSucceeds(h)
         \/ /\ members' = members
            /\ accounts' = accounts \/ \E u \in User : LockPasses(u)
            /\ \/ audit' = audit
               \/ \E e \in {"cross_org_access", "access_denied", "logout"} : \E by, u :
                    WriteAudit(e, by, u, Null, Null)
<1>1. ASSUME NEW h \in Handler, MembersServe(h), UNCHANGED <<accounts, sessions>>
      PROVE  \/ MemberWrite(h)
             \/ /\ members' = members
                /\ \/ audit' = audit
                   \/ \E e \in {"cross_org_access", "access_denied"} : \E by, u : WriteAudit(e, by, u, Null, Null)
  <2>1. CASE Guard(h)
    BY <2>1 DEF Guard
  <2>2. CASE InviteCheck(h) \/ TargetCheck(h) \/ OwnerCheck(h)
    BY <2>2 DEF InviteCheck, TargetCheck, OwnerCheck
  <2>3. CASE Invite(h) \/ ChangeRole(h) \/ Remove(h)
    BY <2>3 DEF Invite, ChangeRole, MemberWrite, Writing
  <2> QED
    BY <1>1, <2>1, <2>2, <2>3 DEF MembersServe
<1>2. ASSUME NEW h \in Handler, AccountsServe(h) \/ Abort(h)
      PROVE  \/ LoginFails(h) \/ LoginSucceeds(h)
             \/ /\ members' = members /\ accounts' = accounts
                /\ audit' = audit \/ \E by, u : WriteAudit("logout", by, u, Null, Null)
  BY <1>2 DEF AccountsServe, Abort, LoginLoad, OpenSession, RefreshLoad, RefreshCheck, LogoutLoad,
              LogoutCommit, AuditIfMember
<1>3. CASE UNCHANGED vars
  BY <1>3 DEF vars
<1>4. ASSUME NEW h \in Handler, NEW q \in Requests, Arrive(h, q) PROVE UNCHANGED <<members, audit, accounts>>
  BY <1>4 DEF Arrive
<1>5. ASSUME NEW u \in User, LockPasses(u) PROVE UNCHANGED <<members, audit>>
  BY <1>5 DEF LockPasses
<1>6. ASSUME NEW key \in SessionKey, SessionExpires(key) PROVE UNCHANGED <<members, audit, accounts>>
  BY <1>6 DEF SessionExpires
<1> QED
  BY <1>1, <1>2, <1>3, <1>4, <1>5, <1>6 DEF Next

(* The entries about a user grow by the one that is written.               *)
LEMMA EntriesGrow ==
  ASSUME audit \in Seq(AuditRow), NEW e, NEW by, NEW u, NEW b, NEW a, WriteAudit(e, by, u, b, a),
         NEW v, NEW E
  PROVE  /\ v = u /\ e \in E => EntriesAbout(v, E)' = EntriesAbout(v, E) \cup {Len(audit) + 1}
         /\ v # u \/ e \notin E => EntriesAbout(v, E)' = EntriesAbout(v, E)
<1>1. /\ DOMAIN audit' = DOMAIN audit \cup {Len(audit) + 1}
      /\ \A n \in DOMAIN audit : n \in Nat /\ n < Len(audit) + 1 /\ audit'[n] = audit[n]
  BY AuditEntry
<1>2. audit'[Len(audit) + 1] = [event |-> e, by |-> by, about |-> u, before |-> b, after |-> a]
  BY AuditEntry
<1>3. audit'[Len(audit) + 1].event = e /\ audit'[Len(audit) + 1].about = u
  BY <1>2
<1>4. Len(audit) + 1 \notin DOMAIN audit
  OBVIOUS
<1> QED
  BY <1>1, <1>3, <1>4 DEF EntriesAbout

LEMMA EntriesAreNumbers ==
  ASSUME audit \in Seq(AuditRow), NEW v, NEW E, NEW n \in EntriesAbout(v, E)
  PROVE  n \in DOMAIN audit /\ n \in Nat /\ n < Len(audit) + 1
BY DEF EntriesAbout

LEMMA LatestIs ==
  ASSUME NEW S \in SUBSET Nat, NEW n \in S, \A m \in S : m <= n
  PROVE  Latest(S) = n
<1>1. Latest(S) \in S /\ \A m \in S : m <= Latest(S)
  BY DEF Latest
<1>2. Latest(S) <= n /\ n <= Latest(S) /\ Latest(S) \in Nat /\ n \in Nat
  BY <1>1
<1> HIDE DEF Latest
<1> QED
  BY <1>2

(* The last entry about the membership of u ends with the role u has.      *)
Told(u) ==
  EntriesAbout(u, MemberEvents) # {} =>
    \E n \in EntriesAbout(u, MemberEvents) :
      /\ \A m \in EntriesAbout(u, MemberEvents) : m <= n
      /\ RoleOf(u) = audit[n].after

RolesTold == Quiet => \A u \in User : Told(u)

(* Entries and role of u stay, or the new last entry is their new role.    *)
LEMMA ToldStays ==
  ASSUME audit \in Seq(AuditRow), NEW e, NEW by, NEW w, NEW b, NEW a, WriteAudit(e, by, w, b, a),
         NEW u, Told(u), u # w \/ e \notin MemberEvents, RoleOf(u)' = RoleOf(u)
  PROVE  Told(u)'
<1>1. EntriesAbout(u, MemberEvents)' = EntriesAbout(u, MemberEvents)
  BY EntriesGrow
<1>2. \A n \in EntriesAbout(u, MemberEvents) : audit'[n] = audit[n]
  BY EntriesAreNumbers, AuditEntry
<1> QED
  BY <1>1, <1>2 DEF Told

LEMMA ToldAnew ==
  ASSUME audit \in Seq(AuditRow), NEW e \in MemberEvents, NEW by, NEW u, NEW b, NEW a,
         WriteAudit(e, by, u, b, a), RoleOf(u)' = a
  PROVE  Told(u)'
<1>1. EntriesAbout(u, MemberEvents)' = EntriesAbout(u, MemberEvents) \cup {Len(audit) + 1}
  BY EntriesGrow
<1>2. audit'[Len(audit) + 1] = [event |-> e, by |-> by, about |-> u, before |-> b, after |-> a]
  BY AuditEntry
<1>3. audit'[Len(audit) + 1].after = a
  BY <1>2
<1>4. \A m \in EntriesAbout(u, MemberEvents)' : m <= Len(audit) + 1
  <2>1. Len(audit) \in Nat
    OBVIOUS
  <2> QED
    BY <1>1, <2>1, EntriesAreNumbers
<1> QED
  BY <1>1, <1>3, <1>4 DEF Told

LEMMA NextRolesTold == Settled /\ Settled' /\ RolesTold /\ [Next]_vars => RolesTold'
<1> SUFFICES ASSUME Settled, Settled', RolesTold, [Next]_vars, Quiet', NEW u \in User
             PROVE  Told(u)'
  BY DEF RolesTold
<1>0. Quiet /\ Told(u) /\ Basics /\ audit \in Seq(AuditRow)
  BY QuietBefore DEF RolesTold, Settled, Basics, AccessTypeOK
<1>1. ASSUME NEW h \in Handler, MemberWrite(h) PROVE Told(u)'
  <2>1. PICK w, r : w \in User /\ Gives(h, w, r)
    BY <1>0, <1>1, WritesGive
  <2>2. PICK e, b : e \in MemberEvents /\ WriteAudit(e, req[h].by, w, b, r)
    BY <2>1 DEF Gives
  <2>3. CASE u = w
    BY <1>0, <2>1, <2>2, <2>3, ToldAnew DEF Gives
  <2>4. CASE u # w
    BY <1>0, <2>1, <2>2, <2>4, ToldStays DEF Gives
  <2> QED
    BY <2>3, <2>4
<1>2. ASSUME members' = members PROVE RoleOf(u)' = RoleOf(u)
  BY <1>2 DEF RoleOf, MembershipsOf, Exists
<1>3. ASSUME members' = members, audit' = audit PROVE Told(u)'
  BY <1>0, <1>2, <1>3 DEF Told, EntriesAbout
<1>4. ASSUME members' = members, NEW e, e \notin MemberEvents, NEW by, NEW w, WriteAudit(e, by, w, Null, Null)
      PROVE  Told(u)'
  BY <1>0, <1>2, <1>4, ToldStays
<1>5. ASSUME NEW h \in Handler, LoginFails(h) \/ LoginSucceeds(h) PROVE Told(u)'
  BY <1>3, <1>4, <1>5 DEF LoginFails, LoginSucceeds, AuditIfMember, MemberEvents
<1>6. ASSUME members' = members,
             NEW e \in {"cross_org_access", "access_denied", "logout"}, NEW by, NEW w,
             WriteAudit(e, by, w, Null, Null)
      PROVE  Told(u)'
  BY <1>4, <1>6 DEF MemberEvents
<1> QED
  BY <1>0, <1>1, <1>3, <1>5, <1>6, AuditSteps

(* As long as no two requests overlap, the audit log tells the role of     *)
(* everybody it tells anything about.                                      *)
THEOREM AuditTellsRoles == Spec => []AuditTellsRole
<1>1. Init => RolesTold
  BY DEF Init, RolesTold, Told, EntriesAbout
<1>2. Settled /\ RolesTold => AuditTellsRole
  <2> SUFFICES ASSUME Settled, RolesTold, Quiet, NEW u \in User, EntriesAbout(u, MemberEvents) # {}
               PROVE  RoleOf(u) = audit[Latest(EntriesAbout(u, MemberEvents))].after
    BY DEF AuditTellsRole
  <2>1. PICK n \in EntriesAbout(u, MemberEvents) :
               /\ \A m \in EntriesAbout(u, MemberEvents) : m <= n
               /\ RoleOf(u) = audit[n].after
    BY DEF RolesTold, Told
  <2>2. EntriesAbout(u, MemberEvents) \in SUBSET Nat
    BY EntriesAreNumbers DEF Settled, Basics, AccessTypeOK
  <2> QED
    BY <2>1, <2>2, LatestIs
<1> QED
  BY <1>1, <1>2, NextRolesTold, AlwaysSettled, PTL DEF Spec

-----------------------------------------------------------------------------
(* Failed logins *)

(* The entries that FailuresSinceLogin counts.                             *)
FailuresOf(u) ==
  {n \in EntriesAbout(u, {"login_failed"}) : \A m \in EntriesAbout(u, {"login"}) : m < n}

Counted(u) ==
  MembershipsOf(u) # {} /\ EntriesAbout(u, MemberEvents) = {} =>
    /\ accounts[u].failed = Cardinality(FailuresOf(u))
    /\ accounts[u].failed >= MaxAttempts => accounts[u].lock # "none"

FailuresCounted == Quiet => \A u \in User : Counted(u)

LEMMA FailuresFinite == ASSUME Basics, NEW u PROVE IsFiniteSet(FailuresOf(u))
<1>1. audit \in Seq(AuditRow) /\ DOMAIN audit = 1 .. Len(audit) /\ Len(audit) \in Nat
  BY DEF Basics, AccessTypeOK
<1>2. FailuresOf(u) \subseteq 1 .. Len(audit)
  BY <1>1 DEF FailuresOf, EntriesAbout
<1>3. IsFiniteSet(1 .. Len(audit))
  BY <1>1, FS_Interval
<1> QED
  BY <1>2, <1>3, FS_Subset

(* Whoever's membership, logins and account are left alone is counted as   *)
(* before.                                                                 *)
LEMMA CountStays ==
  ASSUME audit \in Seq(AuditRow), NEW u, Counted(u), accounts'[u].failed = accounts[u].failed,
         accounts[u].lock # "none" => accounts'[u].lock # "none",
         MembershipsOf(u)' = {} <=> MembershipsOf(u) = {},
         NEW e, NEW by, NEW w, NEW b, NEW a,
         audit' = audit \/ (WriteAudit(e, by, w, b, a) /\ (u # w \/ e \notin {"login", "login_failed"}))
  PROVE  Counted(u)'
<1>1. CASE audit' = audit
  BY <1>1 DEF Counted, FailuresOf, EntriesAbout
<1>2. CASE WriteAudit(e, by, w, b, a) /\ (u # w \/ e \notin {"login", "login_failed"})
  <2>1. /\ EntriesAbout(u, MemberEvents) \subseteq EntriesAbout(u, MemberEvents)'
        /\ EntriesAbout(u, {"login"})' = EntriesAbout(u, {"login"})
        /\ EntriesAbout(u, {"login_failed"})' = EntriesAbout(u, {"login_failed"})
    BY <1>2, EntriesGrow
  <2>2. FailuresOf(u)' = FailuresOf(u)
    BY <2>1 DEF FailuresOf
  <2> QED
    BY <2>1, <2>2 DEF Counted
<1> QED
  BY <1>1, <1>2

LEMMA FailureCounts ==
  ASSUME Settled, Quiet, FailuresCounted, NEW h \in Handler, LoginFails(h), NEW u \in User,
         u = req[h].user
  PROVE  Counted(u)'
<1> SUFFICES ASSUME MembershipsOf(u)' # {}, EntriesAbout(u, MemberEvents)' = {}
             PROVE  /\ accounts'[u].failed = Cardinality(FailuresOf(u)')
                    /\ accounts'[u].failed >= MaxAttempts => accounts'[u].lock # "none"
  BY DEF Counted
<1> DEFINE n == Len(audit) + 1
<1>1. /\ Basics /\ Fresh(h) /\ RequestFits(h) /\ Counted(u) /\ audit \in Seq(AuditRow)
      /\ accounts \in [User -> Account]
  BY At DEF LoginFails, Settled, SessionsAreFresh, FailuresCounted
<1>2. members' = members /\ AuditIfMember("login_failed", u) /\ pc[h] = "commit" /\ req[h].op = "login"
  BY DEF LoginFails
<1>3. WriteAudit("login_failed", u, u, Null, Null)
  BY <1>2 DEF AuditIfMember, MembershipsOf, Exists
<1>4. /\ EntriesAbout(u, MemberEvents)' = EntriesAbout(u, MemberEvents)
      /\ EntriesAbout(u, {"login"})' = EntriesAbout(u, {"login"})
      /\ EntriesAbout(u, {"login_failed"})' = EntriesAbout(u, {"login_failed"}) \cup {n}
  BY <1>1, <1>3, EntriesGrow DEF MemberEvents
<1>5. /\ \A m \in EntriesAbout(u, {"login"}) : m < n
      /\ n \notin FailuresOf(u)
  BY <1>1, EntriesAreNumbers DEF FailuresOf
<1>6. FailuresOf(u)' = FailuresOf(u) \cup {n}
  BY <1>4, <1>5 DEF FailuresOf
<1>7. Cardinality(FailuresOf(u)') = Cardinality(FailuresOf(u)) + 1
  BY <1>1, <1>5, <1>6, FailuresFinite, FS_AddElement
<1>8. accounts[u].failed = Cardinality(FailuresOf(u)) /\ work[h].failed = accounts[u].failed
  BY <1>1, <1>2, <1>4 DEF Counted, Fresh, MembershipsOf, Exists
<1>9. accounts[u] \in Account
  BY <1>1
<1>10. /\ accounts'[u].failed = work[h].failed + 1
       /\ accounts'[u].lock = IF work[h].failed + 1 >= MaxAttempts THEN "ahead" ELSE accounts[u].lock
  BY <1>1, <1>9 DEF LoginFails, Account
<1> QED
  BY <1>7, <1>8, <1>10

LEMMA SuccessCounts ==
  ASSUME Settled, Quiet, FailuresCounted, NEW h \in Handler, LoginSucceeds(h), NEW u \in User,
         u = req[h].user
  PROVE  Counted(u)'
<1> SUFFICES ASSUME MembershipsOf(u)' # {}, EntriesAbout(u, MemberEvents)' = {}
             PROVE  accounts'[u].failed = 0 /\ Cardinality(FailuresOf(u)') = 0
  BY AttemptsAssumption DEF Counted
<1> DEFINE n == Len(audit) + 1
<1>1. /\ Basics /\ Fresh(h) /\ RequestFits(h) /\ audit \in Seq(AuditRow) /\ accounts \in [User -> Account]
  BY At DEF LoginSucceeds, Settled, SessionsAreFresh
<1>2. members' = members /\ AuditIfMember("login", u) /\ pc[h] = "commit" /\ req[h].op = "login"
  BY DEF LoginSucceeds
<1>3. WriteAudit("login", u, u, Null, Null)
  BY <1>2 DEF AuditIfMember, MembershipsOf, Exists
<1>4. /\ EntriesAbout(u, {"login"})' = EntriesAbout(u, {"login"}) \cup {n}
      /\ EntriesAbout(u, {"login_failed"})' = EntriesAbout(u, {"login_failed"})
  BY <1>1, <1>3, EntriesGrow
<1>5. \A m \in EntriesAbout(u, {"login_failed"}) : ~ (n < m)
  BY <1>1, EntriesAreNumbers
<1> HIDE DEF n
<1>6. FailuresOf(u)' = {}
  BY <1>4, <1>5 DEF FailuresOf
<1>7. accounts[u] \in Account /\ work[h].failed = accounts[u].failed
  BY <1>1, <1>2 DEF Fresh
<1>8. accounts'[u].failed = 0
  BY <1>1, <1>7 DEF LoginSucceeds, Account
<1> QED
  BY <1>6, <1>8, FS_EmptySet

LEMMA LoginCounts ==
  ASSUME Settled, Quiet, FailuresCounted, NEW h \in Handler, LoginFails(h) \/ LoginSucceeds(h),
         NEW u \in User
  PROVE  Counted(u)'
<1>1. CASE u = req[h].user
  BY <1>1, FailureCounts, SuccessCounts
<1>2. CASE u # req[h].user
  <2>1. /\ Counted(u) /\ audit \in Seq(AuditRow) /\ accounts \in [User -> Account]
    BY DEF Settled, Basics, AccessTypeOK, FailuresCounted
  <2>2. PICK e, w : w = req[h].user /\ (audit' = audit \/ WriteAudit(e, w, w, Null, Null))
    BY DEF LoginFails, LoginSucceeds, AuditIfMember
  <2>3. accounts'[u] = accounts[u]
    BY <1>2, <2>1 DEF LoginFails, LoginSucceeds
  <2>4. MembershipsOf(u)' = MembershipsOf(u)
    BY DEF LoginFails, LoginSucceeds, MembershipsOf, Exists
  <2> QED
    BY <1>2, <2>1, <2>2, <2>3, <2>4, CountStays
<1> QED
  BY <1>1, <1>2

LEMMA NextFailuresCounted == Settled /\ Settled' /\ FailuresCounted /\ [Next]_vars => FailuresCounted'
<1> SUFFICES ASSUME Settled, Settled', FailuresCounted, [Next]_vars, Quiet', NEW u \in User
             PROVE  Counted(u)'
  BY DEF FailuresCounted
<1>0. /\ Quiet /\ Counted(u) /\ Basics /\ audit \in Seq(AuditRow)
      /\ accounts \in [User -> Account]
  BY QuietBefore DEF FailuresCounted, Settled, Basics, AccessTypeOK
<1>1. ASSUME NEW h \in Handler, MemberWrite(h), accounts' = accounts PROVE Counted(u)'
  <2>1. PICK w, r : w \in User /\ Gives(h, w, r)
    BY <1>0, <1>1, WritesGive
  <2>2. PICK e, b : e \in MemberEvents /\ WriteAudit(e, req[h].by, w, b, r)
    BY <2>1 DEF Gives
  <2>3. CASE u = w
    <3>1. EntriesAbout(u, MemberEvents)' = EntriesAbout(u, MemberEvents) \cup {Len(audit) + 1}
      BY <1>0, <2>2, <2>3, EntriesGrow
    <3> QED
      BY <3>1 DEF Counted
  <2>4. CASE u # w
    <3>1. MembershipsOf(u)' = {} <=> MembershipsOf(u) = {}
      BY <2>1, <2>4 DEF Gives
    <3> QED
      BY <1>0, <1>1, <2>2, <2>4, <3>1, CountStays
  <2> QED
    BY <2>3, <2>4
<1>2. ASSUME members' = members, accounts' = accounts \/ \E w \in User : LockPasses(w),
             NEW e, e \notin {"login", "login_failed"}, NEW by, NEW w,
             audit' = audit \/ WriteAudit(e, by, w, Null, Null)
      PROVE  Counted(u)'
  <2>1. MembershipsOf(u)' = MembershipsOf(u)
    BY <1>2 DEF MembershipsOf, Exists
  <2>2. accounts'[u].failed = accounts[u].failed /\ (accounts[u].lock # "none" => accounts'[u].lock # "none")
    BY <1>0, <1>2 DEF LockPasses, Account
  <2> QED
    BY <1>0, <1>2, <2>1, <2>2, CountStays
<1>3. CASE /\ members' = members
           /\ accounts' = accounts \/ \E w \in User : LockPasses(w)
           /\ \/ audit' = audit
              \/ \E e \in {"cross_org_access", "access_denied", "logout"} : \E by, w :
                   WriteAudit(e, by, w, Null, Null)
  BY <1>2, <1>3
<1>4. CASE \E h \in Handler : LoginFails(h) \/ LoginSucceeds(h)
  BY <1>0, <1>4, LoginCounts
<1> QED
  BY <1>0, <1>1, <1>3, <1>4, AuditSteps

(* As long as no two requests overlap, the account of a member throughout  *)
(* counts the failed logins the audit log holds, and is locked by them.    *)
THEOREM LockoutsFollow == Spec => []LockoutFollowsFailures
<1>1. Init => FailuresCounted
  <2> SUFFICES ASSUME Init, NEW u \in User PROVE Counted(u)
    BY DEF FailuresCounted
  <2>1. FailuresOf(u) = {} /\ accounts[u].failed = 0
    BY DEF Init, FailuresOf, EntriesAbout
  <2> QED
    BY <2>1, FS_EmptySet, AttemptsAssumption DEF Counted
<1>2. FailuresCounted => LockoutFollowsFailures
  BY DEF FailuresCounted, Counted, FailuresOf, LockoutFollowsFailures, FailuresSinceLogin
<1> QED
  BY <1>1, <1>2, NextFailuresCounted, AlwaysSettled, PTL DEF Spec

=============================================================================
