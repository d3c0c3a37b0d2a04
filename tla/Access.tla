------------------------------- MODULE Access -------------------------------
(***************************************************************************)
(* Who may act for an organisation: sign-in and membership together.  They *)
(* meet in the table of members, which decides where a login is audited,   *)
(* and in the audit log.                                                   *)
(***************************************************************************)
EXTENDS Accounts

ASSUME AccessAssumption ==
  /\ Active \subseteq User
  /\ StoredMembers \in Seq(MemberRow)
  /\ StoredSessions \subseteq [id : {s.id : s \in StoredSessions}, user : User]
  /\ Requests \subseteq MemberBody \cup AccountBody
  /\ Null \notin Requests \cup Nat \cup User \cup MemberRole

(* The table at the start obeys its unique constraint on organisation and  *)
(* user, and registration has made an owner; session ids are never drawn   *)
(* twice.                                                                  *)
ASSUME StoredAssumption ==
  /\ \A i, j \in DOMAIN StoredMembers :
       StoredMembers[i].user = StoredMembers[j].user
         /\ StoredMembers[i].role # Null /\ StoredMembers[j].role # Null => i = j
  /\ \E i \in DOMAIN StoredMembers : StoredMembers[i].role = "OWNER"
  /\ \A s \in StoredSessions : s.id \notin Handler

vars == <<handlers, members, audit, accounts, sessions>>

Init ==
  /\ HandlersInit
  /\ members = StoredMembers
  /\ audit = << >>
  /\ accounts = [u \in User |-> [failed |-> 0, lock |-> "none"]]
  /\ sessions = StoredSessions

Arrive(h, q) ==
  /\ q.op \in {"refresh", "logout"} => Given(q.key)
  /\ Receive(h, q)
  /\ UNCHANGED <<members, audit, accounts, sessions>>

Abort(h) == Die(h) /\ UNCHANGED <<members, audit, accounts, sessions>>

Next ==
  \/ \E h \in Handler, q \in Requests : Arrive(h, q)
  \/ \E h \in Handler : MembersServe(h) /\ UNCHANGED <<accounts, sessions>>
  \/ \E h \in Handler : AccountsServe(h) \/ Abort(h)
  \/ \E u \in User : LockPasses(u)
  \/ \E key \in SessionKey : SessionExpires(key)

Spec == Init /\ [][Next]_vars

-----------------------------------------------------------------------------
(* Properties *)

RoleOf(u) ==
  IF MembershipsOf(u) = {} THEN Null
  ELSE members[CHOOSE i \in MembershipsOf(u) : TRUE].role

Session ==
  [mine : Nat, role : MemberRole, target : MemberRole \cup {Null}] \cup Account

(* Tables, sessions and requests keep their shape. *)
AccessTypeOK ==
  /\ HandlersTypeOK(Session)
  /\ members \in Seq(MemberRow)
  /\ audit \in Seq(AuditRow)
  /\ accounts \in [User -> Account]
  /\ sessions \subseteq SessionKey

(* organizations.py: "Prevent last owner demotion", "Prevent removing last *)
(* owner": somebody owns the organisation.                                 *)
OwnerRemains == Owners # {}

(* A user is a member once, however invitations interleave.  Removals and  *)
(* role changes that do not overlap leave an owner, though each may come   *)
(* from an admin and hit its own author.                                   *)
MembersAreSound ==
  /\ AccessTypeOK
  /\ \A u \in User : Cardinality(MembershipsOf(u)) <= 1
  /\ Quiet => OwnerRemains

MemberEvents == {"member_added", "member_role_changed", "member_removed"}

EntriesAbout(u, events) ==
  {n \in DOMAIN audit : audit[n].about = u /\ audit[n].event \in events}

Latest(S) == CHOOSE n \in S : \A m \in S : m <= n

(* The audit log tells the role of every user: the one their last entry    *)
(* ends with.                                                              *)
AuditTellsRole ==
  Quiet =>
    \A u \in User :
      LET entries == EntriesAbout(u, MemberEvents) IN
      entries # {} => RoleOf(u) = audit[Latest(entries)].after

(* An entry by an owner tells of whoever becomes admin or owner.           *)
OwnerElevates ==
  \A u \in User :
    ~ overlap' /\ RoleOf(u)' \in Elevated /\ RoleOf(u) # RoleOf(u)'
      /\ (RoleOf(u)' = "OWNER" \/ RoleOf(u) \notin Elevated) =>
        LET entry == audit'[Len(audit')] IN
        entry.about = u /\ RoleOf(entry.by) = "OWNER"

(* Whoever becomes admin or owner was made so by an owner: authority       *)
(* checked at the start of a request still holds at its commit, unless     *)
(* requests overlapped.                                                    *)
OwnersElevate == [][OwnerElevates]_members

(* The failed logins of a member that the audit log holds since the last   *)
(* successful one.                                                         *)
FailuresSinceLogin(u) ==
  LET logins == EntriesAbout(u, {"login"}) IN
  Cardinality({n \in EntriesAbout(u, {"login_failed"}) : \A m \in logins : m < n})

(* A member throughout has as many failures counted as were audited, and   *)
(* is locked, or was, once they reach the limit.                           *)
LockoutFollowsFailures ==
  Quiet =>
    \A u \in User :
      MembershipsOf(u) # {} /\ EntriesAbout(u, MemberEvents) = {} =>
        /\ accounts[u].failed = FailuresSinceLogin(u)
        /\ accounts[u].failed >= MaxAttempts => accounts[u].lock # "none"

(* A session that was logged out does not come back, whatever refreshes    *)
(* and logins are in progress.                                             *)
LogoutEndsSession ==
  \A h \in Handler :
    pc[h] = "done" /\ req[h].op = "logout" /\ resp[h].http = 204 => req[h].key \notin sessions
=============================================================================
