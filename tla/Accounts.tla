------------------------------ MODULE Accounts ------------------------------
(***************************************************************************)
(* Sign-in: login, refresh and logout of services/auth and api/v1/auth.    *)
(* Accounts are rows of PostgreSQL, sessions are keys of Redis, and no     *)
(* transaction spans both.  The session a login opens is named after the   *)
(* request.  Access tokens are signed and checked without any state, so a  *)
(* request only names the user it speaks for.                              *)
(***************************************************************************)
EXTENDS Members

CONSTANTS
  MaxAttempts,      (* settings.login_max_attempts                          *)
  StoredSessions    (* the sessions open at the start                       *)

ASSUME AttemptsAssumption == MaxAttempts \in Nat \ {0}

VARIABLES
  accounts,         (* failed_login_count and locked_until of each user     *)
  sessions          (* the keys auth:refresh: of Redis                      *)

(* locked_until is not set, lies ahead, or has passed. *)
Lock == {"none", "ahead", "passed"}

Account == [failed : Nat, lock : Lock]

SessionKey == [id : Handler \cup {s.id : s \in StoredSessions}, user : User]

AccountBody ==
  [op : {"login"}, user : User, password : {"right", "wrong"}]
  \cup [op : {"refresh"}, key : SessionKey]
  \cup [op : {"logout"}, by : User, key : SessionKey]

(* The refresh cookie travels back only in the answer to its login. *)
Given(key) ==
  \/ key \in StoredSessions
  \/ \E h \in Handler :
       /\ resp[h] # Null /\ resp[h].http = 200
       /\ req[h].op = "login" /\ key = [id |-> h, user |-> req[h].user]

(* The login audit goes to the first organisation of the user, if any. *)
AuditIfMember(event, u) ==
  IF MembershipsOf(u) # {} THEN WriteAudit(event, u, u, Null, Null) ELSE UNCHANGED audit

-----------------------------------------------------------------------------
(* A locked account is refused before the password is looked at.  The      *)
(* audit entry written then is rolled back, for the refusal is raised      *)
(* without a commit.                                                       *)
LoginLoad(h) ==
  LET q == req[h] IN
  /\ pc[h] = "load" /\ q.op = "login"
  /\ IF accounts[q.user].lock = "ahead" THEN Respond(h, 429, Null)
     ELSE IF q.user \notin Active THEN Respond(h, 401, Null)
     ELSE Continue(h, IF q.password = "right" THEN "scan" ELSE "commit", accounts[q.user])
  /\ UNCHANGED <<members, audit, accounts, sessions>>

(* Bug variant of LoginFails: the lock starts one attempt late.            *)
LoginFailsLate(h) ==
  LET u == req[h].user
      failed == work[h].failed + 1
  IN
  /\ pc[h] = "commit" /\ req[h].op = "login" /\ req[h].password = "wrong"
  /\ accounts' = [accounts EXCEPT ![u].failed = failed,
                                  ![u].lock = IF failed > MaxAttempts THEN "ahead" ELSE @]
  /\ AuditIfMember("login_failed", u)
  /\ Respond(h, 401, Null)
  /\ UNCHANGED <<members, sessions>>

(* The count written is one more than the count loaded. *)
LoginFails(h) ==
  LET u == req[h].user
      failed == work[h].failed + 1
  IN
  /\ pc[h] = "commit" /\ req[h].op = "login" /\ req[h].password = "wrong"
  /\ accounts' = [accounts EXCEPT ![u].failed = failed,
                                  ![u].lock = IF failed >= MaxAttempts THEN "ahead" ELSE @]
  /\ AuditIfMember("login_failed", u)
  /\ Respond(h, 401, Null)
  /\ UNCHANGED <<members, sessions>>

(* The session is opened in Redis before the login is committed. *)
OpenSession(h) ==
  /\ pc[h] = "scan" /\ req[h].op = "login"
  /\ sessions' = sessions \cup {[id |-> h, user |-> req[h].user]}
  /\ Continue(h, "commit", work[h])
  /\ UNCHANGED <<members, audit, accounts>>

(* Count and lock are reset if the values loaded were set. *)
LoginSucceeds(h) ==
  LET u == req[h].user IN
  /\ pc[h] = "commit" /\ req[h].op = "login" /\ req[h].password = "right"
  /\ accounts' = [accounts EXCEPT ![u].failed = IF work[h].failed # 0 THEN 0 ELSE @,
                                  ![u].lock = IF work[h].lock # "none" THEN "none" ELSE @]
  /\ AuditIfMember("login", u)
  /\ Respond(h, 200, Null)
  /\ UNCHANGED <<members, sessions>>

RefreshLoad(h) ==
  LET key == req[h].key IN
  /\ pc[h] = "load" /\ req[h].op = "refresh"
  /\ IF key \in sessions THEN Continue(h, "check", Null) ELSE Respond(h, 401, Null)
  /\ UNCHANGED <<members, audit, accounts, sessions>>

RefreshCheck(h) ==
  LET key == req[h].key IN
  /\ pc[h] = "check" /\ req[h].op = "refresh"
  /\ \/ key.user \in Active /\ Respond(h, 200, Null) /\ UNCHANGED sessions
     \/ key.user \notin Active /\ Respond(h, 401, Null) /\ sessions' = sessions \ {key}
  /\ UNCHANGED <<members, audit, accounts>>

(* Bug variant of LogoutLoad: only the cookie is deleted.                  *)
LogoutLoadCookie(h) ==
  /\ pc[h] = "load" /\ req[h].op = "logout"
  /\ Continue(h, "commit", Null)
  /\ UNCHANGED <<members, audit, accounts, sessions>>

LogoutLoad(h) ==
  /\ pc[h] = "load" /\ req[h].op = "logout"
  /\ \/ req[h].by \notin Active /\ Respond(h, 401, Null) /\ UNCHANGED sessions
     \/ /\ req[h].by \in Active
        /\ sessions' = sessions \ {req[h].key}
        /\ Continue(h, "commit", Null)
  /\ UNCHANGED <<members, audit, accounts>>

LogoutCommit(h) ==
  /\ pc[h] = "commit" /\ req[h].op = "logout"
  /\ AuditIfMember("logout", req[h].by)
  /\ Respond(h, 204, Null)
  /\ UNCHANGED <<members, accounts, sessions>>

LockPasses(u) ==
  /\ accounts[u].lock = "ahead"
  /\ accounts' = [accounts EXCEPT ![u].lock = "passed"]
  /\ UNCHANGED <<handlers, members, audit, sessions>>

(* Redis drops a key when its time to live is over. *)
SessionExpires(key) ==
  /\ key \in sessions
  /\ sessions' = sessions \ {key}
  /\ UNCHANGED <<handlers, members, audit, accounts>>

AccountsServe(h) ==
  \/ LoginLoad(h) \/ LoginFails(h) \/ OpenSession(h) \/ LoginSucceeds(h)
  \/ RefreshLoad(h) \/ RefreshCheck(h) \/ LogoutLoad(h) \/ LogoutCommit(h)
=============================================================================
