------------------------------ MODULE MCAccess ------------------------------
(* Two owners, an admin and an outsider; one user was deactivated while a  *)
(* session of theirs was open.                                             *)
EXTENDS Access, TLC

CONSTANTS olga, otto, ada, ivo, kept, stale, h1, h2, h3, h4

MCMembers ==
  <<[user |-> olga, role |-> "OWNER"], [user |-> otto, role |-> "OWNER"],
    [user |-> ada, role |-> "ADMIN"]>>

MCSessions == {[id |-> kept, user |-> ada], [id |-> stale, user |-> ivo]}

Change(by, member, role) == [op |-> "change", by |-> by, member |-> member, role |-> role]

RemoveMember(by, member) == [op |-> "remove", by |-> by, member |-> member]

InviteUser(by, user, role) == [op |-> "invite", by |-> by, user |-> user, role |-> role]

Login(u, password) == [op |-> "login", user |-> u, password |-> password]

OwnedSessions == MCSessions \cup {[id |-> h, user |-> ada] : h \in Handler}

MCMemberRequests ==
  { Change(olga, 2, "VIEWER"), Change(otto, 1, "ADMIN"), Change(olga, 1, "DEVELOPER"),
    Change(ada, 1, "VIEWER"), Change(ada, 3, "OWNER"),
    RemoveMember(olga, 2), RemoveMember(ada, 1),
    InviteUser(olga, ada, "ADMIN"), InviteUser(ada, ivo, "VIEWER"), InviteUser(ada, ivo, "ADMIN") }

(* The two owners act on each other. *)
MCOwnerRequests == { Change(olga, 2, "VIEWER"), RemoveMember(olga, 2), Change(otto, 1, "ADMIN") }

MCAccountRequests ==
  { Login(ada, "right"), Login(ada, "wrong"), Login(ivo, "right") }
  \cup {[op |-> "refresh", key |-> key] : key \in OwnedSessions}
  \cup {[op |-> "logout", by |-> ada, key |-> key] : key \in OwnedSessions}
  \cup {[op |-> "logout", by |-> ivo, key |-> [id |-> stale, user |-> ivo]]}

MCRequests == MCMemberRequests \cup MCAccountRequests

Interchangeable == Permutations(Handler)
=============================================================================
