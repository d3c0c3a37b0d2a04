------------------------------ MODULE Handlers ------------------------------
(***************************************************************************)
(* HTTP requests in progress.  Each is served by a handler with a database *)
(* session of its own: it reads rows, decides, and writes and commits,     *)
(* while other requests are between steps of theirs.                       *)
(***************************************************************************)
EXTENDS Naturals

CONSTANTS
  Handler,    (* HTTP requests, each served once                            *)
  Requests,   (* the bodies they may carry                                  *)
  Null        (* SQL NULL, and the row that does not exist                  *)

VARIABLES
  pc, req,    (* next step and body of each request                         *)
  work,       (* what the session of a request holds                        *)
  resp,       (* the answer of each request                                 *)
  overlap     (* whether two requests were ever in progress together        *)

handlers == <<pc, req, work, resp, overlap>>

Answer == [http : {200, 201, 204, 400, 401, 403, 404, 409, 422, 429, 500}, row : Nat \cup {Null}]

HandlersInit ==
  /\ pc = [h \in Handler |-> "idle"]
  /\ req = [h \in Handler |-> Null]
  /\ work = [h \in Handler |-> Null]
  /\ resp = [h \in Handler |-> Null]
  /\ overlap = FALSE

Busy(h) == pc[h] \notin {"idle", "done"}

Quiet == ~ overlap

Receive(h, q) ==
  /\ pc[h] = "idle"
  /\ pc' = [pc EXCEPT ![h] = "load"]
  /\ req' = [req EXCEPT ![h] = q]
  /\ overlap' = (overlap \/ \E g \in Handler : Busy(g))
  /\ UNCHANGED <<work, resp>>

(* Request h goes on at label, its session holding w. *)
Continue(h, label, w) ==
  /\ pc' = [pc EXCEPT ![h] = label]
  /\ work' = [work EXCEPT ![h] = w]
  /\ UNCHANGED <<req, resp, overlap>>

Respond(h, http, row) ==
  /\ pc' = [pc EXCEPT ![h] = "done"]
  /\ work' = [work EXCEPT ![h] = Null]
  /\ resp' = [resp EXCEPT ![h] = [http |-> http, row |-> row]]
  /\ UNCHANGED <<req, overlap>>

(* The connection or the process fails: the transaction is rolled back. *)
Die(h) == Busy(h) /\ Respond(h, 500, Null)

HandlersTypeOK(Session) ==
  /\ pc \in [Handler -> {"idle", "load", "check", "scan", "commit", "done"}]
  /\ req \in [Handler -> Requests \cup {Null}]
  /\ work \in [Handler -> Session \cup {Null}]
  /\ resp \in [Handler -> Answer \cup {Null}]
  /\ overlap \in BOOLEAN
=============================================================================
