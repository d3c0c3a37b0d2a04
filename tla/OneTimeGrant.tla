---------------------------- MODULE OneTimeGrant ----------------------------
(***************************************************************************)
(* What the approval workflow promises for each external request id: the   *)
(* request is decided at most once, an answer that lets the tool run is    *)
(* given only between an approval and its use, and the use is one recorded *)
(* execution, after which nothing happens to the request any more.         *)
(***************************************************************************)
CONSTANTS
  RequestId,   (* external request ids                                      *)
  Caller       (* HTTP requests that may be answered with a grant           *)

VARIABLES
  state,       (* where the request stands                                  *)
  granted,     (* the answers <<caller, request>> that let the tool run     *)
  executions   (* the recorded executions of each request                   *)

grantVars == <<state, granted, executions>>

Init ==
  /\ state = [r \in RequestId |-> "none"]
  /\ granted = {}
  /\ executions = [r \in RequestId |-> {}]

Move(r, from, to) ==
  /\ state[r] = from
  /\ state' = [state EXCEPT ![r] = to]

Ask(r) == Move(r, "none", "pending") /\ UNCHANGED <<granted, executions>>

Decide(r) ==
  /\ Move(r, "pending", "approved") \/ Move(r, "pending", "rejected")
  /\ UNCHANGED <<granted, executions>>

Grant(c, r) ==
  /\ state[r] = "approved"
  /\ granted' = granted \cup {<<c, r>>}
  /\ UNCHANGED <<state, executions>>

Use(r) ==
  /\ Move(r, "approved", "used")
  /\ executions[r] = {}
  /\ \E e \in executions'[r] : executions' = [executions EXCEPT ![r] = {e}]
  /\ UNCHANGED granted

Next ==
  \/ \E r \in RequestId : Ask(r) \/ Decide(r) \/ Use(r)
  \/ \E c \in Caller, r \in RequestId : Grant(c, r)

Spec == Init /\ [][Next]_grantVars

=============================================================================
