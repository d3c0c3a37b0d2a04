------------------------------- MODULE ToolRun -------------------------------
(***************************************************************************)
(* Span.run_tool of the Python SDK against the approval workflow of the    *)
(* backend: the preflight with its HTTP retries, the bounded wait for a    *)
(* human decision, the revalidation, the execution of the callable and the *)
(* telemetry the span sends when it ends.                                  *)
(*                                                                         *)
(* Each attempt of Transport.post is served by a handler of Approvals.  An *)
(* attempt may never arrive (network error, or 429, 502, 503 or 504 from a *)
(* proxy), and it may time out while its handler goes on and commits.      *)
(***************************************************************************)
EXTENDS Approvals

CONSTANTS
  Run,          (* invocations of run_tool                                  *)
  Rid,          (* the request id each has drawn (uuid4)                    *)
  Body,         (* the check-tool body of each                              *)
  MaxRetries,   (* attempts of one Transport.post                           *)
  Slot          (* how many requests the whole instance serves (a bound)    *)

Mode == [wait : BOOLEAN, failOpen : BOOLEAN]

Stage == {"check", "poll", "recheck", "execute", "report", "ended"}

Ending ==
  {"policy_blocked", "approval_required", "approval_rejected", "approval_timeout",
   "policy_unavailable", "returned", "raised"}

(* add_tool_call, then Transport.add_tool_call when the span ends. *)
Telemetry(c, status, rid) ==
  [op |-> "record", rid |-> rid, span |-> Body[c].span, tool |-> Body[c].tool,
   target |-> NoTarget, status |-> status]

Reports(c) ==
  {Telemetry(c, s, r) : s \in ExecutedStatus, r \in {Null, Rid[c]}}
  \cup {Telemetry(c, "BLOCKED", Null)}

ASSUME RunAssumption ==
  /\ Rid \in [Run -> RequestId]
  /\ \A c, d \in Run : Rid[c] = Rid[d] => c = d
  /\ Handler = 1 .. Slot
  /\ Slot \in Nat /\ MaxRetries \in Nat \ {0}
  /\ \A c \in Run :
       /\ Body[c] \in Requests \cap CheckRequest
       /\ Body[c].rid = Rid[c] /\ Body[c].span \in Span
       /\ Reports(c) \subseteq Requests

VARIABLES
  mode,       (* the arguments wait_for_approval and policy_fail_mode       *)
  stage,      (* where each invocation is                                   *)
  flight,     (* the handler of the attempt in flight, or Null              *)
  attempts,   (* attempts of the current HTTP request                       *)
  ticket,     (* the REQUIRE_APPROVAL answer that is waited for, or Null    *)
  result,     (* the decision run_tool acts on, or Null                     *)
  expired,    (* the deadline of the wait has passed                        *)
  report,     (* telemetry to send when the span ends, or Null              *)
  ending      (* how run_tool ended, or Null                                *)

client  == <<mode, stage, flight, attempts, ticket, result, expired, report, ending>>
runVars == <<vars, client>>

Unavailable == [decision |-> "UNAVAILABLE", reason |-> "POLICY_UNAVAILABLE", rid |-> Null]

Result ==
  [decision : Decision \cup {"UNAVAILABLE"},
   reason : CheckReason \cup {"POLICY_UNAVAILABLE"}, rid : RequestId \cup {Null}]

(* The SDK's None is no value of its own. *)
ASSUME RunNullAssumption == Null \notin UNION {Handler, Result, Ending}

RunInit ==
  /\ Init
  /\ mode \in [Run -> Mode]
  /\ stage = [c \in Run |-> "check"]
  /\ flight = [c \in Run |-> Null]
  /\ attempts = [c \in Run |-> 0]
  /\ ticket = [c \in Run |-> Null]
  /\ result = [c \in Run |-> Null]
  /\ expired = [c \in Run |-> FALSE]
  /\ report = [c \in Run |-> Null]
  /\ ending = [c \in Run |-> Null]

-----------------------------------------------------------------------------
(* Transport.post and Transport.get *)

(* What the request of a stage carries. *)
Outgoing(c) == IF stage[c] = "report" THEN report[c] ELSE Body[c]

Posting(c) ==
  \/ stage[c] \in {"check", "recheck"}
  \/ stage[c] = "report" /\ report[c] # Null

MayTry(c) == Posting(c) /\ flight[c] = Null /\ attempts[c] < MaxRetries

CountAttempt(c) == attempts' = [attempts EXCEPT ![c] = @ + 1]

FreshHandler == {h \in Handler : pc[h] = "idle" /\ \A g \in 1 .. h - 1 : pc[g] # "idle"}

Send(c) ==
  /\ MayTry(c)
  /\ CountAttempt(c)
  /\ \E h \in FreshHandler :
       /\ Receive(h, Outgoing(c))
       /\ flight' = [flight EXCEPT ![c] = h]
  /\ UNCHANGED <<mode, stage, ticket, result, expired, report, ending>>

(* The attempt fails without reaching the application. *)
SendFails(c) ==
  /\ MayTry(c)
  /\ CountAttempt(c)
  /\ UNCHANGED <<vars, mode, stage, flight, ticket, result, expired, report, ending>>

(* The client gives the attempt up; its handler does not notice. *)
TimeOut(c) ==
  /\ flight[c] # Null
  /\ flight' = [flight EXCEPT ![c] = Null]
  /\ UNCHANGED <<vars, mode, stage, attempts, ticket, result, expired, report, ending>>

(* post returns: with the parsed answer, or with None after an error       *)
(* status, which is never retried, or after the last attempt.              *)
Returns(c) ==
  \/ flight[c] # Null /\ pc[flight[c]] = "done"
  \/ Posting(c) /\ flight[c] = Null /\ attempts[c] = MaxRetries

Payload(c) ==
  IF flight[c] # Null /\ resp[flight[c]].http \in {200, 201} THEN resp[flight[c]] ELSE Null

(* check_tool: every failure is the decision UNAVAILABLE. *)
Decided(c) ==
  IF Payload(c) = Null THEN Unavailable
  ELSE [decision |-> Payload(c).decision, reason |-> Payload(c).reason, rid |-> Payload(c).rid]

Hangup(c) ==
  /\ flight' = [flight EXCEPT ![c] = Null]
  /\ attempts' = [attempts EXCEPT ![c] = 0]

-----------------------------------------------------------------------------
(* run_tool *)

Enter(c, s) == stage' = [stage EXCEPT ![c] = s]

(* run_tool raises; a refusal it records is sent when the span ends. *)
Stop(c, e, telemetry) ==
  /\ Enter(c, "report")
  /\ ending' = [ending EXCEPT ![c] = e]
  /\ report' = [report EXCEPT ![c] = telemetry]

Blocked(c) == Telemetry(c, "BLOCKED", Null)

(* Bug variant of FailsOpen: the mode is not looked at.                    *)
FailsOpenAlways(c, r) == r.decision = "UNAVAILABLE"

FailsOpen(c, r) == r.decision = "UNAVAILABLE" /\ mode[c].failOpen

CheckReturns(c) ==
  LET r == Decided(c) IN
  /\ stage[c] = "check"
  /\ Returns(c)
  /\ Hangup(c)
  /\ result' = [result EXCEPT ![c] = r]
  /\ \/ /\ r.decision = "BLOCK"
        /\ Stop(c, "policy_blocked", Blocked(c))
        /\ UNCHANGED ticket
     \/ /\ r.decision = "REQUIRE_APPROVAL" /\ ~ mode[c].wait
        /\ Stop(c, "approval_required", Null)
        /\ UNCHANGED ticket
     \/ /\ r.decision = "REQUIRE_APPROVAL" /\ mode[c].wait
        /\ ticket' = [ticket EXCEPT ![c] = r]
        /\ Enter(c, "poll")
        /\ UNCHANGED <<report, ending>>
     \/ /\ r.decision = "UNAVAILABLE" /\ ~ FailsOpen(c, r)
        /\ Stop(c, "policy_unavailable", Blocked(c))
        /\ UNCHANGED ticket
     \/ /\ r.decision = "ALLOW" \/ FailsOpen(c, r)
        /\ Enter(c, "execute")
        /\ UNCHANGED <<ticket, report, ending>>
  /\ UNCHANGED <<vars, mode, expired>>

(* Bug variant of GiveUp: the deadline of the wait is never looked at.     *)
GiveUpNever(c) == FALSE

(* The deadline is looked at before every poll, never between. *)
GiveUp(c) ==
  /\ stage[c] = "poll" /\ expired[c]
  /\ Stop(c, "approval_timeout", Null)
  /\ UNCHANGED <<vars, mode, flight, attempts, ticket, result, expired>>

Deadline(c) ==
  /\ stage[c] \in {"poll", "recheck"} /\ ~ expired[c]
  /\ expired' = [expired EXCEPT ![c] = TRUE]
  /\ UNCHANGED <<vars, mode, stage, flight, attempts, ticket, result, report, ending>>

(* GET policy/approvals/{id} *)
ShownStatus(row) == IF row.used THEN "used" ELSE row.status

(* One poll that finds a decision; while it finds "pending" it is repeated. *)
Poll(c) ==
  LET status == ShownStatus(approval[ticket[c].rid]) IN
  /\ stage[c] = "poll" /\ ~ expired[c]
  /\ status # "pending"
  /\ IF status = "approved"
       THEN Enter(c, "recheck") /\ UNCHANGED <<report, ending>>
     ELSE IF status = "used"
       THEN Stop(c, "policy_blocked", Null)
     ELSE Stop(c, "approval_rejected", Blocked(c))
  /\ UNCHANGED <<vars, mode, flight, attempts, ticket, result, expired>>

(* Bug variant of PollFails: fail-open applies to the wait too.            *)
PollFailsOpen(c) ==
  /\ stage[c] = "poll" /\ ~ expired[c]
  /\ IF mode[c].failOpen THEN Enter(c, "execute") /\ UNCHANGED <<report, ending>>
     ELSE Stop(c, "policy_unavailable", Null)
  /\ UNCHANGED <<vars, mode, flight, attempts, ticket, result, expired>>

PollFails(c) ==
  /\ stage[c] = "poll" /\ ~ expired[c]
  /\ Stop(c, "policy_unavailable", Null)
  /\ UNCHANGED <<vars, mode, flight, attempts, ticket, result, expired>>

(* Revalidation: fail-open does not apply any more. *)
RecheckReturns(c) ==
  LET r == Decided(c) IN
  /\ stage[c] = "recheck"
  /\ Returns(c)
  /\ Hangup(c)
  /\ result' = [result EXCEPT ![c] = r]
  /\ \/ r.decision = "UNAVAILABLE" /\ Stop(c, "policy_unavailable", Null)
     \/ r.decision = "BLOCK" /\ Stop(c, "policy_blocked", Null)
     \/ /\ r.decision \in {"ALLOW", "REQUIRE_APPROVAL"}
        /\ Enter(c, IF r.decision = "ALLOW" THEN "execute" ELSE "poll")
        /\ UNCHANGED <<report, ending>>
  /\ UNCHANGED <<vars, mode, ticket, expired>>

(* Bug variant of Execute: an exception is reported as a success.          *)
ExecuteReportsSuccess(c) ==
  /\ stage[c] = "execute"
  /\ \E e \in {"returned", "raised"} : Stop(c, e, Telemetry(c, "SUCCESS", result[c].rid))
  /\ UNCHANGED <<vars, mode, flight, attempts, ticket, result, expired>>

(* fn(...) returns or raises, and its telemetry names the approval id of   *)
(* the decision that let it run.                                           *)
Execute(c) ==
  /\ stage[c] = "execute"
  /\ \/ Stop(c, "returned", Telemetry(c, "SUCCESS", result[c].rid))
     \/ Stop(c, "raised", Telemetry(c, "ERROR", result[c].rid))
  /\ UNCHANGED <<vars, mode, flight, attempts, ticket, result, expired>>

(* Span._finish sends the telemetry and ignores what comes of it. *)
Finish(c) ==
  /\ stage[c] = "report"
  /\ report[c] = Null \/ Returns(c)
  /\ Hangup(c)
  /\ Enter(c, "ended")
  /\ UNCHANGED <<vars, mode, ticket, result, expired, report, ending>>

-----------------------------------------------------------------------------
(* What the agent's thread does by itself, and what happens to it.         *)
Step(c) ==
  \/ Send(c) \/ SendFails(c) \/ TimeOut(c)
  \/ CheckReturns(c) \/ GiveUp(c) \/ Poll(c)
  \/ RecheckReturns(c) \/ Execute(c) \/ Finish(c)

RunNext ==
  \/ \E c \in Run : Step(c) \/ PollFails(c) \/ Deadline(c)
  \/ \E h \in Handler : Serve(h) /\ UNCHANGED client
  \/ Govern /\ UNCHANGED client

RunSpec == RunInit /\ [][RunNext]_runVars

(* The thread of the agent keeps running, its clock advances, and an       *)
(* attempt ends at the latest with its timeout.  Nothing is assumed of the *)
(* backend or of the reviewers.                                            *)
FairRunSpec ==
  RunSpec /\ \A c \in Run : WF_runVars(Step(c)) /\ WF_runVars(Deadline(c))

(* The same without faults: every attempt arrives, is answered in time and *)
(* no handler dies.                                                        *)
Faultless ==
  /\ \A c \in Run : ~ SendFails(c) /\ ~ TimeOut(c) /\ ~ PollFails(c)
  /\ \A h \in Handler : ~ Abort(h)

FaultlessSpec == RunInit /\ [][RunNext /\ Faultless]_runVars

-----------------------------------------------------------------------------
(* Properties *)

Executed(c) == ending[c] \in {"returned", "raised"}

Cleared(c) == stage[c] = "execute" \/ Executed(c)

(* An invocation that was told to wait for a human runs its callable only  *)
(* with an approval a reviewer gave to its own request: no timeout, no     *)
(* failed poll and no fail-open mode lets it through (_wait_for_approval). *)
WaitIsForApproval ==
  \A c \in Run :
    ticket[c] # Null /\ Cleared(c) =>
      /\ result[c].reason = "APPROVAL_GRANTED"
      /\ approval[Rid[c]] # Null /\ approval[Rid[c]].status = "approved"

(* In fail-closed mode the callable runs only after the backend answered   *)
(* ALLOW to an attempt of this very invocation, whatever was lost, retried *)
(* or answered late on the way.                                            *)
ClosedModeAsks ==
  \A c \in Run :
    ~ mode[c].failOpen /\ Cleared(c) =>
      \E h \in Handler :
        /\ resp[h] # Null /\ resp[h].decision = "ALLOW"
        /\ req[h].op = "check" /\ req[h].rid = Rid[c]

(* The locals of run_tool and of its transport have their shape. *)
RunTypeOK ==
  /\ TypeOK
  /\ mode \in [Run -> Mode]
  /\ stage \in [Run -> Stage]
  /\ flight \in [Run -> Handler \cup {Null}]
  /\ attempts \in [Run -> 0 .. MaxRetries]
  /\ ticket \in [Run -> Result \cup {Null}]
  /\ result \in [Run -> Result \cup {Null}]
  /\ expired \in [Run -> BOOLEAN]
  /\ DOMAIN report = Run
  /\ \A c \in Run : report[c] \in Reports(c) \cup {Null}
  /\ ending \in [Run -> Ending \cup {Null}]

(* The record that uses up an approval is of an execution that took place, *)
(* with the outcome it had.                                                *)
RecordsAreExecutions ==
  /\ RunTypeOK
  /\ \A c \in Run, i \in DOMAIN toolCalls :
       toolCalls[i].rid = Rid[c] =>
         /\ Executed(c)
         /\ toolCalls[i].status = "SUCCESS" <=> ending[c] = "returned"

(* Every invocation ends: neither a reviewer who never decides nor a       *)
(* backend that never answers keeps the agent's thread.                    *)
EveryRunEnds == \A c \in Run : <>(stage[c] = "ended")

-----------------------------------------------------------------------------
(* What the documentation says and the code does not do.                   *)

(* "A pending, rejected, timed-out, mismatched, or consumed approval never *)
(* executes a tool" (docs/superpowers/plans/2026-09-08-human-tool-         *)
(* approvals.md).  The answer that lets the callable run names an approval *)
(* if the request was there when check_tool_with_approval looked it up.    *)
OnlyApprovedExecutes ==
  \A c \in Run :
    stage[c] = "execute" /\ result[c].rid # Null =>
      approval[result[c].rid].status = "approved" /\ ~ approval[result[c].rid].used

(* "Audit events record creation, human decision, and approved execution"  *)
(* (docs/architecture/tool-approvals.md).                                  *)
ApprovedExecutionIsAudited ==
  \A c \in Run :
    stage[c] = "ended" /\ Executed(c) /\ ticket[c] # Null =>
      audit[Rid[c]] = <<"created", "approved", "executed">>

=============================================================================
