------------------------------ MODULE Approvals ------------------------------
(***************************************************************************)
(* The one-time tool approval workflow of the backend: services/approvals, *)
(* the approval half of create_tool_call in services/ingest, the           *)
(* check-tool and tool-calls endpoints of api/ingest and the review and    *)
(* policy endpoints of api/v1/security.                                    *)
(*                                                                         *)
(* Every HTTP request runs in a database transaction of its own at READ    *)
(* COMMITTED and without row locks, so a handler here takes one step for   *)
(* each statement whose result it later relies on, and other handlers,     *)
(* reviewers and policy edits come between them.  What a handler writes    *)
(* becomes visible in its last step, its commit.  The modelled traces      *)
(* belong to one organisation and one agent.                               *)
(***************************************************************************)
EXTENDS Policy, FiniteSets

CONSTANTS
  Trace, Span,      (* rows that exist in the tables traces and spans       *)
  SpanTrace,        (* the trace of a span                                  *)
  Target,           (* target URLs, [host, path, secret]                    *)
  Context,          (* reviewer contexts an SDK may send                    *)
  Sensitive,        (* the contexts a detector of the policy matches        *)
  Masked,           (* what is stored of such a context under policy.masks  *)
  PolicyChoice,     (* the policies an administrator sets                   *)
  RequestId,        (* external request ids, one per tool invocation        *)
  Reviewer,         (* users with at least the role ANALYST                 *)
  Handler,          (* HTTP requests, each served once                      *)
  Requests,         (* the bodies they may carry                            *)
  ModelCall,        (* ingested model calls, [tokens, cost, priced]         *)
  MaxModelCalls,    (* bound on the model calls of the whole run            *)
  Null              (* SQL NULL, and the row that does not exist            *)

ExecutedStatus == {"SUCCESS", "ERROR"}

ToolCallStatus == ExecutedStatus \cup {"BLOCKED", "PENDING_APPROVAL"}

CheckRequest ==
  [op : {"check"}, rid : RequestId, trace : Trace, span : Span \cup {Null},
   tool : Tool, target : Target \cup {NoTarget}, context : Context \cup {Null}]

RecordRequest ==
  [op : {"record"}, rid : RequestId \cup {Null}, span : Span \cup {Null},
   tool : Tool, target : Target \cup {NoTarget}, status : ToolCallStatus]

ASSUME ConstantsAssumption ==
  /\ SpanTrace \in [Span -> Trace]
  /\ Requests \subseteq CheckRequest \cup RecordRequest
  /\ \A q \in Requests : q.op = "check" /\ q.span # Null => SpanTrace[q.span] = q.trace
  /\ ModelCall \subseteq [tokens : Nat, cost : Nat, priced : BOOLEAN]
  /\ MaxModelCalls \in Nat
  /\ Sensitive \subseteq Context

VARIABLES
  policy,      (* the agent_policies row, or NoPolicy                       *)
  usage,       (* model usage of each trace                                 *)
  modelCalls,  (* how many model calls were ingested                        *)
  approval,    (* tool_approvals by external request id, Null when no row   *)
  toolCalls,   (* tool_calls in insertion order                             *)
  audit,       (* audit events of each approval in insertion order          *)
  findings,    (* logically distinct security findings                      *)
  pc,          (* next statement of each handler                            *)
  req,         (* the body each handler serves                              *)
  base,        (* preflight outcome a handler has read                      *)
  seen,        (* policy a handler has read                                 *)
  resp         (* answer each handler has sent                              *)

db      == <<policy, usage, modelCalls, approval, toolCalls, audit, findings>>
locals  == <<pc, req, base, seen, resp>>
vars    == <<policy, usage, modelCalls, approval, toolCalls, audit, findings,
             pc, req, base, seen, resp>>

-----------------------------------------------------------------------------
(* Rows and answers *)

ApprovalStatus == {"pending", "approved", "rejected"}

(* What is stored of a URL has lost its query, fragment and user part. *)
StoredTarget ==
  {NoTarget} \cup {[host |-> Canonical(u.host), path |-> u.path, secret |-> FALSE] : u \in Target}

ApprovalRow ==
  [trace : Trace, span : Span \cup {Null}, tool : Tool,
   target : StoredTarget,
   context : Context \cup {Masked, Null},
   status : ApprovalStatus, reviewer : Reviewer \cup {Null}, used : BOOLEAN]

ToolCallRow ==
  [span : Span, tool : Tool, status : ToolCallStatus,
   rid : RequestId \cup {Null}, approvedBy : Reviewer \cup {Null}]

Finding(trace, span, kind, reason, tool) ==
  [trace |-> trace, span |-> span, kind |-> kind, reason |-> reason, tool |-> tool]

CheckReason ==
  Reason \cup {"APPROVAL_CONTEXT_MISMATCH", "APPROVAL_REJECTED",
               "APPROVAL_ALREADY_USED", "APPROVAL_GRANTED"}

(* The 200 of check-tool, and the status code of everything else. *)
Verdict(outcome, rid, shown) ==
  [http |-> 200, decision |-> outcome.decision, reason |-> outcome.reason,
   rid |-> rid, shown |-> shown]

Code(status) ==
  [http |-> status, decision |-> Null, reason |-> Null, rid |-> Null, shown |-> Null]

Label ==
  {"idle", "preflight", "lookup", "insert",
   "read_call", "read_approval", "revalidate", "record", "done"}

Answer ==
  [http : {200, 201, 400, 403, 404, 409, 500}, decision : Decision \cup {Null},
   reason : CheckReason \cup {Null}, rid : RequestId \cup {Null},
   shown : ApprovalStatus \cup {"used", Null}]

ASSUME NullAssumption ==
  Null \notin UNION {RequestId, Span, Reviewer, Requests, ApprovalRow, Answer, CheckReason}

(* sanitize + scan of the reviewer context under the policy just read. *)
SanitizeContext(p, context) ==
  IF p # NoPolicy /\ p.masks /\ context \in Sensitive THEN Masked ELSE context

ContextFindings(q) ==
  IF q.context \in Sensitive
    THEN {Finding(q.trace, Null, "sensitive_context", Null, Null)} ELSE {}

-----------------------------------------------------------------------------
Init ==
  /\ policy \in PolicyChoice
  /\ usage = [t \in Trace |-> NoUsage]
  /\ modelCalls = 0
  /\ approval = [r \in RequestId |-> Null]
  /\ toolCalls = << >>
  /\ audit = [r \in RequestId |-> << >>]
  /\ findings = {}
  /\ pc = [h \in Handler |-> "idle"]
  /\ req = [h \in Handler |-> Null]
  /\ base = [h \in Handler |-> Null]
  /\ seen = [h \in Handler |-> Null]
  /\ resp = [h \in Handler |-> Null]

Goto(h, label) == pc' = [pc EXCEPT ![h] = label]

(* The transaction ends, its locals with it, and the answer goes out. *)
Respond(h, answer) ==
  /\ Goto(h, "done")
  /\ base' = [base EXCEPT ![h] = Null]
  /\ seen' = [seen EXCEPT ![h] = Null]
  /\ resp' = [resp EXCEPT ![h] = answer]

(* A request arrives; which one depends on the callers. *)
Receive(h, q) ==
  /\ pc[h] = "idle"
  /\ Goto(h, IF q.op = "check" THEN "preflight" ELSE "read_call")
  /\ req' = [req EXCEPT ![h] = q]
  /\ UNCHANGED <<db, base, seen, resp>>

-----------------------------------------------------------------------------
(* check-tool: check_tool_with_approval *)

CheckPreflight(h) ==
  LET q == req[h] IN
  /\ pc[h] = "preflight"
  /\ base' = [base EXCEPT ![h] = Preflight(policy, usage[q.trace], q.tool, q.target)]
  /\ Goto(h, "lookup")
  /\ UNCHANGED <<db, req, seen, resp>>

(* _matches_attempt *)
MatchesAttempt(row, q, p) ==
  /\ row.trace = q.trace
  /\ row.tool = q.tool
  /\ row.target = SanitizeTarget(q.target)
  /\ row.context = SanitizeContext(p, q.context)

(* Bug variants of ExistingVerdict: a request that was not rejected is     *)
(* granted, and an approval is granted before its use is looked at.        *)
ExistingVerdictUndecided(row, q, p, b) ==
  IF ~ MatchesAttempt(row, q, p)
    THEN Verdict(Outcome("BLOCK", "APPROVAL_CONTEXT_MISMATCH"), q.rid, row.status)
  ELSE IF b.decision = "BLOCK"    THEN Verdict(b, q.rid, row.status)
  ELSE IF row.status = "rejected" THEN Verdict(Outcome("BLOCK", "APPROVAL_REJECTED"), q.rid, row.status)
  ELSE Verdict(Outcome("ALLOW", "APPROVAL_GRANTED"), q.rid, row.status)

ExistingVerdictUsed(row, q, p, b) ==
  IF ~ MatchesAttempt(row, q, p)
    THEN Verdict(Outcome("BLOCK", "APPROVAL_CONTEXT_MISMATCH"), q.rid, row.status)
  ELSE IF b.decision = "BLOCK"    THEN Verdict(b, q.rid, row.status)
  ELSE IF row.status = "approved" THEN Verdict(Outcome("ALLOW", "APPROVAL_GRANTED"), q.rid, "approved")
  ELSE Verdict(b, q.rid, row.status)

(* The answer for an approval request that exists already. *)
ExistingVerdict(row, q, p, b) ==
  LET shown == IF row.used THEN "used" ELSE row.status
  IN  IF ~ MatchesAttempt(row, q, p)
        THEN Verdict(Outcome("BLOCK", "APPROVAL_CONTEXT_MISMATCH"), q.rid, row.status)
      ELSE IF b.decision = "BLOCK"      THEN Verdict(b, q.rid, row.status)
      ELSE IF row.status = "rejected"   THEN Verdict(Outcome("BLOCK", "APPROVAL_REJECTED"), q.rid, shown)
      ELSE IF row.used                  THEN Verdict(Outcome("BLOCK", "APPROVAL_ALREADY_USED"), q.rid, shown)
      ELSE IF row.status = "approved"   THEN Verdict(Outcome("ALLOW", "APPROVAL_GRANTED"), q.rid, shown)
      ELSE Verdict(b, q.rid, shown)

CheckLookup(h) ==
  LET q == req[h]
      row == approval[q.rid]
  IN
  /\ pc[h] = "lookup"
  /\ \/ /\ row = Null
        /\ base[h].decision # "REQUIRE_APPROVAL"
        /\ Respond(h, Verdict(base[h], Null, Null))
        /\ UNCHANGED findings
     \/ /\ row = Null
        /\ base[h].decision = "REQUIRE_APPROVAL"
        /\ seen' = [seen EXCEPT ![h] = policy]
        /\ Goto(h, "insert")
        /\ UNCHANGED <<findings, base, resp>>
     \/ /\ row # Null
        /\ findings' = findings \cup ContextFindings(q)
        /\ Respond(h, ExistingVerdict(row, q, policy, base[h]))
  /\ UNCHANGED <<policy, usage, modelCalls, approval, toolCalls, audit, req>>

NewApproval(q, p) ==
  [trace |-> q.trace, span |-> q.span, tool |-> q.tool,
   target |-> SanitizeTarget(q.target), context |-> SanitizeContext(p, q.context),
   status |-> "pending", reviewer |-> Null, used |-> FALSE]

(* Bug variant of CheckInsert: without the unique constraint.              *)
CheckInsertAgain(h) ==
  LET q == req[h] IN
  /\ pc[h] = "insert"
  /\ approval' = [approval EXCEPT ![q.rid] = NewApproval(q, seen[h])]
  /\ audit' = [audit EXCEPT ![q.rid] = Append(@, "created")]
  /\ findings' = findings \cup ContextFindings(q)
  /\ Respond(h, Verdict(base[h], q.rid, "pending"))
  /\ UNCHANGED <<policy, usage, modelCalls, toolCalls, req>>

(* The unique constraint on the external request id decides who creates    *)
(* the row; the loser's IntegrityError is not handled and is answered 500. *)
CheckInsert(h) ==
  LET q == req[h] IN
  /\ pc[h] = "insert"
  /\ \/ /\ approval[q.rid] = Null
        /\ approval' = [approval EXCEPT ![q.rid] = NewApproval(q, seen[h])]
        /\ audit' = [audit EXCEPT ![q.rid] = Append(@, "created")]
        /\ findings' = findings \cup ContextFindings(q)
        /\ Respond(h, Verdict(base[h], q.rid, "pending"))
     \/ /\ approval[q.rid] # Null
        /\ Respond(h, Code(500))
        /\ UNCHANGED <<approval, audit, findings>>
  /\ UNCHANGED <<policy, usage, modelCalls, toolCalls, req>>

-----------------------------------------------------------------------------
(* tool-calls: create_tool_call *)

(* Bug variant of SameCall: any call of the tool is taken for the retry.   *)
SameCallAnySpan(c, q) == c.tool = q.tool

SameCall(c, q) == c.span = q.span /\ c.tool = q.tool

CallsOf(r) == {i \in DOMAIN toolCalls : toolCalls[i].rid = r}

KeepPolicy(h, label) ==
  /\ Goto(h, label)
  /\ seen' = [seen EXCEPT ![h] = policy]
  /\ UNCHANGED <<base, resp>>

(* The policy and, with an approval id, the recorded call of the approval: *)
(* a retry of the same telemetry is answered with the existing row.        *)
RecordReadCall(h) ==
  LET q == req[h] IN
  /\ pc[h] = "read_call"
  /\ \/ q.span = Null /\ Respond(h, Code(404))
     \/ q.span # Null /\ q.rid = Null /\ KeepPolicy(h, "record")
     \/ /\ q.span # Null /\ q.rid # Null
        /\ q.status \notin ExecutedStatus
        /\ Respond(h, Code(400))
     \/ /\ q.span # Null /\ q.rid # Null
        /\ q.status \in ExecutedStatus
        /\ IF CallsOf(q.rid) = {}
             THEN KeepPolicy(h, "read_approval")
             ELSE \E i \in CallsOf(q.rid) :
                    Respond(h, Code(IF SameCall(toolCalls[i], q) THEN 201 ELSE 403))
  /\ UNCHANGED <<db, req>>

(* Bug variants: the span of the approval is not compared, and the use of  *)
(* the approval is not looked at.                                          *)
ProvenanceAnySpan(row, q) ==
  row # Null /\ row.trace = SpanTrace[q.span] /\ row.tool = q.tool

AvailableAgain(row) == row.status = "approved"

Provenance(row, q) ==
  /\ row # Null
  /\ row.trace = SpanTrace[q.span]
  /\ row.tool = q.tool
  /\ row.span \in {Null, q.span}

Available(row) == row.status = "approved" /\ ~ row.used

RecordReadApproval(h) ==
  LET q == req[h]
      row == approval[q.rid]
  IN
  /\ pc[h] = "read_approval"
  /\ IF ~ Provenance(row, q) THEN Respond(h, Code(403))
     ELSE IF ~ Available(row) THEN Respond(h, Code(409))
     ELSE Goto(h, "revalidate") /\ UNCHANGED <<base, seen, resp>>
  /\ UNCHANGED <<db, req>>

(* The session still holds the policy object it read first: its query for  *)
(* the active policy finds out whether there is one, and returns the held  *)
(* object with the column values of the first read.                        *)
SessionPolicy(h) ==
  IF policy = NoPolicy \/ seen[h] = NoPolicy THEN policy ELSE seen[h]

(* Policy and usage may have turned against the approved execution. *)
RecordRevalidate(h) ==
  LET q == req[h]
      now == Preflight(SessionPolicy(h), usage[SpanTrace[q.span]], q.tool, approval[q.rid].target)
  IN
  /\ pc[h] = "revalidate"
  /\ IF now.decision = "BLOCK" THEN Respond(h, Code(403))
     ELSE Goto(h, "record") /\ UNCHANGED <<base, seen, resp>>
  /\ UNCHANGED <<db, req>>

(* Findings about an executed call, under the policy read at the start. *)
ExecutionFindings(q, p) ==
  LET byTool   == EvaluateTool(p, q.tool)
      byDomain == EvaluateDomain(p, q.target)
      trace    == SpanTrace[q.span]
  IN  IF q.status \notin ExecutedStatus THEN {}
      ELSE (IF byTool.decision = "ALLOW" THEN {}
              ELSE {Finding(trace, q.span, "tool_unauthorized", byTool.reason, q.tool)})
           \cup
           (IF byDomain.decision = "ALLOW" THEN {}
              ELSE {Finding(trace, q.span, "domain_blocked", byDomain.reason, Null)})

NewCall(q, reviewer) ==
  [span |-> q.span, tool |-> q.tool, status |-> q.status, rid |-> q.rid,
   approvedBy |-> reviewer]

InsertCall(h, reviewer) ==
  LET q == req[h] IN
  /\ toolCalls' = Append(toolCalls, NewCall(q, reviewer))
  /\ findings' = findings \cup ExecutionFindings(q, seen[h])
  /\ Respond(h, Code(201))

(* UPDATE ... WHERE status = 'approved' AND used_at IS NULL: a concurrent  *)
(* consumer waits for the row and then finds it used.                      *)
RecordCommit(h) ==
  LET q == req[h] IN
  /\ pc[h] = "record"
  /\ \/ /\ q.rid = Null
        /\ InsertCall(h, Null)
        /\ UNCHANGED <<approval, audit>>
     \/ /\ q.rid # Null
        /\ Available(approval[q.rid])
        /\ approval' = [approval EXCEPT ![q.rid].used = TRUE]
        /\ audit' = [audit EXCEPT ![q.rid] = Append(@, "executed")]
        /\ InsertCall(h, approval[q.rid].reviewer)
     \/ /\ q.rid # Null
        /\ ~ Available(approval[q.rid])
        /\ Respond(h, Code(409))
        /\ UNCHANGED <<approval, audit, toolCalls, findings>>
  /\ UNCHANGED <<policy, usage, modelCalls, req>>

(* A handler that dies before its commit leaves nothing behind. *)
Abort(h) ==
  /\ pc[h] \notin {"idle", "done"}
  /\ Respond(h, Code(500))
  /\ UNCHANGED <<db, req>>

-----------------------------------------------------------------------------
(* Reviewers, administrators and the rest of the agent *)

(* Bug variant of Review: the UPDATE is not conditional on pending.        *)
ReviewAgain(r, reviewer, outcome) ==
  /\ approval[r] # Null
  /\ approval' = [approval EXCEPT ![r].status = outcome, ![r].reviewer = reviewer]
  /\ audit' = [audit EXCEPT ![r] = Append(@, outcome)]
  /\ UNCHANGED <<policy, usage, modelCalls, toolCalls, findings, locals>>

(* transition_approval: one conditional UPDATE; a decided request gets 409. *)
Review(r, reviewer, outcome) ==
  /\ approval[r] # Null
  /\ approval[r].status = "pending"
  /\ approval' = [approval EXCEPT ![r].status = outcome, ![r].reviewer = reviewer]
  /\ audit' = [audit EXCEPT ![r] = Append(@, outcome)]
  /\ UNCHANGED <<policy, usage, modelCalls, toolCalls, findings, locals>>

SetPolicy(p) ==
  /\ policy' = p
  /\ UNCHANGED <<usage, modelCalls, approval, toolCalls, audit, findings, locals>>

AddUsage(u, m) ==
  [tokens |-> u.tokens + m.tokens,
   cost |-> u.cost + (IF m.priced THEN m.cost ELSE 0),
   unpriced |-> u.unpriced + (IF m.priced THEN 0 ELSE 1)]

LimitFindings(p, t, u) ==
  (IF TokenState(p, u) # "EXCEEDED" THEN {}
     ELSE {Finding(t, Null, "token_limit", "TOKEN_LIMIT_EXCEEDED", Null)})
  \cup
  (IF CostState(p, u) # "EXCEEDED" THEN {}
     ELSE {Finding(t, Null, "cost_limit", "COST_LIMIT_EXCEEDED", Null)})

(* create_model_call on a span of trace t. *)
IngestModelCall(t, m) ==
  LET u == AddUsage(usage[t], m) IN
  /\ modelCalls < MaxModelCalls
  /\ modelCalls' = modelCalls + 1
  /\ usage' = [usage EXCEPT ![t] = u]
  /\ findings' = findings \cup LimitFindings(policy, t, u)
  /\ UNCHANGED <<policy, approval, toolCalls, audit, locals>>

-----------------------------------------------------------------------------
Serve(h) ==
  \/ CheckPreflight(h) \/ CheckLookup(h) \/ CheckInsert(h)
  \/ RecordReadCall(h) \/ RecordReadApproval(h) \/ RecordRevalidate(h) \/ RecordCommit(h)
  \/ Abort(h)

Govern ==
  \/ \E r \in RequestId, u \in Reviewer, o \in {"approved", "rejected"} : Review(r, u, o)
  \/ \E p \in PolicyChoice : SetPolicy(p)
  \/ \E t \in Trace, m \in ModelCall : IngestModelCall(t, m)

Next ==
  \/ \E h \in Handler, q \in Requests : Receive(h, q)
  \/ \E h \in Handler : Serve(h)
  \/ Govern

Spec == Init /\ [][Next]_vars

-----------------------------------------------------------------------------
(* Properties *)

(* Every row, answer and local of a handler has the shape its code gives it. *)
TypeOK ==
  /\ policy \in PolicyChoice
  /\ usage \in [Trace -> Usage]
  /\ modelCalls \in 0 .. MaxModelCalls
  /\ approval \in [RequestId -> ApprovalRow \cup {Null}]
  /\ toolCalls \in Seq(ToolCallRow)
  /\ audit \in [RequestId -> Seq({"created", "approved", "rejected", "executed"})]
  /\ pc \in [Handler -> Label]
  /\ req \in [Handler -> Requests \cup {Null}]
  /\ base \in [Handler -> [decision : Decision, reason : Reason] \cup {Null}]
  /\ seen \in [Handler -> PolicyChoice \cup {Null}]
  /\ resp \in [Handler -> Answer \cup {Null}]

(* An approval backs at most one recorded execution, and it is marked used *)
(* exactly when that execution is on record (UPDATE used_at and INSERT     *)
(* tool_calls commit together, however many telemetry retries race).       *)
ConsumedOnce ==
  /\ \A i, j \in DOMAIN toolCalls :
       toolCalls[i].rid = toolCalls[j].rid /\ toolCalls[i].rid # Null => i = j
  /\ \A r \in RequestId :
       (approval[r] # Null /\ approval[r].used) <=> (\E i \in DOMAIN toolCalls : toolCalls[i].rid = r)

(* A recorded execution that names an approval was approved by a reviewer, *)
(* for this tool, in this trace and, when the approval names one, span.    *)
CallProvenance ==
  \A i \in DOMAIN toolCalls :
    LET c == toolCalls[i]
        row == approval[c.rid]
    IN  c.rid # Null =>
          /\ row # Null /\ row.status = "approved"
          /\ row.reviewer \in Reviewer /\ c.approvedBy = row.reviewer
          /\ row.trace = SpanTrace[c.span] /\ row.tool = c.tool
          /\ row.span \in {Null, c.span}
          /\ c.status \in ExecutedStatus

Grants(h) == resp[h] # Null /\ resp[h].reason = "APPROVAL_GRANTED"

(* What the handlers between two statements rely on: the body they serve,  *)
(* the locals they have read, and that an approval that matched the        *)
(* execution once still does.                                              *)
InStep(h) ==
  /\ pc[h] = "idle" <=> req[h] = Null
  /\ pc[h] = "done" <=> resp[h] # Null
  /\ pc[h] \in {"preflight", "lookup", "insert"} => req[h].op = "check"
  /\ pc[h] \in {"lookup", "insert"} => base[h] \in [decision : Decision, reason : Reason]
  /\ pc[h] = "insert" => base[h].decision = "REQUIRE_APPROVAL" /\ seen[h] \in PolicyChoice
  /\ pc[h] \in {"read_call", "read_approval", "revalidate", "record"} => req[h].op = "record"
  /\ pc[h] \in {"read_approval", "revalidate", "record"} =>
       /\ req[h].span \in Span
       /\ req[h].rid # Null => req[h].status \in ExecutedStatus
  /\ pc[h] \in {"read_approval", "revalidate"} => req[h].rid # Null
  /\ pc[h] \in {"revalidate", "record"} /\ req[h].rid # Null =>
       Provenance(approval[req[h].rid], req[h])
  /\ Grants(h) => req[h].op = "check"
  /\ resp[h] # Null /\ resp[h].http = 201 => req[h].op = "record"

HandlersInStep == \A h \in Handler : InStep(h)

(* A used approval was approved, and an approved one names its reviewer. *)
RowsSound ==
  \A r \in RequestId :
    approval[r] # Null =>
      /\ approval[r].used => approval[r].status = "approved"
      /\ approval[r].status = "approved" => approval[r].reviewer \in Reviewer

(* The events an approval leaves behind when it has reached this row. *)
Trail(row) ==
  IF row = Null THEN << >>
  ELSE IF row.status = "pending"  THEN <<"created">>
  ELSE IF row.status = "rejected" THEN <<"created", "rejected">>
  ELSE IF row.used THEN <<"created", "approved", "executed">> ELSE <<"created", "approved">>

(* The audit log alone tells the state of every approval: each transition  *)
(* is logged in its own transaction, once and in order.                    *)
AuditTellsState == \A r \in RequestId : audit[r] = Trail(approval[r])

(* Who was answered that an approved tool may run asked for an attempt     *)
(* that a reviewer approved: no pending or rejected request grants.        *)
GrantsAreApproved ==
  \A h \in Handler :
    Grants(h) =>
      /\ approval[req[h].rid] # Null
      /\ approval[req[h].rid].status = "approved"
      /\ approval[req[h].rid].trace = req[h].trace
      /\ approval[req[h].rid].tool = req[h].tool

(* Telemetry answered 201 stays on record: the row it names, the caller's  *)
(* own or the one an earlier delivery inserted, is for its span and tool.  *)
AcceptedIsRecorded ==
  \A h \in Handler :
    resp[h] # Null /\ resp[h].http = 201 =>
      \E i \in DOMAIN toolCalls :
        /\ toolCalls[i].rid = req[h].rid
        /\ toolCalls[i].span = req[h].span
        /\ toolCalls[i].tool = req[h].tool

(* The first decision of a request is final, and neither the attempt it is *)
(* for nor its use is ever taken back (conditional UPDATEs, no DELETE).    *)
RowFinal(old, new) ==
  old # Null =>
    /\ new # Null
    /\ \A f \in {"trace", "span", "tool", "target", "context"} : new[f] = old[f]
    /\ old.status # "pending" => new.status = old.status /\ new.reviewer = old.reviewer
    /\ old.used => new.used

DecisionsFinal == [][\A r \in RequestId : RowFinal(approval[r], approval'[r])]_approval

(* The approvals, the grants and the recorded executions behave as the     *)
(* abstract one-time grant, whatever the interleaving of the handlers.     *)
GrantState(row) ==
  IF row = Null THEN "none" ELSE IF row.used THEN "used" ELSE row.status

Granted == {<<h, req[h].rid>> : h \in {g \in Handler : Grants(g)}}

Abstract ==
  INSTANCE OneTimeGrant WITH
    Caller     <- Handler,
    state      <- [r \in RequestId |-> GrantState(approval[r])],
    granted    <- Granted,
    executions <- [r \in RequestId |-> CallsOf(r)]

ImplementsOneTimeGrant == Abstract!Spec

-----------------------------------------------------------------------------
(* The inductive invariant behind the invariants above. *)
IInv ==
  /\ TypeOK /\ HandlersInStep /\ RowsSound
  /\ ConsumedOnce /\ CallProvenance /\ AuditTellsState
  /\ GrantsAreApproved /\ AcceptedIsRecorded

=============================================================================
