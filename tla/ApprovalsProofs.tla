--------------------------- MODULE ApprovalsProofs ---------------------------
(***************************************************************************)
(* Proofs, for every value of the constants, of the safety properties of   *)
(* Approvals.  IInv is inductive: the consumption of an approval (used and *)
(* the recorded call), its audit trail and the answers of the handlers     *)
(* hold together with what each handler has read before (HandlersInStep).  *)
(***************************************************************************)
EXTENDS Approvals, TLAPS

(* Preflight always answers one of the three decisions with its reason.    *)
LEMMA PreflightType ==
  ASSUME NEW p, NEW u, NEW tool, NEW target
  PROVE  Preflight(p, u, tool, target) \in [decision : Decision, reason : Reason]
BY DEF Preflight, EvaluateTool, EvaluateDomain, Outcome, Decision, Reason

(* What a new approval stores is a pending, unused row for the attempt.    *)
LEMMA NewApprovalType ==
  ASSUME NEW q \in CheckRequest, NEW p
  PROVE  NewApproval(q, p) \in ApprovalRow
<1>1. SanitizeTarget(q.target) \in StoredTarget
  BY DEF SanitizeTarget, StoredTarget, CheckRequest
<1>2. SanitizeContext(p, q.context) \in Context \cup {Masked, Null}
  BY DEF SanitizeContext, CheckRequest
<1> QED
  BY <1>1, <1>2 DEF NewApproval, ApprovalRow, ApprovalStatus, CheckRequest

(* An existing approval is answered 200, and granted only if approved and  *)
(* for the trace and tool that ask.                                        *)
LEMMA ExistingVerdictFacts ==
  ASSUME NEW row \in ApprovalRow, NEW q \in CheckRequest, NEW p,
         NEW b \in [decision : Decision, reason : Reason]
  PROVE  /\ ExistingVerdict(row, q, p, b) \in Answer
         /\ ExistingVerdict(row, q, p, b).http = 200
         /\ ExistingVerdict(row, q, p, b).reason = "APPROVAL_GRANTED" =>
              row.status = "approved" /\ ~ row.used /\ row.trace = q.trace /\ row.tool = q.tool
BY DEF ExistingVerdict, Verdict, Outcome, MatchesAttempt, Answer, CheckReason, Decision,
       Reason, ApprovalRow, ApprovalStatus, CheckRequest

(* A model call adds to the usage of its trace without leaving its type.   *)
LEMMA AddUsageType ==
  ASSUME NEW u \in Usage, NEW m \in ModelCall
  PROVE  AddUsage(u, m) \in Usage
BY ConstantsAssumption DEF AddUsage, Usage

(* The bare status codes are answers, and none of them grants anything.    *)
LEMMA CodeType ==
  ASSUME NEW c \in {201, 400, 403, 404, 409, 500}
  PROVE  /\ Code(c) \in Answer /\ Code(c).http = c
         /\ Code(c).reason # "APPROVAL_GRANTED"
BY NullAssumption DEF Code, Answer, CheckReason

(* A preflight outcome sent as it is grants nothing: APPROVAL_GRANTED is   *)
(* no reason of the policy.                                                *)
LEMMA VerdictType ==
  ASSUME NEW b \in [decision : Decision, reason : Reason],
         NEW r \in RequestId \cup {Null}, NEW s \in ApprovalStatus \cup {"used", Null}
  PROVE  /\ Verdict(b, r, s) \in Answer /\ Verdict(b, r, s).http = 200
         /\ Verdict(b, r, s).reason # "APPROVAL_GRANTED"
BY DEF Verdict, Answer, CheckReason, Decision, Reason

-----------------------------------------------------------------------------
(* Before the first request no row, answer or local exists.                *)
THEOREM InitInv == Init => IInv
<1> SUFFICES ASSUME Init PROVE IInv
  OBVIOUS
<1>1. TypeOK
  BY ConstantsAssumption DEF Init, TypeOK, NoUsage, Usage, Label
<1>2. HandlersInStep
  BY DEF Init, HandlersInStep, InStep, Grants
<1>3. RowsSound
  BY DEF Init, RowsSound
<1>4. ConsumedOnce /\ CallProvenance
  BY DEF Init, ConsumedOnce, CallProvenance
<1>5. AuditTellsState
  BY DEF Init, AuditTellsState, Trail
<1>6. GrantsAreApproved /\ AcceptedIsRecorded
  BY DEF Init, GrantsAreApproved, AcceptedIsRecorded, Grants
<1> QED
  BY <1>1, <1>2, <1>3, <1>4, <1>5, <1>6 DEF IInv

(* Taking up a request writes nothing: the handler starts at the statement *)
(* its endpoint starts with.                                               *)
LEMMA ReceiveInv ==
  ASSUME IInv, NEW h \in Handler, NEW q \in Requests, Receive(h, q)
  PROVE  IInv'
<1> USE DEF IInv, Receive, Goto, db
<1>1. TypeOK'
  BY DEF TypeOK, Label
<1>2. HandlersInStep'
  BY ConstantsAssumption, NullAssumption
     DEF TypeOK, HandlersInStep, InStep, Grants, CheckRequest, RecordRequest
<1>3. RowsSound' /\ ConsumedOnce' /\ CallProvenance' /\ AuditTellsState'
  BY DEF RowsSound, ConsumedOnce, CallProvenance, AuditTellsState
<1>4. GrantsAreApproved' /\ AcceptedIsRecorded'
  BY DEF GrantsAreApproved, AcceptedIsRecorded, Grants, HandlersInStep, InStep, TypeOK
<1> QED
  BY <1>1, <1>2, <1>3, <1>4

(* The preflight of check-tool reads policy and usage into its locals.     *)
LEMMA CheckPreflightInv ==
  ASSUME IInv, NEW h \in Handler, CheckPreflight(h)
  PROVE  IInv'
<1> USE DEF IInv, CheckPreflight, Goto, db
<1>1. base'[h] \in [decision : Decision, reason : Reason]
  BY PreflightType DEF TypeOK
<1>2. TypeOK'
  BY <1>1 DEF TypeOK, Label
<1>3. HandlersInStep'
  BY <1>1 DEF TypeOK, HandlersInStep, InStep, Grants
<1>4. RowsSound' /\ ConsumedOnce' /\ CallProvenance' /\ AuditTellsState'
  BY DEF RowsSound, ConsumedOnce, CallProvenance, AuditTellsState
<1>5. GrantsAreApproved' /\ AcceptedIsRecorded'
  BY DEF GrantsAreApproved, AcceptedIsRecorded, Grants
<1> QED
  BY <1>2, <1>3, <1>4, <1>5

(* A handler that reads an approval is at one of its statements, so its    *)
(* body is a check-tool body.                                              *)
LEMMA CheckBody ==
  ASSUME TypeOK, HandlersInStep, NEW h \in Handler,
         pc[h] \in {"preflight", "lookup", "insert"}
  PROVE  req[h] \in CheckRequest /\ resp[h] = Null
BY ConstantsAssumption, NullAssumption
   DEF TypeOK, HandlersInStep, InStep, CheckRequest, RecordRequest

(* A handler at a statement of create_tool_call serves a tool-calls body.  *)
LEMMA RecordBody ==
  ASSUME TypeOK, HandlersInStep, NEW h \in Handler,
         pc[h] \in {"read_call", "read_approval", "revalidate", "record"}
  PROVE  req[h] \in RecordRequest /\ resp[h] = Null
BY ConstantsAssumption, NullAssumption
   DEF TypeOK, HandlersInStep, InStep, CheckRequest, RecordRequest

(* Only check-tool grants, so the body of a granted answer names a request. *)
LEMMA GrantBody ==
  ASSUME TypeOK, HandlersInStep, NEW h \in Handler, Grants(h)
  PROVE  req[h].op = "check" /\ req[h].rid \in RequestId
<1>1. req[h].op = "check" /\ req[h] # Null
  BY NullAssumption DEF TypeOK, HandlersInStep, InStep, Grants
<1>2. req[h] \in CheckRequest
  BY <1>1, ConstantsAssumption DEF TypeOK, CheckRequest, RecordRequest
<1> QED
  BY <1>1, <1>2 DEF CheckRequest

(* An answer that writes no approval and records no call keeps the         *)
(* invariant when it claims no grant that the table does not justify and   *)
(* no record that is not there.                                            *)
LEMMA AnswerInv ==
  ASSUME IInv, NEW h \in Handler, NEW a \in Answer, Respond(h, a),
         pc[h] \notin {"idle", "done"},
         UNCHANGED <<policy, usage, modelCalls, approval, toolCalls, audit, req>>,
         a.reason = "APPROVAL_GRANTED" =>
           /\ req[h].op = "check"
           /\ approval[req[h].rid] # Null
           /\ approval[req[h].rid].status = "approved"
           /\ approval[req[h].rid].trace = req[h].trace
           /\ approval[req[h].rid].tool = req[h].tool,
         a.http = 201 =>
           /\ req[h].op = "record"
           /\ \E i \in DOMAIN toolCalls :
                /\ toolCalls[i].rid = req[h].rid
                /\ toolCalls[i].span = req[h].span
                /\ toolCalls[i].tool = req[h].tool
  PROVE  IInv'
<1> USE DEF IInv, Respond, Goto
<1>0. a # Null
  BY NullAssumption
<1>1. TypeOK'
  BY DEF TypeOK, Label
<1>2. HandlersInStep'
  BY <1>0 DEF TypeOK, HandlersInStep, InStep, Grants
<1>3. RowsSound' /\ ConsumedOnce' /\ CallProvenance' /\ AuditTellsState'
  BY DEF RowsSound, ConsumedOnce, CallProvenance, AuditTellsState
<1>4. GrantsAreApproved'
  BY <1>0 DEF TypeOK, GrantsAreApproved, Grants
<1>5. AcceptedIsRecorded'
  BY <1>0, SMTT(30) DEF TypeOK, AcceptedIsRecorded
<1> QED
  BY <1>1, <1>2, <1>3, <1>4, <1>5

(* The lookup of check-tool answers from the table as it is, or goes on to *)
(* create the request with what it has read.                               *)
LEMMA CheckLookupInv ==
  ASSUME IInv, NEW h \in Handler, CheckLookup(h)
  PROVE  IInv'
<1> DEFINE q == req[h]
           row == approval[q.rid]
<1>1. /\ pc[h] = "lookup" /\ q \in CheckRequest /\ resp[h] = Null
      /\ base[h] \in [decision : Decision, reason : Reason]
      /\ row \in ApprovalRow \cup {Null}
  BY CheckBody DEF CheckLookup, IInv, TypeOK, HandlersInStep, InStep, CheckRequest
<1>2. CASE row = Null /\ base[h].decision # "REQUIRE_APPROVAL"
  <2>1. Respond(h, Verdict(base[h], Null, Null))
    BY <1>2 DEF CheckLookup
  <2>2. UNCHANGED <<policy, usage, modelCalls, approval, toolCalls, audit, req>>
    BY DEF CheckLookup
  <2> QED
    BY <1>1, <2>1, <2>2, VerdictType, AnswerInv
<1>3. CASE row = Null /\ base[h].decision = "REQUIRE_APPROVAL"
  <2> USE <1>1, <1>3 DEF IInv, CheckLookup, Goto
  <2>1. TypeOK'
    BY ZenonT(60) DEF TypeOK, Label
  <2>2. HandlersInStep'
    BY DEF TypeOK, HandlersInStep, InStep, Grants
  <2>3. RowsSound' /\ ConsumedOnce' /\ CallProvenance' /\ AuditTellsState'
    BY DEF RowsSound, ConsumedOnce, CallProvenance, AuditTellsState
  <2>4. GrantsAreApproved' /\ AcceptedIsRecorded'
    BY DEF GrantsAreApproved, AcceptedIsRecorded, Grants
  <2> QED
    BY <2>1, <2>2, <2>3, <2>4
<1>4. CASE row # Null
  <2> DEFINE a == ExistingVerdict(row, q, policy, base[h])
  <2>1. Respond(h, a)
    BY <1>4 DEF CheckLookup
  <2>2. UNCHANGED <<policy, usage, modelCalls, approval, toolCalls, audit, req>>
    BY DEF CheckLookup
  <2>3. /\ a \in Answer /\ a.http = 200
        /\ a.reason = "APPROVAL_GRANTED" =>
             row.status = "approved" /\ row.trace = q.trace /\ row.tool = q.tool
    BY <1>1, <1>4, ExistingVerdictFacts
  <2>4. q.op = "check"
    BY <1>1 DEF CheckRequest
  <2> HIDE DEF a
  <2> QED
    BY <1>1, <1>4, <2>1, <2>2, <2>3, <2>4, AnswerInv
<1> QED
  BY <1>2, <1>3, <1>4

(* A step that changes one approval and logs one event keeps the audit     *)
(* trail when that event is what the new row adds to the old one.          *)
LEMMA TrailStep ==
  ASSUME TypeOK, AuditTellsState, NEW r \in RequestId, NEW new, NEW e,
         approval' = [approval EXCEPT ![r] = new],
         audit' = [audit EXCEPT ![r] = Append(@, e)],
         Trail(new) = Append(Trail(approval[r]), e)
  PROVE  AuditTellsState'
<1> SUFFICES ASSUME NEW s \in RequestId PROVE audit'[s] = Trail(approval'[s])
  BY DEF AuditTellsState
<1>1. audit[s] = Trail(approval[s]) /\ audit[r] = Trail(approval[r])
  BY DEF AuditTellsState
<1>2. CASE s = r
  <2>1. approval'[s] = new
    BY <1>2 DEF TypeOK
  <2>2. audit'[s] = Append(audit[r], e)
    BY <1>2 DEF TypeOK
  <2> QED
    BY <1>1, <2>1, <2>2
<1>3. CASE s # r
  <2>1. approval'[s] = approval[s] /\ audit'[s] = audit[s]
    BY <1>3 DEF TypeOK
  <2> QED
    BY <1>1, <2>1
<1> QED
  BY <1>2, <1>3

(* The insert of check-tool creates the pending row and its first event,   *)
(* or fails on the unique request id and leaves everything.                *)
LEMMA CheckInsertInv ==
  ASSUME IInv, NEW h \in Handler, CheckInsert(h)
  PROVE  IInv'
<1> DEFINE q == req[h]
           new == NewApproval(q, seen[h])
           a == Verdict(base[h], q.rid, "pending")
<1>1. /\ pc[h] = "insert" /\ q \in CheckRequest /\ resp[h] = Null
      /\ base[h] \in [decision : Decision, reason : Reason]
      /\ q.rid \in RequestId
  BY CheckBody DEF CheckInsert, IInv, HandlersInStep, InStep, CheckRequest
<1>2. CASE approval[q.rid] # Null
  <2>1. Respond(h, Code(500))
    BY <1>2 DEF CheckInsert
  <2>2. UNCHANGED <<policy, usage, modelCalls, approval, toolCalls, audit, req>>
    BY <1>2 DEF CheckInsert
  <2> QED
    BY <1>1, <2>1, <2>2, CodeType, AnswerInv
<1>3. CASE approval[q.rid] = Null
  <2>1. new \in ApprovalRow /\ new # Null /\ new.status = "pending" /\ ~ new.used
    BY <1>1, NewApprovalType, NullAssumption DEF NewApproval
  <2>2. a \in Answer /\ a # Null /\ a.http = 200 /\ a.reason # "APPROVAL_GRANTED"
    BY <1>1, VerdictType, NullAssumption DEF ApprovalStatus
  <2>3. /\ approval' = [approval EXCEPT ![q.rid] = new]
        /\ audit' = [audit EXCEPT ![q.rid] = Append(@, "created")]
        /\ Respond(h, a)
        /\ UNCHANGED <<policy, usage, modelCalls, toolCalls, req>>
    BY <1>3 DEF CheckInsert
  <2> HIDE DEF new, a
  <2>4. AuditTellsState'
    <3>1. Trail(new) = Append(Trail(approval[q.rid]), "created")
      BY <1>3, <2>1 DEF Trail
    <3> QED
      BY <1>1, <2>3, <3>1, TrailStep DEF IInv
  <2> USE <1>1, <1>3, <2>1, <2>2, <2>3 DEF IInv, Respond, Goto
  <2>5. TypeOK'
    BY DEF TypeOK, Label
  <2>6. HandlersInStep'
    BY DEF TypeOK, HandlersInStep, InStep, Grants, Provenance
  <2>7. RowsSound'
    BY DEF TypeOK, RowsSound
  <2>8. ConsumedOnce'
    BY DEF TypeOK, ConsumedOnce
  <2>9. CallProvenance'
    BY DEF TypeOK, CallProvenance
  <2>10. GrantsAreApproved' /\ AcceptedIsRecorded'
    BY DEF TypeOK, GrantsAreApproved, AcceptedIsRecorded, Grants
  <2> QED
    BY <2>4, <2>5, <2>6, <2>7, <2>8, <2>9, <2>10
<1> QED
  BY <1>2, <1>3

(* The first reads of tool-calls refuse, answer with the call already on   *)
(* record, or keep the policy for later.                                   *)
LEMMA RecordReadCallInv ==
  ASSUME IInv, NEW h \in Handler, RecordReadCall(h)
  PROVE  IInv'
<1> DEFINE q == req[h]
<1>1. /\ pc[h] = "read_call" /\ q \in RecordRequest /\ resp[h] = Null
      /\ q.op = "record" /\ q.rid \in RequestId \cup {Null} /\ q.span \in Span \cup {Null}
      /\ UNCHANGED <<policy, usage, modelCalls, approval, toolCalls, audit, findings, req>>
  BY RecordBody DEF RecordReadCall, IInv, RecordRequest, db
<1>2. ASSUME NEW c \in {400, 403, 404}, Respond(h, Code(c))
      PROVE  IInv'
  BY <1>1, <1>2, CodeType, AnswerInv
<1>3. ASSUME NEW label \in {"record", "read_approval"}, KeepPolicy(h, label),
             q.span # Null,
             label = "record" => q.rid = Null,
             label = "read_approval" => q.rid # Null /\ q.status \in ExecutedStatus
      PROVE  IInv'
  <2> USE <1>1, <1>3 DEF IInv, KeepPolicy, Goto
  <2>1. TypeOK'
    BY DEF TypeOK, Label
  <2>2. HandlersInStep'
    BY DEF TypeOK, HandlersInStep, InStep, Grants
  <2>3. RowsSound' /\ ConsumedOnce' /\ CallProvenance' /\ AuditTellsState'
    BY DEF RowsSound, ConsumedOnce, CallProvenance, AuditTellsState
  <2>4. GrantsAreApproved' /\ AcceptedIsRecorded'
    BY DEF GrantsAreApproved, AcceptedIsRecorded, Grants
  <2> QED
    BY <2>1, <2>2, <2>3, <2>4
<1>4. ASSUME NEW i \in CallsOf(q.rid), SameCall(toolCalls[i], q), Respond(h, Code(201))
      PROVE  IInv'
  <2>1. /\ i \in DOMAIN toolCalls /\ toolCalls[i].rid = q.rid
        /\ toolCalls[i].span = q.span /\ toolCalls[i].tool = q.tool
    BY <1>4 DEF CallsOf, SameCall
  <2> QED
    BY <1>1, <1>4, <2>1, CodeType, AnswerInv
<1>5. CASE q.span = Null
  BY <1>2, <1>5 DEF RecordReadCall
<1>6. CASE q.span # Null /\ q.rid = Null
  BY <1>3, <1>6 DEF RecordReadCall
<1>7. CASE q.span # Null /\ q.rid # Null /\ q.status \notin ExecutedStatus
  BY <1>2, <1>7 DEF RecordReadCall
<1>8. CASE q.span # Null /\ q.rid # Null /\ q.status \in ExecutedStatus
  BY <1>2, <1>3, <1>4, <1>8 DEF RecordReadCall
<1> QED
  BY <1>5, <1>6, <1>7, <1>8

(* The approval that tool-calls reads is refused, or matches the execution *)
(* from now on, because its attempt never changes.                         *)
LEMMA RecordReadApprovalInv ==
  ASSUME IInv, NEW h \in Handler, RecordReadApproval(h)
  PROVE  IInv'
<1> DEFINE q == req[h]
<1>1. /\ pc[h] = "read_approval" /\ resp[h] = Null
      /\ UNCHANGED <<policy, usage, modelCalls, approval, toolCalls, audit, findings, req>>
  BY RecordBody DEF RecordReadApproval, IInv, db
<1>2. ASSUME NEW c \in {403, 409}, Respond(h, Code(c))
      PROVE  IInv'
  BY <1>1, <1>2, CodeType, AnswerInv
<1>3. CASE Provenance(approval[q.rid], q) /\ Goto(h, "revalidate") /\ UNCHANGED <<base, seen, resp>>
  <2> USE <1>1, <1>3 DEF IInv, Goto
  <2>1. TypeOK'
    BY DEF TypeOK, Label
  <2>2. HandlersInStep'
    BY DEF TypeOK, HandlersInStep, InStep, Grants
  <2>3. RowsSound' /\ ConsumedOnce' /\ CallProvenance' /\ AuditTellsState'
    BY DEF RowsSound, ConsumedOnce, CallProvenance, AuditTellsState
  <2>4. GrantsAreApproved' /\ AcceptedIsRecorded'
    BY DEF GrantsAreApproved, AcceptedIsRecorded, Grants
  <2> QED
    BY <2>1, <2>2, <2>3, <2>4
<1> QED
  BY <1>2, <1>3 DEF RecordReadApproval

(* The revalidation of an approved execution blocks it or writes nothing.  *)
LEMMA RecordRevalidateInv ==
  ASSUME IInv, NEW h \in Handler, RecordRevalidate(h)
  PROVE  IInv'
<1> DEFINE q == req[h]
<1>1. /\ pc[h] = "revalidate" /\ resp[h] = Null
      /\ UNCHANGED <<policy, usage, modelCalls, approval, toolCalls, audit, findings, req>>
  BY RecordBody DEF RecordRevalidate, IInv, db
<1>2. CASE Respond(h, Code(403))
  BY <1>1, <1>2, CodeType, AnswerInv
<1>3. CASE Goto(h, "record") /\ UNCHANGED <<base, seen, resp>>
  <2> USE <1>1, <1>3 DEF IInv, Goto
  <2>1. TypeOK'
    BY DEF TypeOK, Label
  <2>2. HandlersInStep'
    BY DEF TypeOK, HandlersInStep, InStep, Grants
  <2>3. RowsSound' /\ ConsumedOnce' /\ CallProvenance' /\ AuditTellsState'
    BY DEF RowsSound, ConsumedOnce, CallProvenance, AuditTellsState
  <2>4. GrantsAreApproved' /\ AcceptedIsRecorded'
    BY DEF GrantsAreApproved, AcceptedIsRecorded, Grants
  <2> QED
    BY <2>1, <2>2, <2>3, <2>4
<1> QED
  BY <1>2, <1>3 DEF RecordRevalidate

(* A handler that dies rolls back.                                         *)
LEMMA AbortInv ==
  ASSUME IInv, NEW h \in Handler, Abort(h)
  PROVE  IInv'
BY CodeType, AnswerInv DEF Abort, db

(* Appending the call a handler is answered 201 for leaves every earlier   *)
(* answer 201 with its row.                                                *)
LEMMA RecordKept ==
  ASSUME TypeOK, AcceptedIsRecorded, NEW h \in Handler, NEW c, NEW a,
         resp' = [resp EXCEPT ![h] = a], req' = req,
         DOMAIN toolCalls' = DOMAIN toolCalls \cup {Len(toolCalls')},
         \A i \in DOMAIN toolCalls : toolCalls'[i] = toolCalls[i],
         toolCalls'[Len(toolCalls')] = c,
         c.rid = req[h].rid, c.span = req[h].span, c.tool = req[h].tool
  PROVE  AcceptedIsRecorded'
<1> SUFFICES ASSUME NEW g \in Handler, resp'[g] # Null, resp'[g].http = 201
             PROVE  \E i \in DOMAIN toolCalls' :
                      /\ toolCalls'[i].rid = req[g].rid
                      /\ toolCalls'[i].span = req[g].span
                      /\ toolCalls'[i].tool = req[g].tool
  BY DEF AcceptedIsRecorded
<1>1. CASE g = h
  BY <1>1
<1>2. CASE g # h
  <2>1. resp'[g] = resp[g]
    BY <1>2 DEF TypeOK
  <2>2. PICK i \in DOMAIN toolCalls :
          toolCalls[i].rid = req[g].rid /\ toolCalls[i].span = req[g].span /\ toolCalls[i].tool = req[g].tool
    BY <2>1 DEF AcceptedIsRecorded
  <2>3. i \in DOMAIN toolCalls' /\ toolCalls'[i] = toolCalls[i]
    OBVIOUS
  <2>4. toolCalls'[i].rid = req[g].rid /\ toolCalls'[i].span = req[g].span /\ toolCalls'[i].tool = req[g].tool
    BY <2>2, <2>3
  <2> QED
    BY <2>3, <2>4
<1> QED
  BY <1>1, <1>2

(* A finished call without approval id is only appended to the log.        *)
LEMMA InsertWithoutApproval ==
  ASSUME IInv, NEW h \in Handler, pc[h] = "record", req[h].rid = Null,
         InsertCall(h, Null),
         UNCHANGED <<policy, usage, modelCalls, approval, audit, req>>
  PROVE  IInv'
<1> DEFINE q == req[h]
           c == NewCall(q, Null)
<1>1. q \in RecordRequest /\ q.op = "record" /\ q.span \in Span /\ q.rid = Null /\ resp[h] = Null
  BY RecordBody DEF IInv, HandlersInStep, InStep, RecordRequest
<1>2. c \in ToolCallRow /\ c.rid = Null /\ c.span = q.span /\ c.tool = q.tool
  BY <1>1 DEF NewCall, ToolCallRow, RecordRequest
<1>3. toolCalls' = Append(toolCalls, c) /\ Respond(h, Code(201))
  BY DEF InsertCall
<1> HIDE DEF c
<1>4. Code(201) # Null /\ Code(201) \in Answer /\ Code(201).http = 201 /\ Code(201).reason # "APPROVAL_GRANTED"
  BY CodeType, NullAssumption
<1>5. /\ DOMAIN toolCalls' = DOMAIN toolCalls \cup {Len(toolCalls')}
      /\ \A i \in DOMAIN toolCalls : toolCalls'[i] = toolCalls[i]
      /\ toolCalls'[Len(toolCalls')] = c
  BY <1>2, <1>3 DEF IInv, TypeOK
<1>6. AcceptedIsRecorded'
  <2>1. c.rid = q.rid
    BY <1>1, <1>2
  <2> QED
    BY <1>2, <1>3, <1>5, <2>1, RecordKept DEF IInv, Respond
<1> USE <1>1, <1>2, <1>3, <1>4 DEF IInv, Respond, Goto
<1>7. TypeOK'
  BY DEF TypeOK, Label
<1>8. HandlersInStep'
  BY DEF TypeOK, HandlersInStep, InStep, Grants
<1>9. RowsSound' /\ AuditTellsState'
  BY DEF RowsSound, AuditTellsState
<1>10. ConsumedOnce'
  BY <1>5, NullAssumption DEF ConsumedOnce
<1>11. CallProvenance'
  BY <1>5 DEF CallProvenance
<1>12. GrantsAreApproved'
  BY DEF TypeOK, GrantsAreApproved, Grants
<1> QED
  BY <1>6, <1>7, <1>8, <1>9, <1>10, <1>11, <1>12

(* The consumption: the approval is marked used, the call is appended with *)
(* the reviewer of the approval, and the event is logged, in one commit.   *)
LEMMA ConsumeApproval ==
  ASSUME IInv, NEW h \in Handler, pc[h] = "record", req[h].rid # Null,
         Available(approval[req[h].rid]),
         approval' = [approval EXCEPT ![req[h].rid].used = TRUE],
         audit' = [audit EXCEPT ![req[h].rid] = Append(@, "executed")],
         InsertCall(h, approval[req[h].rid].reviewer),
         UNCHANGED <<policy, usage, modelCalls, req>>
  PROVE  IInv'
<1> DEFINE q == req[h]
           old == approval[q.rid]
           new == [old EXCEPT !.used = TRUE]
           c == NewCall(q, old.reviewer)
<1>0. /\ TypeOK /\ HandlersInStep /\ RowsSound /\ ConsumedOnce /\ CallProvenance
      /\ AuditTellsState /\ GrantsAreApproved /\ AcceptedIsRecorded
  BY DEF IInv
<1>1. /\ q \in RecordRequest /\ q.op = "record" /\ q.span \in Span /\ q.rid \in RequestId
      /\ q.status \in ExecutedStatus /\ resp[h] = Null /\ Provenance(old, q)
  BY RecordBody DEF IInv, HandlersInStep, InStep, RecordRequest
<1>2. old \in ApprovalRow /\ old.status = "approved" /\ ~ old.used /\ old.reviewer \in Reviewer
  BY <1>1 DEF IInv, TypeOK, RowsSound, Available, Provenance
<1>3. /\ new \in ApprovalRow /\ new # Null /\ new.used
      /\ \A f \in {"trace", "span", "tool", "status", "reviewer"} : new[f] = old[f]
  BY <1>2, NullAssumption DEF ApprovalRow
<1>4. /\ c \in ToolCallRow /\ c.rid = q.rid /\ c.span = q.span /\ c.tool = q.tool
      /\ c.status = q.status /\ c.approvedBy = old.reviewer
  BY <1>1, <1>2 DEF NewCall, ToolCallRow, RecordRequest
<1>5. /\ approval' = [approval EXCEPT ![q.rid] = new]
      /\ audit' = [audit EXCEPT ![q.rid] = Append(@, "executed")]
      /\ toolCalls' = Append(toolCalls, c)
      /\ Respond(h, Code(201))
  BY <1>2 DEF InsertCall, ApprovalRow
<1>6. Code(201) # Null /\ Code(201) \in Answer /\ Code(201).http = 201 /\ Code(201).reason # "APPROVAL_GRANTED"
  BY CodeType, NullAssumption
<1>7. \A i \in DOMAIN toolCalls : toolCalls[i].rid # q.rid
  BY <1>1, <1>2 DEF IInv, ConsumedOnce
<1>8. /\ DOMAIN toolCalls' = DOMAIN toolCalls \cup {Len(toolCalls')}
      /\ Len(toolCalls') \notin DOMAIN toolCalls
      /\ \A i \in DOMAIN toolCalls : toolCalls'[i] = toolCalls[i]
      /\ toolCalls'[Len(toolCalls')] = c
  <2>1. PICK old1 \in Seq(ToolCallRow) : old1 = toolCalls
    BY <1>0 DEF TypeOK
  <2>2. PICK call \in ToolCallRow : call = c
    BY <1>4
  <2>3. toolCalls' = Append(old1, call)
    BY <1>5, <2>1, <2>2
  <2> HIDE DEF c, q, old, new
  <2> QED
    BY <2>1, <2>2, <2>3
<1>9. /\ approval'[q.rid] = new
      /\ \A r \in RequestId : r # q.rid => approval'[r] = approval[r]
  BY <1>1, <1>5 DEF IInv, TypeOK
<1>10. AuditTellsState'
  <2>1. Trail(new) = Append(Trail(old), "executed")
    <3>1. old # Null
      BY <1>1 DEF Provenance
    <3>2. Trail(old) = <<"created", "approved">>
      BY <1>2, <3>1 DEF Trail
    <3>3. new # Null /\ new.used /\ new.status = "approved"
      BY <1>2, <1>3
    <3> HIDE DEF new
    <3>4. Trail(new) = <<"created", "approved", "executed">>
      BY <3>3 DEF Trail
    <3> QED
      BY <3>2, <3>4
  <2> HIDE DEF new
  <2> QED
    BY <1>0, <1>1, <1>5, <2>1, TrailStep
<1>11. TypeOK'
  <2> HIDE DEF new, c
  <2> QED
    BY <1>1, <1>3, <1>4, <1>5, <1>6 DEF IInv, TypeOK, Respond, Goto, Label
<1>12. HandlersInStep'
  <2>1. ASSUME NEW g \in Handler, pc[g] \in {"revalidate", "record"}, req[g].rid # Null
        PROVE  Provenance(approval'[req[g].rid], req[g])
    <3>1. req[g].rid \in RequestId /\ Provenance(approval[req[g].rid], req[g])
      BY <1>0, <2>1, RecordBody DEF HandlersInStep, InStep, RecordRequest
    <3> HIDE DEF new
    <3> QED
      BY <1>3, <1>9, <3>1 DEF Provenance
  <2>2. /\ pc' = [pc EXCEPT ![h] = "done"] /\ base' = [base EXCEPT ![h] = Null]
        /\ seen' = [seen EXCEPT ![h] = Null] /\ resp' = [resp EXCEPT ![h] = Code(201)]
        /\ req' = req
    BY <1>5 DEF Respond, Goto
  <2>3. /\ pc'[h] = "done" /\ resp'[h] = Code(201)
        /\ \A g \in Handler : g # h => /\ pc'[g] = pc[g] /\ base'[g] = base[g]
                                      /\ seen'[g] = seen[g] /\ resp'[g] = resp[g]
    BY <1>0, <2>2 DEF TypeOK
  <2> QED
    <3> SUFFICES ASSUME NEW g \in Handler PROVE InStep(g)'
      BY DEF HandlersInStep
    <3>1. CASE g = h
      BY <1>0, <1>1, <1>6, <2>2, <2>3, <3>1 DEF HandlersInStep, InStep, Grants
    <3>2. CASE g # h
      <4>1. InStep(g)
        BY <1>0 DEF HandlersInStep
      <4>2. pc'[g] = pc[g] /\ base'[g] = base[g] /\ seen'[g] = seen[g] /\ resp'[g] = resp[g] /\ req'[g] = req[g]
        BY <2>2, <2>3, <3>2
      <4>3. Grants(g)' <=> Grants(g)
        BY <4>2 DEF Grants
      <4> QED
        BY <2>1, <4>1, <4>2, <4>3, ZenonT(60) DEF InStep
    <3> QED
      BY <3>1, <3>2
<1>13. RowsSound'
  <2> HIDE DEF new
  <2> QED
    BY <1>0, <1>2, <1>3, <1>9 DEF RowsSound
<1>14. ConsumedOnce'
  <2> HIDE DEF new, c, q
  <2>1. ASSUME NEW i \in DOMAIN toolCalls', NEW j \in DOMAIN toolCalls',
               toolCalls'[i].rid = toolCalls'[j].rid, toolCalls'[i].rid # Null
        PROVE  i = j
    <3>1. \A k \in DOMAIN toolCalls : toolCalls'[k].rid # q.rid
      BY <1>7, <1>8
    <3>2. toolCalls'[Len(toolCalls')].rid = q.rid
      BY <1>4, <1>8
    <3>3. i = Len(toolCalls') <=> j = Len(toolCalls')
      BY <1>8, <2>1, <3>1, <3>2
    <3> QED
      BY <1>0, <1>8, <2>1, <3>3 DEF ConsumedOnce
  <2>2. ASSUME NEW r \in RequestId, r # q.rid
        PROVE  (approval'[r] # Null /\ approval'[r].used) <=> (\E i \in DOMAIN toolCalls' : toolCalls'[i].rid = r)
    <3>1. \A i \in DOMAIN toolCalls' :
            toolCalls'[i].rid = r <=> i \in DOMAIN toolCalls /\ toolCalls[i].rid = r
      BY <1>4, <1>8, <2>2
    <3>2. (\E i \in DOMAIN toolCalls' : toolCalls'[i].rid = r) <=> (\E i \in DOMAIN toolCalls : toolCalls[i].rid = r)
      BY <1>8, <3>1
    <3> QED
      BY <1>0, <1>9, <2>2, <3>2 DEF ConsumedOnce
  <2>3. approval'[q.rid] # Null /\ approval'[q.rid].used
    BY <1>3, <1>9
  <2>4. \E i \in DOMAIN toolCalls' : toolCalls'[i].rid = q.rid
    BY <1>4, <1>8
  <2> QED
    BY <2>1, <2>2, <2>3, <2>4 DEF ConsumedOnce
<1>15. CallProvenance'
  <2> SUFFICES ASSUME NEW i \in DOMAIN toolCalls', toolCalls'[i].rid # Null
               PROVE  LET d == toolCalls'[i]
                          row == approval'[d.rid]
                      IN  /\ row # Null /\ row.status = "approved"
                          /\ row.reviewer \in Reviewer /\ d.approvedBy = row.reviewer
                          /\ row.trace = SpanTrace[d.span] /\ row.tool = d.tool
                          /\ row.span \in {Null, d.span}
                          /\ d.status \in ExecutedStatus
    BY DEF CallProvenance
  <2>1. CASE i \in DOMAIN toolCalls
    <3>1. toolCalls'[i] = toolCalls[i] /\ toolCalls[i].rid # q.rid
      BY <1>7, <1>8, <2>1
    <3>2. toolCalls[i] \in ToolCallRow
      BY <1>0, <2>1 DEF TypeOK
    <3>3. toolCalls[i].rid \in RequestId
      BY <3>1, <3>2 DEF ToolCallRow
    <3>4. approval'[toolCalls[i].rid] = approval[toolCalls[i].rid]
      BY <1>9, <3>1, <3>3
    <3> QED
      BY <1>0, <2>1, <3>1, <3>4 DEF CallProvenance
  <2>2. CASE i = Len(toolCalls')
    <3> HIDE DEF new, c, q
    <3> QED
      BY <1>1, <1>2, <1>3, <1>4, <1>8, <1>9, <2>2, ZenonT(60) DEF Provenance
  <2> QED
    BY <1>8, <2>1, <2>2
<1>16. GrantsAreApproved'
  <2> SUFFICES ASSUME NEW g \in Handler, Grants(g)'
               PROVE  /\ approval'[req[g].rid] # Null
                      /\ approval'[req[g].rid].status = "approved"
                      /\ approval'[req[g].rid].trace = req[g].trace
                      /\ approval'[req[g].rid].tool = req[g].tool
    BY DEF GrantsAreApproved
  <2>1. Grants(g)
    <3>1. resp' = [resp EXCEPT ![h] = Code(201)]
      BY <1>5 DEF Respond
    <3> QED
      BY <1>0, <1>6, <3>1 DEF TypeOK, Grants
  <2>2. req[g].rid \in RequestId
    BY <1>0, <2>1, GrantBody
  <2> HIDE DEF new
  <2> QED
    <3>1. /\ approval[req[g].rid] # Null /\ approval[req[g].rid].status = "approved"
          /\ approval[req[g].rid].trace = req[g].trace /\ approval[req[g].rid].tool = req[g].tool
      BY <1>0, <2>1 DEF GrantsAreApproved
    <3>2. CASE req[g].rid = q.rid
      BY <1>3, <1>9, <3>1, <3>2, ZenonT(60)
    <3>3. CASE req[g].rid # q.rid
      BY <1>9, <2>2, <3>1, <3>3
    <3> QED
      BY <3>2, <3>3
<1>17. AcceptedIsRecorded'
  <2> HIDE DEF c
  <2> QED
    BY <1>4, <1>5, <1>8, RecordKept, ZenonT(60) DEF IInv, Respond
<1> QED
  BY <1>10, <1>11, <1>12, <1>13, <1>14, <1>15, <1>16, <1>17 DEF IInv

(* The commit of tool-calls: a plain call, a consumption, or a 409.        *)
LEMMA RecordCommitInv ==
  ASSUME IInv, NEW h \in Handler, RecordCommit(h)
  PROVE  IInv'
<1>1. CASE req[h].rid = Null
  BY <1>1, InsertWithoutApproval DEF RecordCommit
<1>2. CASE req[h].rid # Null /\ Available(approval[req[h].rid])
  BY <1>2, ConsumeApproval DEF RecordCommit
<1>3. CASE req[h].rid # Null /\ ~ Available(approval[req[h].rid])
  BY <1>3, CodeType, AnswerInv DEF RecordCommit
<1> QED
  BY <1>1, <1>2, <1>3

(* A decision changes a pending row to a decided one that names its        *)
(* reviewer, and logs it; the attempt the row is for stays as it was, so   *)
(* every handler that has matched it still matches.                        *)
LEMMA ReviewInv ==
  ASSUME IInv, NEW r \in RequestId, NEW u \in Reviewer, NEW o \in {"approved", "rejected"},
         Review(r, u, o)
  PROVE  IInv'
<1> DEFINE old == approval[r]
           new == [old EXCEPT !.status = o, !.reviewer = u]
<1>0. /\ TypeOK /\ HandlersInStep /\ RowsSound /\ ConsumedOnce /\ CallProvenance
      /\ AuditTellsState /\ GrantsAreApproved /\ AcceptedIsRecorded
  BY DEF IInv
<1>1. old \in ApprovalRow /\ old.status = "pending" /\ ~ old.used
  BY <1>0 DEF Review, TypeOK, RowsSound
<1>2. /\ new \in ApprovalRow /\ new # Null /\ ~ new.used /\ new.status = o /\ new.reviewer = u
      /\ \A f \in {"trace", "span", "tool"} : new[f] = old[f]
  BY <1>1, NullAssumption DEF ApprovalRow, ApprovalStatus
<1>3. /\ approval' = [approval EXCEPT ![r] = new]
      /\ audit' = [audit EXCEPT ![r] = Append(@, o)]
      /\ UNCHANGED <<policy, usage, modelCalls, toolCalls, findings, pc, req, base, seen, resp>>
  BY <1>1 DEF Review, locals, ApprovalRow
<1>4. approval'[r] = new /\ \A s \in RequestId : s # r => approval'[s] = approval[s]
  BY <1>0, <1>3 DEF TypeOK
<1>5. Trail(new) = Append(Trail(old), o)
  <2>1. old # Null
    BY <1>1, NullAssumption
  <2>2. CASE o = "approved"
    BY <1>1, <1>2, <2>1, <2>2 DEF Trail
  <2>3. CASE o = "rejected"
    BY <1>1, <1>2, <2>1, <2>3 DEF Trail
  <2> QED
    BY <2>2, <2>3
<1> HIDE DEF new
<1>6. AuditTellsState'
  BY <1>0, <1>3, <1>5, TrailStep
<1>7. TypeOK'
  BY <1>0, <1>2, <1>3 DEF TypeOK
<1>8. HandlersInStep'
  <2>1. ASSUME NEW g \in Handler, pc[g] \in {"revalidate", "record"}, req[g].rid # Null
        PROVE  Provenance(approval'[req[g].rid], req[g])
    <3>1. req[g].rid \in RequestId /\ Provenance(approval[req[g].rid], req[g])
      BY <1>0, <2>1, RecordBody DEF HandlersInStep, InStep, RecordRequest
    <3> QED
      BY <1>2, <1>4, <3>1 DEF Provenance
  <2> QED
    BY <1>0, <1>3, <2>1 DEF HandlersInStep, InStep, Grants
<1>9. RowsSound'
  BY <1>0, <1>2, <1>4 DEF RowsSound
<1>10. ConsumedOnce'
  BY <1>0, <1>1, <1>2, <1>3, <1>4 DEF ConsumedOnce
<1>11. CallProvenance'
  <2> SUFFICES ASSUME NEW i \in DOMAIN toolCalls, toolCalls[i].rid # Null
               PROVE  approval'[toolCalls[i].rid] = approval[toolCalls[i].rid]
    BY <1>0, <1>3 DEF CallProvenance
  <2>1. toolCalls[i] \in ToolCallRow
    BY <1>0 DEF TypeOK
  <2>2. toolCalls[i].rid \in RequestId /\ toolCalls[i].rid # r
    BY <1>0, <1>1, <2>1 DEF CallProvenance, ToolCallRow
  <2> QED
    BY <1>4, <2>2
<1>12. GrantsAreApproved'
  <2> SUFFICES ASSUME NEW g \in Handler, Grants(g)
               PROVE  approval'[req[g].rid] = approval[req[g].rid]
    BY <1>0, <1>3 DEF GrantsAreApproved, Grants
  <2>1. req[g].rid \in RequestId /\ req[g].rid # r
    BY <1>0, <1>1, GrantBody DEF GrantsAreApproved
  <2> QED
    BY <1>4, <2>1
<1>13. AcceptedIsRecorded'
  BY <1>0, <1>3 DEF AcceptedIsRecorded
<1> QED
  BY <1>6, <1>7, <1>8, <1>9, <1>10, <1>11, <1>12, <1>13 DEF IInv

(* A new policy and a new model call touch no approval and no handler.     *)
LEMMA GovernInv ==
  ASSUME IInv,
         \/ \E p \in PolicyChoice : SetPolicy(p)
         \/ \E t \in Trace, m \in ModelCall : IngestModelCall(t, m)
  PROVE  IInv'
<1>0. /\ TypeOK /\ HandlersInStep /\ RowsSound /\ ConsumedOnce /\ CallProvenance
      /\ AuditTellsState /\ GrantsAreApproved /\ AcceptedIsRecorded
  BY DEF IInv
<1>1. UNCHANGED <<approval, toolCalls, audit, pc, req, base, seen, resp>>
  BY DEF SetPolicy, IngestModelCall, locals
<1>2. TypeOK'
  <2>1. CASE \E p \in PolicyChoice : SetPolicy(p)
    BY <1>0, <1>1, <2>1 DEF TypeOK, SetPolicy
  <2>2. ASSUME NEW t \in Trace, NEW m \in ModelCall, IngestModelCall(t, m)
        PROVE  TypeOK'
    <3>1. AddUsage(usage[t], m) \in Usage
      BY <1>0, AddUsageType DEF TypeOK
    <3>2. modelCalls' \in 0 .. MaxModelCalls
      BY <1>0, <2>2, ConstantsAssumption DEF TypeOK, IngestModelCall
    <3> QED
      BY <1>0, <1>1, <2>2, <3>1, <3>2 DEF TypeOK, IngestModelCall
  <2> QED
    BY <2>1, <2>2
<1>3. HandlersInStep' /\ RowsSound' /\ ConsumedOnce' /\ CallProvenance'
  BY <1>0, <1>1 DEF HandlersInStep, InStep, RowsSound, ConsumedOnce, CallProvenance, Grants
<1>4. AuditTellsState' /\ GrantsAreApproved' /\ AcceptedIsRecorded'
  BY <1>0, <1>1 DEF AuditTellsState, GrantsAreApproved, AcceptedIsRecorded, Grants
<1> QED
  BY <1>2, <1>3, <1>4 DEF IInv

-----------------------------------------------------------------------------
(* Every statement of every handler, every decision, every new policy and  *)
(* every model call preserve the invariant.                                *)
THEOREM NextInv == IInv /\ [Next]_vars => IInv'
<1> SUFFICES ASSUME IInv, [Next]_vars PROVE IInv'
  OBVIOUS
<1>1. ASSUME NEW h \in Handler, NEW q \in Requests, Receive(h, q)
      PROVE  IInv'
  BY <1>1, ReceiveInv
<1>2. ASSUME NEW h \in Handler, Serve(h)
      PROVE  IInv'
  BY <1>2, CheckPreflightInv, CheckLookupInv, CheckInsertInv, RecordReadCallInv,
     RecordReadApprovalInv, RecordRevalidateInv, RecordCommitInv, AbortInv DEF Serve
<1>3. ASSUME Govern
      PROVE  IInv'
  BY <1>3, ReviewInv, GovernInv DEF Govern
<1>4. ASSUME UNCHANGED vars
      PROVE  IInv'
  BY <1>4 DEF vars, IInv, TypeOK, HandlersInStep, InStep, RowsSound, ConsumedOnce, CallProvenance,
              AuditTellsState, GrantsAreApproved, AcceptedIsRecorded, Grants
<1> QED
  BY <1>1, <1>2, <1>3, <1>4 DEF Next

(* Every reachable state of the approval workflow satisfies IInv.          *)
THEOREM Invariance == Spec => []IInv
BY InitInv, NextInv, PTL DEF Spec

(* Rows, locals and answers keep their shape.                              *)
THEOREM TypeCorrectness == Spec => []TypeOK
<1>1. IInv => TypeOK
  BY DEF IInv
<1> QED
  BY <1>1, Invariance, PTL

(* An approval backs at most one recorded execution, and is used exactly   *)
(* when that execution is on record.                                       *)
THEOREM OneExecution == Spec => []ConsumedOnce
<1>1. IInv => ConsumedOnce
  BY DEF IInv
<1> QED
  BY <1>1, Invariance, PTL

(* A recorded execution that names an approval is the approved attempt.    *)
THEOREM ExecutionWasApproved == Spec => []CallProvenance
<1>1. IInv => CallProvenance
  BY DEF IInv
<1> QED
  BY <1>1, Invariance, PTL

(* The audit trail of a request tells the state of its approval.           *)
THEOREM AuditIsComplete == Spec => []AuditTellsState
<1>1. IInv => AuditTellsState
  BY DEF IInv
<1> QED
  BY <1>1, Invariance, PTL

(* check-tool grants only what a reviewer approved.                        *)
THEOREM AnswersAreTrue == Spec => []GrantsAreApproved
<1>1. IInv => GrantsAreApproved
  BY DEF IInv
<1> QED
  BY <1>1, Invariance, PTL

(* Telemetry answered 201 is on record, for its span and its tool.         *)
THEOREM AcceptedStays == Spec => []AcceptedIsRecorded
<1>1. IInv => AcceptedIsRecorded
  BY DEF IInv
<1> QED
  BY <1>1, Invariance, PTL

(* A step writes the tool_approvals table in one of three ways: a request  *)
(* is created, it is decided, or its approval is consumed.                 *)
LEMMA ApprovalWrites ==
  ASSUME IInv, [Next]_vars, UNCHANGED approval => FALSE
  PROVE  \/ \E h \in Handler : CheckInsert(h) /\ approval[req[h].rid] = Null /\ req[h].rid \in RequestId
         \/ \E r \in RequestId, u \in Reviewer, o \in {"approved", "rejected"} : Review(r, u, o)
         \/ \E h \in Handler : /\ RecordCommit(h) /\ req[h].rid \in RequestId
                              /\ Available(approval[req[h].rid])
<1>1. CASE UNCHANGED vars
  BY <1>1 DEF vars
<1>2. ASSUME NEW h \in Handler, NEW q \in Requests, Receive(h, q)
      PROVE  FALSE
  BY <1>2 DEF Receive, db
<1>3. ASSUME NEW h \in Handler,
             \/ CheckPreflight(h) \/ CheckLookup(h) \/ RecordReadCall(h)
             \/ RecordReadApproval(h) \/ RecordRevalidate(h) \/ Abort(h)
      PROVE  FALSE
  BY <1>3 DEF CheckPreflight, CheckLookup, RecordReadCall, RecordReadApproval,
              RecordRevalidate, Abort, db
<1>4. ASSUME NEW h \in Handler, CheckInsert(h)
      PROVE  approval[req[h].rid] = Null /\ req[h].rid \in RequestId
  BY <1>4, CheckBody DEF CheckInsert, IInv, CheckRequest
<1>5. ASSUME NEW h \in Handler, RecordCommit(h)
      PROVE  Available(approval[req[h].rid]) /\ req[h].rid \in RequestId
  BY <1>5, RecordBody DEF RecordCommit, IInv, RecordRequest
<1>6. CASE Govern
  BY <1>6 DEF Govern, SetPolicy, IngestModelCall
<1> QED
  BY <1>1, <1>2, <1>3, <1>4, <1>5, <1>6 DEF Next, Serve

(* Whatever a step does to the table, each row keeps the attempt it is for, *)
(* its first decision and its use.                                         *)
LEMMA RowsAreFinal ==
  ASSUME IInv, [Next]_vars, NEW r \in RequestId
  PROVE  RowFinal(approval[r], approval'[r])
<1>0. /\ approval \in [RequestId -> ApprovalRow \cup {Null}]
      /\ \A s \in RequestId : approval[s] \in ApprovalRow => approval[s] # Null
  BY NullAssumption DEF IInv, TypeOK
<1>1. ASSUME NEW h \in Handler, CheckInsert(h), approval[req[h].rid] = Null, req[h].rid \in RequestId
      PROVE  RowFinal(approval[r], approval'[r])
  <2>1. \A s \in RequestId : approval[s] # Null => approval'[s] = approval[s]
    BY <1>0, <1>1 DEF CheckInsert
  <2> QED
    BY <2>1 DEF RowFinal
<1>2. ASSUME NEW s \in RequestId, NEW u \in Reviewer, NEW o \in {"approved", "rejected"}, Review(s, u, o)
      PROVE  RowFinal(approval[r], approval'[r])
  <2>1. CASE r # s
    BY <1>0, <1>2, <2>1 DEF Review, RowFinal
  <2>2. CASE r = s
    <3>1. approval[s] \in ApprovalRow /\ approval[s].status = "pending" /\ ~ approval[s].used
      BY <1>0, <1>2 DEF Review, IInv, RowsSound
    <3>2. approval'[s] = [approval[s] EXCEPT !.status = o, !.reviewer = u]
      BY <1>0, <1>2, <3>1 DEF Review, ApprovalRow
    <3>3. approval'[s] \in ApprovalRow
      BY <3>1, <3>2 DEF ApprovalRow, ApprovalStatus
    <3> QED
      BY <2>2, <3>1, <3>2, <3>3, NullAssumption DEF RowFinal, ApprovalRow
  <2> QED
    BY <2>1, <2>2
<1>3. ASSUME NEW h \in Handler, RecordCommit(h), req[h].rid \in RequestId, Available(approval[req[h].rid])
      PROVE  RowFinal(approval[r], approval'[r])
  <2> DEFINE s == req[h].rid
  <2>0. s # Null /\ approval' = [approval EXCEPT ![s].used = TRUE]
    BY <1>3, NullAssumption DEF RecordCommit
  <2>1. CASE r # s
    BY <1>0, <2>0, <2>1 DEF RowFinal
  <2>2. CASE r = s
    <3>1. approval[r] # Null => approval[r] \in ApprovalRow
      BY <1>0
    <3>2. approval'[r] = [approval[r] EXCEPT !.used = TRUE]
      BY <1>0, <2>0, <2>2
    <3> QED
      BY <3>1, <3>2, NullAssumption DEF RowFinal, ApprovalRow
  <2> QED
    BY <2>1, <2>2
<1>4. CASE UNCHANGED approval
  BY <1>4 DEF RowFinal
<1> QED
  BY <1>1, <1>2, <1>3, <1>4, ApprovalWrites

(* The first decision on a request stands, and the attempt it is for and   *)
(* its use are never taken back.                                           *)
THEOREM DecisionsStand == Spec => DecisionsFinal
<1>1. IInv /\ [Next]_vars => [\A r \in RequestId : RowFinal(approval[r], approval'[r])]_approval
  BY RowsAreFinal
<1> QED
  BY <1>1, Invariance, PTL DEF Spec, DecisionsFinal

-----------------------------------------------------------------------------
(* The workflow implements OneTimeGrant: each commit that writes an        *)
(* approval is an Ask, a Decide or a Use of its request, a granted answer  *)
(* is a Grant, and every other statement of every handler is a stutter.    *)

(* A handler that has not answered is not among the granted ones, so an    *)
(* answer that grants nothing leaves the set of grants alone.              *)
LEMMA NoNewGrant ==
  ASSUME TypeOK, NEW h \in Handler, NEW a, a # Null, a.reason # "APPROVAL_GRANTED",
         resp[h] = Null, UNCHANGED req, Respond(h, a)
  PROVE  Granted' = Granted
<1>0. resp' = [resp EXCEPT ![h] = a]
  BY DEF Respond
<1>1. ~ Grants(h) /\ ~ Grants(h)'
  BY <1>0 DEF TypeOK, Grants
<1>2. ASSUME NEW g \in Handler, g # h
      PROVE  Grants(g)' <=> Grants(g)
  BY <1>0, <1>2 DEF TypeOK, Grants
<1>3. {g \in Handler : Grants(g)'} = {g \in Handler : Grants(g)}
  BY <1>1, <1>2
<1> QED
  BY <1>3 DEF Granted

(* The answer code of a refusal or a record grants nothing.                *)
LEMMA CodeGrantsNothing ==
  ASSUME TypeOK, NEW h \in Handler, NEW n \in {201, 400, 403, 404, 409, 500},
         resp[h] = Null, UNCHANGED req, Respond(h, Code(n))
  PROVE  Granted' = Granted
BY NoNewGrant, CodeType, NullAssumption

(* What the abstract state is read from.                                   *)
LEMMA Stutter ==
  ASSUME UNCHANGED <<approval, toolCalls>>, Granted' = Granted
  PROVE  UNCHANGED Abstract!grantVars
BY DEF Abstract!grantVars, CallsOf

(* No request, no grant and no execution at the start.                     *)
LEMMA InitRefines == Init => Abstract!Init
<1> SUFFICES ASSUME Init PROVE Abstract!Init
  OBVIOUS
<1>1. \A r \in RequestId : GrantState(approval[r]) = "none"
  BY DEF Init, GrantState
<1>2. Granted = {}
  BY DEF Init, Granted, Grants
<1>3. \A r \in RequestId : CallsOf(r) = {}
  BY DEF Init, CallsOf
<1> QED
  BY <1>1, <1>2, <1>3 DEF Abstract!Init

(* A statement before the answer of its handler, or one without a handler, *)
(* that writes neither approvals nor recorded calls.                       *)
LEMMA QuietStutters ==
  ASSUME IInv, UNCHANGED <<approval, toolCalls, req, resp>>
  PROVE  UNCHANGED Abstract!grantVars
<1>1. Granted' = Granted
  BY DEF Granted, Grants
<1> QED
  BY <1>1, Stutter

(* A handler that takes up a request has not been answered before.         *)
LEMMA ReceiveStutters ==
  ASSUME IInv, NEW h \in Handler, NEW q \in Requests, Receive(h, q)
  PROVE  UNCHANGED Abstract!grantVars
<1>1. ~ Grants(h) /\ UNCHANGED <<approval, toolCalls, resp>> /\ req' = [req EXCEPT ![h] = q]
  BY DEF IInv, HandlersInStep, InStep, Receive, Grants, db
<1>2. \A g \in Handler : (Grants(g)' <=> Grants(g)) /\ (Grants(g) => req'[g] = req[g])
  BY <1>1 DEF IInv, TypeOK, Grants
<1>3. Granted' = Granted
  BY <1>2 DEF Granted
<1> QED
  BY <1>1, <1>3, Stutter

(* check-tool answers from the table: a grant, or nothing that counts.     *)
LEMMA LookupRefines ==
  ASSUME IInv, NEW h \in Handler, CheckLookup(h)
  PROVE  [Abstract!Next]_(Abstract!grantVars)
<1> DEFINE q == req[h]
           row == approval[q.rid]
           a == ExistingVerdict(row, q, policy, base[h])
<1>1. /\ q \in CheckRequest /\ resp[h] = Null /\ TypeOK
      /\ base[h] \in [decision : Decision, reason : Reason]
      /\ row \in ApprovalRow \cup {Null} /\ q.rid \in RequestId
      /\ UNCHANGED <<approval, toolCalls, req>>
  BY CheckBody DEF CheckLookup, IInv, TypeOK, HandlersInStep, InStep, CheckRequest
<1>2. CASE row = Null /\ base[h].decision # "REQUIRE_APPROVAL"
  <2>1. Respond(h, Verdict(base[h], Null, Null))
    BY <1>2 DEF CheckLookup
  <2>2. Verdict(base[h], Null, Null) # Null /\ Verdict(base[h], Null, Null).reason # "APPROVAL_GRANTED"
    BY <1>1, VerdictType, NullAssumption
  <2> QED
    BY <1>1, <2>1, <2>2, NoNewGrant, Stutter
<1>3. CASE row = Null /\ base[h].decision = "REQUIRE_APPROVAL"
  BY <1>1, <1>3, QuietStutters DEF CheckLookup
<1>4. CASE row # Null
  <2>1. Respond(h, a)
    BY <1>4 DEF CheckLookup
  <2>2. /\ a \in Answer /\ a # Null
        /\ a.reason = "APPROVAL_GRANTED" => row.status = "approved" /\ ~ row.used
    BY <1>1, <1>4, ExistingVerdictFacts, NullAssumption
  <2> HIDE DEF a
  <2>3. CASE a.reason # "APPROVAL_GRANTED"
    BY <1>1, <2>1, <2>2, <2>3, NoNewGrant, Stutter
  <2>4. CASE a.reason = "APPROVAL_GRANTED"
    <3>1. resp' = [resp EXCEPT ![h] = a]
      BY <2>1 DEF Respond
    <3>2. /\ ~ Grants(h) /\ Grants(h)'
          /\ \A g \in Handler : g # h => (Grants(g)' <=> Grants(g))
      BY <1>1, <2>2, <2>4, <3>1 DEF TypeOK, Grants
    <3>3. {g \in Handler : Grants(g)'} = {g \in Handler : Grants(g)} \cup {h}
      BY <3>2
    <3>4. Granted' = Granted \cup {<<h, q.rid>>}
      BY <1>1, <3>3 DEF Granted
    <3>5. GrantState(row) = "approved"
      BY <1>4, <2>2, <2>4 DEF GrantState
    <3>6. UNCHANGED <<[r \in RequestId |-> GrantState(approval[r])], [r \in RequestId |-> CallsOf(r)]>>
      BY <1>1 DEF CallsOf
    <3>7. Abstract!Grant(h, q.rid)
      BY <1>1, <3>4, <3>5, <3>6 DEF Abstract!Grant
    <3> QED
      BY <1>1, <3>7 DEF Abstract!Next
  <2> QED
    BY <2>3, <2>4
<1> QED
  BY <1>1, <1>2, <1>3, <1>4

(* The row that a winning insert commits is the Ask of its request.        *)
LEMMA InsertRefines ==
  ASSUME IInv, NEW h \in Handler, CheckInsert(h)
  PROVE  [Abstract!Next]_(Abstract!grantVars)
<1> DEFINE q == req[h]
           a == Verdict(base[h], q.rid, "pending")
<1>1. /\ TypeOK /\ q.rid \in RequestId /\ resp[h] = Null /\ UNCHANGED <<toolCalls, req>>
      /\ base[h] \in [decision : Decision, reason : Reason]
  BY CheckBody DEF CheckInsert, IInv, HandlersInStep, InStep, CheckRequest
<1>2. CASE approval[q.rid] # Null
  <2>1. Respond(h, Code(500)) /\ UNCHANGED approval
    BY <1>2 DEF CheckInsert
  <2> QED
    BY <1>1, <2>1, CodeGrantsNothing, Stutter
<1>3. CASE approval[q.rid] = Null
  <2>1. Respond(h, a) /\ approval' = [approval EXCEPT ![q.rid] = NewApproval(q, seen[h])]
    BY <1>3 DEF CheckInsert
  <2>2. a # Null /\ a.reason # "APPROVAL_GRANTED"
    BY <1>1, VerdictType, NullAssumption DEF ApprovalStatus
  <2>3. Granted' = Granted
    <3> HIDE DEF a
    <3> QED
      BY <1>1, <2>1, <2>2, NoNewGrant
  <2>4. /\ GrantState(approval[q.rid]) = "none" /\ GrantState(approval'[q.rid]) = "pending"
        /\ \A r \in RequestId : r # q.rid => approval'[r] = approval[r]
    <3>1. approval'[q.rid] = NewApproval(q, seen[h])
      BY <1>1, <2>1 DEF TypeOK
    <3>2. NewApproval(q, seen[h]) # Null /\ NewApproval(q, seen[h]).status = "pending" /\ ~ NewApproval(q, seen[h]).used
      BY NewApprovalType, CheckBody, NullAssumption DEF IInv, CheckInsert, NewApproval
    <3> QED
      BY <1>1, <1>3, <2>1, <3>1, <3>2 DEF TypeOK, GrantState
  <2>5. [r \in RequestId |-> GrantState(approval'[r])] =
          [[r \in RequestId |-> GrantState(approval[r])] EXCEPT ![q.rid] = "pending"]
    BY <2>4
  <2>6. UNCHANGED [r \in RequestId |-> CallsOf(r)]
    BY <1>1 DEF CallsOf
  <2>7. Abstract!Ask(q.rid)
    BY <1>1, <2>3, <2>4, <2>5, <2>6 DEF Abstract!Ask, Abstract!Move
  <2> QED
    BY <1>1, <2>7 DEF Abstract!Next
<1> QED
  BY <1>2, <1>3

(* A reviewer's decision is the Decide of its request.                     *)
LEMMA ReviewRefines ==
  ASSUME IInv, NEW r \in RequestId, NEW u \in Reviewer, NEW o \in {"approved", "rejected"},
         Review(r, u, o)
  PROVE  [Abstract!Next]_(Abstract!grantVars)
<1> DEFINE new == [approval[r] EXCEPT !.status = o, !.reviewer = u]
<1>1. /\ TypeOK /\ approval[r] \in ApprovalRow /\ approval[r] # Null
      /\ approval[r].status = "pending" /\ ~ approval[r].used
      /\ UNCHANGED <<toolCalls, req, resp>>
  BY DEF IInv, TypeOK, RowsSound, Review, locals
<1>2. approval' = [approval EXCEPT ![r] = new]
  BY <1>1 DEF Review, ApprovalRow
<1>3. new # Null /\ new.status = o /\ ~ new.used
  <2>1. new \in ApprovalRow
    BY <1>1 DEF ApprovalRow, ApprovalStatus
  <2> QED
    BY <1>1, <2>1, NullAssumption DEF ApprovalRow
<1> HIDE DEF new
<1>4. GrantState(approval[r]) = "pending" /\ GrantState(approval'[r]) = o
  BY <1>1, <1>2, <1>3 DEF TypeOK, GrantState
<1>5. \A s \in RequestId : s # r => approval'[s] = approval[s]
  BY <1>1, <1>2 DEF TypeOK
<1>6. [s \in RequestId |-> GrantState(approval'[s])] =
        [[s \in RequestId |-> GrantState(approval[s])] EXCEPT ![r] = o]
  BY <1>4, <1>5
<1>7. Granted' = Granted /\ UNCHANGED [s \in RequestId |-> CallsOf(s)]
  BY <1>1 DEF Granted, Grants, CallsOf
<1>8. Abstract!Decide(r)
  BY <1>4, <1>6, <1>7 DEF Abstract!Decide, Abstract!Move
<1> QED
  BY <1>8 DEF Abstract!Next

(* The commit that consumes an approval and records its call is the Use.   *)
LEMMA CommitRefines ==
  ASSUME IInv, NEW h \in Handler, RecordCommit(h)
  PROVE  [Abstract!Next]_(Abstract!grantVars)
<1> DEFINE q == req[h]
           old == approval[q.rid]
           new == [old EXCEPT !.used = TRUE]
<1>1. /\ TypeOK /\ resp[h] = Null /\ q \in RecordRequest /\ UNCHANGED req
      /\ q.rid # Null => q.rid \in RequestId
  BY RecordBody DEF IInv, RecordCommit, RecordRequest
<1>2. ASSUME NEW u, InsertCall(h, u)
      PROVE  /\ Granted' = Granted
             /\ toolCalls' = Append(toolCalls, NewCall(q, u))
  BY <1>1, <1>2, CodeGrantsNothing DEF InsertCall
<1>3. ASSUME NEW u, toolCalls' = Append(toolCalls, NewCall(q, u))
      PROVE  /\ \A r \in RequestId : r # q.rid => CallsOf(r)' = CallsOf(r)
             /\ q.rid \in RequestId => CallsOf(q.rid)' = CallsOf(q.rid) \cup {Len(toolCalls')}
  <2> DEFINE c == NewCall(q, u)
  <2>1. c.rid = q.rid
    BY DEF NewCall
  <2> HIDE DEF c
  <2>2. /\ DOMAIN toolCalls' = DOMAIN toolCalls \cup {Len(toolCalls')}
        /\ \A i \in DOMAIN toolCalls : toolCalls'[i] = toolCalls[i]
        /\ toolCalls'[Len(toolCalls')] = c
    BY <1>1, <1>3 DEF TypeOK, c
  <2> QED
    BY <1>1, <2>1, <2>2 DEF CallsOf
<1>4. CASE q.rid = Null
  <2>1. Granted' = Granted /\ toolCalls' = Append(toolCalls, NewCall(q, Null)) /\ UNCHANGED approval
    BY <1>2, <1>4 DEF RecordCommit
  <2>2. \A r \in RequestId : CallsOf(r)' = CallsOf(r)
    BY <1>3, <1>4, <2>1, NullAssumption
  <2> QED
    BY <2>1, <2>2 DEF Abstract!grantVars
<1>5. CASE q.rid # Null /\ ~ Available(old)
  <2>1. Respond(h, Code(409)) /\ UNCHANGED <<approval, toolCalls>>
    BY <1>5 DEF RecordCommit
  <2> QED
    BY <1>1, <2>1, CodeGrantsNothing, Stutter
<1>6. CASE q.rid # Null /\ Available(old)
  <2>1. /\ approval' = [approval EXCEPT ![q.rid].used = TRUE]
        /\ InsertCall(h, old.reviewer)
    BY <1>6 DEF RecordCommit
  <2>2. Granted' = Granted /\ toolCalls' = Append(toolCalls, NewCall(q, old.reviewer))
    BY <1>2, <2>1
  <2>3. old \in ApprovalRow /\ old # Null /\ old.status = "approved" /\ ~ old.used
    <3>1. TypeOK /\ InStep(h)
      BY DEF IInv, HandlersInStep
    <3>2. pc[h] = "record"
      BY DEF RecordCommit
    <3>3. Provenance(old, q)
      BY <1>6, <3>1, <3>2 DEF InStep
    <3>4. q.rid \in RequestId /\ old # Null
      BY <1>1, <1>6, <3>3 DEF Provenance
    <3>5. old \in ApprovalRow
      BY <3>1, <3>4 DEF TypeOK
    <3> QED
      BY <1>6, <3>4, <3>5 DEF Available
  <2>4. new # Null /\ new.used
    <3>1. new \in ApprovalRow
      BY <2>3 DEF ApprovalRow
    <3> QED
      BY <2>3, <3>1, NullAssumption DEF ApprovalRow
  <2> HIDE DEF new
  <2>5. approval' = [approval EXCEPT ![q.rid] = new]
    BY <2>1, <2>3 DEF ApprovalRow, new
  <2>6. GrantState(old) = "approved" /\ GrantState(approval'[q.rid]) = "used"
    BY <1>1, <1>6, <2>3, <2>4, <2>5 DEF TypeOK, GrantState
  <2>7. \A r \in RequestId : r # q.rid => approval'[r] = approval[r]
    BY <1>1, <2>5 DEF TypeOK
  <2>8. [r \in RequestId |-> GrantState(approval'[r])] =
          [[r \in RequestId |-> GrantState(approval[r])] EXCEPT ![q.rid] = "used"]
    BY <2>6, <2>7
  <2>9. CallsOf(q.rid) = {}
    BY <1>1, <1>6, <2>3 DEF IInv, ConsumedOnce, CallsOf
  <2>10. /\ \A r \in RequestId : r # q.rid => CallsOf(r)' = CallsOf(r)
         /\ CallsOf(q.rid)' = {Len(toolCalls')}
    BY <1>1, <1>3, <1>6, <2>2, <2>9
  <2>11. [r \in RequestId |-> CallsOf(r)'] =
           [[r \in RequestId |-> CallsOf(r)] EXCEPT ![q.rid] = {Len(toolCalls')}]
    BY <1>1, <2>10
  <2>12. Abstract!Use(q.rid)
    BY <1>1, <1>6, <2>2, <2>6, <2>8, <2>9, <2>10, <2>11 DEF Abstract!Use, Abstract!Move
  <2> QED
    BY <1>1, <1>6, <2>12 DEF Abstract!Next
<1> QED
  BY <1>4, <1>5, <1>6

-----------------------------------------------------------------------------
(* The approvals, the grants and the recorded executions behave as the     *)
(* one-time grant, for any number of handlers, requests and policies.      *)
THEOREM Refinement == Spec => ImplementsOneTimeGrant
<1>1. IInv /\ [Next]_vars => [Abstract!Next]_(Abstract!grantVars)
  <2> SUFFICES ASSUME IInv, [Next]_vars PROVE [Abstract!Next]_(Abstract!grantVars)
    OBVIOUS
  <2>1. ASSUME NEW h \in Handler, NEW q \in Requests, Receive(h, q)
        PROVE  [Abstract!Next]_(Abstract!grantVars)
    BY <2>1, ReceiveStutters
  <2>2. ASSUME NEW h \in Handler, CheckPreflight(h)
        PROVE  [Abstract!Next]_(Abstract!grantVars)
    BY <2>2, QuietStutters DEF CheckPreflight, db
  <2>3. ASSUME NEW h \in Handler,
               RecordReadCall(h) \/ RecordReadApproval(h) \/ RecordRevalidate(h) \/ Abort(h)
        PROVE  [Abstract!Next]_(Abstract!grantVars)
    <3>1. UNCHANGED <<approval, toolCalls, req>> /\ TypeOK
      BY <2>3 DEF RecordReadCall, RecordReadApproval, RecordRevalidate, Abort, db, IInv
    <3>2. resp[h] = Null
      BY <2>3 DEF IInv, HandlersInStep, InStep, RecordReadCall, RecordReadApproval,
                  RecordRevalidate, Abort
    <3>3. UNCHANGED resp \/ \E n \in {201, 400, 403, 404, 409, 500} : Respond(h, Code(n))
      BY <2>3 DEF RecordReadCall, RecordReadApproval, RecordRevalidate, Abort, KeepPolicy
    <3> QED
      BY <3>1, <3>2, <3>3, QuietStutters, CodeGrantsNothing, Stutter
  <2>4. ASSUME NEW h \in Handler, CheckLookup(h) \/ CheckInsert(h) \/ RecordCommit(h)
        PROVE  [Abstract!Next]_(Abstract!grantVars)
    BY <2>4, LookupRefines, InsertRefines, CommitRefines
  <2>5. ASSUME NEW r \in RequestId, NEW u \in Reviewer, NEW o \in {"approved", "rejected"}, Review(r, u, o)
        PROVE  [Abstract!Next]_(Abstract!grantVars)
    BY <2>5, ReviewRefines
  <2>6. ASSUME \/ \E p \in PolicyChoice : SetPolicy(p)
               \/ \E t \in Trace, m \in ModelCall : IngestModelCall(t, m)
        PROVE  [Abstract!Next]_(Abstract!grantVars)
    BY <2>6, QuietStutters DEF SetPolicy, IngestModelCall, locals
  <2>7. CASE UNCHANGED vars
    BY <2>7, QuietStutters DEF vars
  <2> QED
    BY <2>1, <2>2, <2>3, <2>4, <2>5, <2>6, <2>7 DEF Next, Serve, Govern
<1> QED
  BY <1>1, InitRefines, Invariance, PTL DEF Spec, ImplementsOneTimeGrant, Abstract!Spec

=============================================================================
