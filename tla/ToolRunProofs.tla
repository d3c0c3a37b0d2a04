---------------------------- MODULE ToolRunProofs ----------------------------
(***************************************************************************)
(* Proofs, for every value of the constants, of the safety properties of   *)
(* ToolRun.  The SDK is one of the callers that Approvals leaves open, so  *)
(* everything proved about Approvals holds here too; RunIInv adds what an  *)
(* invocation of run_tool knows of the request it has sent and of the      *)
(* approval it waits for.                                                  *)
(***************************************************************************)
EXTENDS ToolRun, ApprovalsProofs

(* What the answer of check-tool says to the client that reads it.         *)
AnswerFits(h) ==
  resp[h] # Null /\ resp[h].http = 200 =>
    /\ req[h].op = "check"
    /\ resp[h].decision \in Decision
    /\ resp[h].reason \in CheckReason
    /\ resp[h].rid \in {Null, req[h].rid}
    /\ resp[h].decision = "REQUIRE_APPROVAL" =>
         resp[h].rid = req[h].rid /\ approval[req[h].rid] # Null

(* Every request comes from an invocation: its preflight, or the telemetry *)
(* it has settled on.                                                      *)
SentBy(c, h) ==
  \/ req[h] = Body[c]
  \/ stage[c] \in {"report", "ended"} /\ report[c] # Null /\ req[h] = report[c]

RequestsAreOurs == \A h \in Handler : req[h] # Null => \E c \in Run : SentBy(c, h)

(* The attempt in flight carries what the stage sends, and an answer that  *)
(* lets an approved invocation pass is the grant.                          *)
FlightFits(c) ==
  flight[c] # Null =>
    /\ Posting(c)
    /\ req[flight[c]] = Outgoing(c)
    /\ stage[c] = "recheck" /\ resp[flight[c]] # Null
         /\ resp[flight[c]].http = 200 /\ resp[flight[c]].decision = "ALLOW" =>
           resp[flight[c]].reason = "APPROVAL_GRANTED"

(* What the locals of run_tool say at each of its stages. *)
StageFits(c) ==
  /\ stage[c] = "check" => ticket[c] = Null
  /\ stage[c] \in {"poll", "recheck"} => ticket[c] # Null
  /\ ticket[c] # Null => ticket[c].rid = Rid[c] /\ approval[Rid[c]] # Null
  /\ stage[c] = "recheck" => approval[Rid[c]].status = "approved"
  /\ stage[c] = "execute" => result[c] # Null
  /\ result[c] # Null => result[c].rid \in {Null, Rid[c]}
  /\ stage[c] \in {"check", "poll", "recheck", "execute"} => ~ Executed(c)
  /\ report[c] # Null /\ report[c].rid # Null =>
       /\ Executed(c)
       /\ report[c].status = "SUCCESS" <=> ending[c] = "returned"

(* The properties of ToolRun, of one invocation. *)
Waits(c) ==
  ticket[c] # Null /\ Cleared(c) =>
    /\ result[c].reason = "APPROVAL_GRANTED"
    /\ approval[Rid[c]] # Null /\ approval[Rid[c]].status = "approved"

Asks(c) ==
  ~ mode[c].failOpen /\ Cleared(c) =>
    \E h \in Handler :
      /\ resp[h] # Null /\ resp[h].decision = "ALLOW"
      /\ req[h].op = "check" /\ req[h].rid = Rid[c]

Records(c) ==
  \A i \in DOMAIN toolCalls :
    toolCalls[i].rid = Rid[c] =>
      /\ Executed(c)
      /\ toolCalls[i].status = "SUCCESS" <=> ending[c] = "returned"

Sound(c) == FlightFits(c) /\ StageFits(c) /\ Waits(c) /\ Asks(c) /\ Records(c)

(* The inductive invariant. *)
RunIInv ==
  /\ IInv /\ RunTypeOK
  /\ \A h \in Handler : AnswerFits(h)
  /\ RequestsAreOurs
  /\ \A c \in Run : Sound(c)


-----------------------------------------------------------------------------
(* What the backend does to the requests of its callers *)

Backend == (\E h \in Handler : Serve(h)) \/ Govern

(* A statement answers its own request, if any, and leaves the others.     *)
LEMMA ServeAnswersOne ==
  ASSUME NEW h \in Handler, Serve(h)
  PROVE  /\ req' = req
         /\ pc[h] \notin {"idle", "done"}
         /\ resp' = resp \/ \E a : resp' = [resp EXCEPT ![h] = a]
<1>1. CASE CheckPreflight(h) \/ CheckLookup(h) \/ CheckInsert(h)
  BY <1>1 DEF CheckPreflight, CheckLookup, CheckInsert, Respond
<1>2. CASE RecordReadCall(h)
  BY <1>2 DEF RecordReadCall, KeepPolicy, Respond
<1>3. CASE RecordReadApproval(h) \/ RecordRevalidate(h)
  BY <1>3 DEF RecordReadApproval, RecordRevalidate, Respond
<1>4. CASE RecordCommit(h)
  BY <1>4 DEF RecordCommit, InsertCall, Respond
<1>5. CASE Abort(h)
  BY <1>5 DEF Abort, Respond
<1> QED
  BY <1>1, <1>2, <1>3, <1>4, <1>5 DEF Serve

(* A body and an answer, once there, stay.                                 *)
LEMMA AnswersStay ==
  ASSUME IInv, Backend
  PROVE  /\ req' = req
         /\ \A g \in Handler : resp[g] # Null => resp'[g] = resp[g]
<1>1. ASSUME NEW h \in Handler, Serve(h)
      PROVE  req' = req /\ \A g \in Handler : resp[g] # Null => resp'[g] = resp[g]
  <2>1. resp[h] = Null
    BY <1>1, ServeAnswersOne DEF IInv, HandlersInStep, InStep
  <2> QED
    BY <1>1, <2>1, ServeAnswersOne DEF IInv, TypeOK
<1>2. CASE Govern
  BY <1>2 DEF Govern, Review, SetPolicy, IngestModelCall, locals
<1> QED
  BY <1>1, <1>2 DEF Backend

(* A step of the backend is a step of Approvals.                           *)
LEMMA BackendIsNext == Backend => [Next]_vars
BY DEF Backend, Next

(* An approval that is there stays there, and an approved one approved.    *)
LEMMA ApprovalsStay ==
  ASSUME IInv, [Next]_vars, NEW r \in RequestId, approval[r] # Null
  PROVE  /\ approval'[r] # Null
         /\ approval[r].status = "approved" => approval'[r].status = "approved"
BY RowsAreFinal DEF RowFinal

(* The statements that answer check-tool say what the client relies on.    *)
LEMMA LookupAnswerFits ==
  ASSUME IInv, NEW h \in Handler, CheckLookup(h) \/ CheckInsert(h), resp'[h] # Null, resp'[h].http = 200
  PROVE  /\ req[h].op = "check" /\ req[h].rid \in RequestId
         /\ resp'[h].decision \in Decision /\ resp'[h].reason \in CheckReason
         /\ resp'[h].rid \in {Null, req[h].rid}
         /\ resp'[h].decision = "REQUIRE_APPROVAL" =>
              resp'[h].rid = req[h].rid /\ approval'[req[h].rid] # Null
         /\ approval[req[h].rid] # Null /\ approval[req[h].rid].status = "approved"
              /\ resp'[h].decision = "ALLOW" => resp'[h].reason = "APPROVAL_GRANTED"
<1> DEFINE q == req[h]
           row == approval[q.rid]
<1>1. /\ q \in CheckRequest /\ q.op = "check" /\ q.rid \in RequestId /\ resp[h] = Null
      /\ base[h] \in [decision : Decision, reason : Reason]
      /\ row \in ApprovalRow \cup {Null} /\ resp \in [Handler -> Answer \cup {Null}]
  BY CheckBody DEF CheckLookup, CheckInsert, IInv, TypeOK, HandlersInStep, InStep, CheckRequest
<1>2. ASSUME NEW a, Respond(h, a) PROVE resp'[h] = a
  BY <1>1, <1>2 DEF Respond
<1>3. CASE CheckLookup(h) /\ row = Null
  <2>1. base[h].decision # "REQUIRE_APPROVAL" /\ resp'[h] = Verdict(base[h], Null, Null)
    BY <1>1, <1>2, <1>3 DEF CheckLookup
  <2> QED
    BY <1>1, <1>3, <2>1 DEF Verdict, CheckReason
<1>4. CASE CheckLookup(h) /\ row # Null
  <2>1. resp'[h] = ExistingVerdict(row, q, policy, base[h]) /\ approval' = approval
    BY <1>2, <1>4 DEF CheckLookup
  <2>2. ExistingVerdict(row, q, policy, base[h]) \in Answer
    BY <1>1, <1>4, ExistingVerdictFacts
  <2>3. LET a == ExistingVerdict(row, q, policy, base[h]) IN
        /\ a.decision \in Decision /\ a.reason \in CheckReason /\ a.rid = q.rid
        /\ row.status = "approved" /\ a.decision = "ALLOW" => a.reason = "APPROVAL_GRANTED"
    BY <1>1 DEF ExistingVerdict, Verdict, Outcome, Decision, CheckReason, Reason
  <2> QED
    BY <1>1, <1>4, <2>1, <2>3
<1>5. CASE CheckInsert(h) /\ row = Null
  <2>1. resp'[h] = Verdict(base[h], q.rid, "pending")
    BY <1>2, <1>5 DEF CheckInsert
  <2>2. approval'[q.rid] # Null
    BY <1>1, <1>5, NewApprovalType, NullAssumption DEF CheckInsert, IInv, TypeOK
  <2> QED
    BY <1>1, <1>5, <2>1, <2>2 DEF Verdict, CheckReason
<1>6. CASE CheckInsert(h) /\ row # Null
  <2>1. resp'[h] = Code(500)
    BY <1>2, <1>6 DEF CheckInsert
  <2> QED
    BY <2>1, CodeType
<1> QED
  BY <1>3, <1>4, <1>5, <1>6

(* Nobody else answers 200.                                                *)
LEMMA OnlyCheckAnswersOK ==
  ASSUME IInv, NEW h \in Handler, Serve(h), ~ CheckLookup(h), ~ CheckInsert(h),
         NEW g \in Handler, resp'[g] # Null, resp'[g].http = 200
  PROVE  resp'[g] = resp[g]
<1>0. resp \in [Handler -> Answer \cup {Null}]
  BY DEF IInv, TypeOK
<1>1. ASSUME NEW c \in {201, 400, 403, 404, 409, 500}, Respond(h, Code(c))
      PROVE  resp'[g] = resp[g]
  BY <1>0, <1>1, CodeType DEF Respond
<1>2. CASE CheckPreflight(h)
  BY <1>2 DEF CheckPreflight
<1>3. CASE RecordReadCall(h)
  BY <1>1, <1>3 DEF RecordReadCall, KeepPolicy
<1>4. CASE RecordReadApproval(h) \/ RecordRevalidate(h)
  BY <1>1, <1>4 DEF RecordReadApproval, RecordRevalidate
<1>5. CASE RecordCommit(h)
  BY <1>1, <1>5 DEF RecordCommit, InsertCall
<1>6. CASE Abort(h)
  BY <1>1, <1>6 DEF Abort
<1> QED
  BY <1>2, <1>3, <1>4, <1>5, <1>6 DEF Serve

(* Answers keep saying what they say, whatever the backend does next.      *)
LEMMA AnswersKeepFitting ==
  ASSUME IInv, \A h \in Handler : AnswerFits(h), Backend, NEW g \in Handler
  PROVE  AnswerFits(g)'
<1> SUFFICES ASSUME resp'[g] # Null, resp'[g].http = 200
             PROVE  /\ req[g].op = "check"
                    /\ resp'[g].decision \in Decision
                    /\ resp'[g].reason \in CheckReason
                    /\ resp'[g].rid \in {Null, req[g].rid}
                    /\ resp'[g].decision = "REQUIRE_APPROVAL" =>
                         resp'[g].rid = req[g].rid /\ approval'[req[g].rid] # Null
  BY AnswersStay DEF AnswerFits
<1>1. CASE resp'[g] = resp[g]
  <2>1. req[g] \in CheckRequest
    BY <1>1, ConstantsAssumption, NullAssumption
       DEF AnswerFits, IInv, TypeOK, HandlersInStep, InStep, CheckRequest, RecordRequest
  <2>2. req[g].rid \in RequestId
    BY <2>1 DEF CheckRequest
  <2> QED
    BY <1>1, <2>2, ApprovalsStay, BackendIsNext DEF AnswerFits
<1>2. CASE resp'[g] # resp[g]
  <2>1. PICK h \in Handler : Serve(h)
    BY <1>2 DEF Backend, Govern, Review, SetPolicy, IngestModelCall, locals
  <2>2. CheckLookup(h) \/ CheckInsert(h)
    BY <1>2, <2>1, OnlyCheckAnswersOK
  <2>3. g = h
    BY <1>2, <2>1, ServeAnswersOne DEF IInv, TypeOK
  <2> QED
    BY <2>2, <2>3, LookupAnswerFits
<1> QED
  BY <1>1, <1>2

(* A request for an approved attempt is let through by the grant alone.    *)
LEMMA ApprovedIsGranted ==
  ASSUME IInv, Backend, NEW h \in Handler, req[h].op = "check",
         approval[req[h].rid] # Null, approval[req[h].rid].status = "approved",
         resp'[h] # Null, resp'[h].http = 200, resp'[h].decision = "ALLOW", resp'[h] # resp[h]
  PROVE  resp'[h].reason = "APPROVAL_GRANTED"
<1>1. PICK g \in Handler : Serve(g)
  BY DEF Backend, Govern, Review, SetPolicy, IngestModelCall, locals
<1>2. CheckLookup(g) \/ CheckInsert(g)
  BY <1>1, OnlyCheckAnswersOK
<1>3. g = h
  <2>1. resp \in [Handler -> Answer \cup {Null}]
    BY DEF IInv, TypeOK
  <2>2. resp' = resp \/ \E a : resp' = [resp EXCEPT ![g] = a]
    BY <1>1, ServeAnswersOne
  <2> QED
    BY <2>1, <2>2
<1> QED
  BY <1>2, <1>3, LookupAnswerFits

(* A recorded call is what a tool-calls body said.                         *)
LEMMA CallsAreServed ==
  ASSUME IInv, Backend, NEW i \in DOMAIN toolCalls'
  PROVE  \/ i \in DOMAIN toolCalls /\ toolCalls'[i] = toolCalls[i]
         \/ \E h \in Handler :
              /\ req[h] \in RecordRequest /\ req[h] # Null
              /\ toolCalls'[i].rid = req[h].rid
              /\ toolCalls'[i].status = req[h].status
<1>1. CASE toolCalls' = toolCalls
  BY <1>1
<1>2. CASE toolCalls' # toolCalls
  <2>1. PICK h \in Handler : Serve(h)
    BY <1>2 DEF Backend, Govern, Review, SetPolicy, IngestModelCall
  <2>2. ~ (CheckPreflight(h) \/ CheckLookup(h) \/ CheckInsert(h))
    BY <1>2 DEF CheckPreflight, CheckLookup, CheckInsert, db
  <2>3. ~ (RecordReadCall(h) \/ RecordReadApproval(h) \/ RecordRevalidate(h) \/ Abort(h))
    BY <1>2 DEF RecordReadCall, RecordReadApproval, RecordRevalidate, Abort, db
  <2>4. RecordCommit(h)
    BY <2>1, <2>2, <2>3 DEF Serve
  <2>5. PICK u : toolCalls' = Append(toolCalls, NewCall(req[h], u))
    BY <1>2, <2>4 DEF RecordCommit, InsertCall
  <2>6. req[h] \in RecordRequest /\ req[h] # Null
    BY <2>4, RecordBody DEF RecordCommit, IInv, HandlersInStep, InStep
  <2>7. toolCalls \in Seq(ToolCallRow)
    BY DEF IInv, TypeOK
  <2>8. \/ i \in DOMAIN toolCalls /\ toolCalls'[i] = toolCalls[i]
        \/ toolCalls'[i] = NewCall(req[h], u)
    BY <2>5, <2>7
  <2> QED
    BY <2>6, <2>8 DEF NewCall
<1> QED
  BY <1>1, <1>2

-----------------------------------------------------------------------------
(* What the requests of an invocation are *)

(* A preflight body is of its invocation, and a report of the invocation   *)
(* that is given, or of no approval.                                       *)
LEMMA BodyFacts ==
  ASSUME NEW c \in Run
  PROVE  /\ Rid[c] \in RequestId /\ Rid[c] # Null
         /\ Body[c] \in Requests /\ Body[c] # Null
         /\ Body[c].op = "check" /\ Body[c].rid = Rid[c]
BY RunAssumption, NullAssumption DEF CheckRequest

LEMMA ReportFacts ==
  ASSUME NEW c \in Run, NEW p \in Reports(c)
  PROVE  /\ p \in Requests /\ p # Null /\ p.op = "record" /\ p.rid \in {Null, Rid[c]}
BY RunAssumption, NullAssumption DEF Reports, Telemetry

(* None is no answer, and an invocation that has not ended has no ending.  *)
LEMMA NoneFacts ==
  /\ Null \notin Result /\ Null \notin {"returned", "raised"}
BY RunNullAssumption DEF Ending

(* What an invocation is about to send is a body the backend takes.        *)
LEMMA OutgoingFacts ==
  ASSUME RunIInv, NEW c \in Run, Posting(c)
  PROVE  /\ Outgoing(c) \in Requests
         /\ stage[c] # "report" => Outgoing(c) = Body[c]
         /\ stage[c] = "report" => Outgoing(c) = report[c] /\ report[c] # Null
<1>1. CASE stage[c] = "report"
  BY <1>1, ReportFacts DEF RunIInv, RunTypeOK, Posting, Outgoing
<1>2. CASE stage[c] # "report"
  BY <1>2, BodyFacts DEF Outgoing
<1> QED
  BY <1>1, <1>2

-----------------------------------------------------------------------------
(* Before the first request nothing is sent, decided or recorded.          *)
THEOREM RunInitInv == RunInit => RunIInv
<1> SUFFICES ASSUME RunInit PROVE RunIInv
  OBVIOUS
<1>1. Init /\ IInv
  BY InitInv DEF RunInit
<1>2. RunTypeOK
  BY <1>1, RunAssumption DEF RunInit, RunTypeOK, IInv, Stage
<1>3. (\A h \in Handler : AnswerFits(h)) /\ RequestsAreOurs
  BY <1>1 DEF Init, AnswerFits, RequestsAreOurs
<1>4. ASSUME NEW c \in Run PROVE Sound(c)
  BY <1>1, NoneFacts DEF RunInit, Init, Sound, FlightFits, StageFits, Waits, Asks, Records, Cleared, Executed
<1> QED
  BY <1>1, <1>2, <1>3, <1>4 DEF RunIInv

(* Handlers, reviewers and administrators disturb no invocation: what is   *)
(* answered and approved stays, and only telemetry that was sent is put on *)
(* record.                                                                 *)
LEMMA BackendInv ==
  ASSUME RunIInv, Backend, UNCHANGED client
  PROVE  RunIInv'
<1>0. IInv /\ [Next]_vars /\ IInv'
  BY BackendIsNext, NextInv DEF RunIInv
<1>1. UNCHANGED <<mode, stage, flight, attempts, ticket, result, expired, report, ending>>
  BY DEF client
<1>2. req' = req /\ \A g \in Handler : resp[g] # Null => resp'[g] = resp[g]
  BY <1>0, AnswersStay
<1>3. ASSUME NEW c \in Run, approval[Rid[c]] # Null
      PROVE  /\ approval'[Rid[c]] # Null
             /\ approval[Rid[c]].status = "approved" => approval'[Rid[c]].status = "approved"
  BY <1>0, <1>3, BodyFacts, ApprovalsStay
<1>4. RunTypeOK'
  BY <1>0, <1>1 DEF RunIInv, RunTypeOK, IInv, Reports, Telemetry
<1>5. \A h \in Handler : AnswerFits(h)'
  BY <1>0, AnswersKeepFitting DEF RunIInv
<1>6. RequestsAreOurs'
  BY <1>1, <1>2 DEF RunIInv, RequestsAreOurs, SentBy
<1>7. ASSUME NEW c \in Run PROVE Sound(c)'
  <2>0. /\ FlightFits(c) /\ StageFits(c) /\ Waits(c) /\ Asks(c) /\ Records(c)
        /\ flight[c] \in Handler \cup {Null}
    BY DEF RunIInv, Sound, RunTypeOK
  <2>1. FlightFits(c)'
    <3> SUFFICES ASSUME flight[c] # Null, stage[c] = "recheck", resp'[flight[c]] # Null,
                        resp'[flight[c]].http = 200, resp'[flight[c]].decision = "ALLOW"
                 PROVE  resp'[flight[c]].reason = "APPROVAL_GRANTED"
      BY <1>1, <1>2, <2>0 DEF FlightFits, Posting, Outgoing
    <3> DEFINE f == flight[c]
    <3>1. f \in Handler /\ req[f] = Body[c] /\ req[f].op = "check" /\ req[f].rid = Rid[c]
      BY <2>0, BodyFacts DEF FlightFits, Outgoing
    <3>2. approval[Rid[c]] # Null /\ approval[Rid[c]].status = "approved"
      BY <2>0 DEF StageFits
    <3>3. CASE resp'[f] = resp[f]
      BY <2>0, <3>3 DEF FlightFits
    <3>4. CASE resp'[f] # resp[f]
      BY <1>0, <3>1, <3>2, <3>4, ApprovedIsGranted
    <3> QED
      BY <3>3, <3>4
  <2>2. StageFits(c)'
    BY <1>1, <1>3, <2>0 DEF StageFits, Executed
  <2>3. Waits(c)'
    BY <1>1, <1>3, <2>0 DEF Waits, Cleared, Executed
  <2>4. Asks(c)'
    BY <1>1, <1>2, <2>0 DEF Asks, Cleared, Executed
  <2>5. Records(c)'
    <3> SUFFICES ASSUME NEW i \in DOMAIN toolCalls', toolCalls'[i].rid = Rid[c]
                 PROVE  /\ Executed(c)
                        /\ toolCalls'[i].status = "SUCCESS" <=> ending[c] = "returned"
      BY <1>1 DEF Records, Executed
    <3>1. CASE i \in DOMAIN toolCalls /\ toolCalls'[i] = toolCalls[i]
      BY <2>0, <3>1 DEF Records
    <3>2. ASSUME NEW h \in Handler, req[h] \in RecordRequest, req[h] # Null,
                 toolCalls'[i].rid = req[h].rid, toolCalls'[i].status = req[h].status
          PROVE  /\ Executed(c)
                 /\ toolCalls'[i].status = "SUCCESS" <=> ending[c] = "returned"
      <4>1. req[h] # Null /\ req[h].op = "record" /\ req[h].rid = Rid[c]
        BY <3>2 DEF RecordRequest
      <4>2. PICK d \in Run : SentBy(d, h)
        BY <4>1 DEF RunIInv, RequestsAreOurs
      <4>3. report[d] # Null /\ req[h] = report[d]
        BY <4>1, <4>2, BodyFacts DEF SentBy
      <4>4. report[d].rid \in {Null, Rid[d]}
        BY <4>3, ReportFacts DEF RunIInv, RunTypeOK
      <4>5. d = c
        BY <4>1, <4>3, <4>4, BodyFacts, RunAssumption
      <4> QED
        BY <2>0, <3>2, <4>1, <4>3, <4>5, BodyFacts DEF StageFits
    <3> QED
      BY <1>0, <3>1, <3>2, CallsAreServed
  <2> QED
    BY <2>1, <2>2, <2>3, <2>4, <2>5 DEF Sound
<1> QED
  BY <1>0, <1>4, <1>5, <1>6, <1>7 DEF RunIInv

-----------------------------------------------------------------------------
(* What the thread of an invocation does *)

(* A step of one invocation that leaves the backend alone leaves the other *)
(* invocations alone, and keeps the telemetry it has settled on.           *)
LEMMA ClientInv ==
  ASSUME RunIInv, NEW c \in Run, UNCHANGED vars, RunTypeOK', mode' = mode,
         \A d \in Run : d # c =>
           /\ stage'[d] = stage[d] /\ flight'[d] = flight[d] /\ ticket'[d] = ticket[d]
           /\ result'[d] = result[d] /\ report'[d] = report[d] /\ ending'[d] = ending[d],
         stage[c] \in {"report", "ended"} => stage'[c] \in {"report", "ended"} /\ report'[c] = report[c],
         Sound(c)'
  PROVE  RunIInv'
<1>1. /\ req' = req /\ resp' = resp /\ approval' = approval /\ toolCalls' = toolCalls
      /\ IInv /\ [Next]_vars
  BY DEF vars, RunIInv
<1>2. IInv'
  BY <1>1, NextInv
<1>3. \A h \in Handler : AnswerFits(h)'
  BY <1>1 DEF RunIInv, AnswerFits
<1>4. RequestsAreOurs'
  <2> SUFFICES ASSUME NEW h \in Handler, req[h] # Null
               PROVE  \E d \in Run : SentBy(d, h)'
    BY <1>1 DEF RequestsAreOurs
  <2>1. PICK d \in Run : SentBy(d, h)
    BY DEF RunIInv, RequestsAreOurs
  <2>2. SentBy(d, h)'
    BY <1>1, <2>1 DEF SentBy
  <2> QED
    BY <2>2
<1>5. ASSUME NEW d \in Run, d # c PROVE Sound(d)'
  BY <1>1, <1>5 DEF RunIInv, Sound, FlightFits, StageFits, Waits, Asks, Records, Posting, Outgoing,
                    Cleared, Executed
<1> QED
  BY <1>2, <1>3, <1>4, <1>5 DEF RunIInv

(* The invariant at the invocation that steps. *)
LEMMA Here ==
  ASSUME RunIInv, NEW c \in Run
  PROVE  /\ FlightFits(c) /\ StageFits(c) /\ Waits(c) /\ Asks(c) /\ Records(c)
         /\ RunTypeOK /\ stage[c] \in Stage /\ flight[c] \in Handler \cup {Null}
         /\ ticket[c] \in Result \cup {Null} /\ result[c] \in Result \cup {Null}
         /\ report[c] \in Reports(c) \cup {Null}
BY DEF RunIInv, Sound, RunTypeOK

(* An attempt goes out to a handler that nobody has talked to.             *)
LEMMA SendInv ==
  ASSUME RunIInv, NEW c \in Run, Send(c)
  PROVE  RunIInv' /\ [Next]_vars
<1>1. Outgoing(c) \in Requests /\ Posting(c) /\ flight[c] = Null /\ attempts[c] < MaxRetries
  BY OutgoingFacts DEF Send, MayTry
<1>2. PICK h \in FreshHandler : Receive(h, Outgoing(c)) /\ flight' = [flight EXCEPT ![c] = h]
  BY DEF Send
<1>3. /\ h \in Handler /\ Receive(h, Outgoing(c)) /\ req[h] = Null /\ resp[h] = Null
      /\ req' = [req EXCEPT ![h] = Outgoing(c)]
      /\ req \in [Handler -> Requests \cup {Null}]
      /\ UNCHANGED <<approval, toolCalls, resp>>
  BY <1>2 DEF Receive, FreshHandler, db, RunIInv, IInv, TypeOK, HandlersInStep, InStep
<1>4. Next /\ IInv'
  <2>1. Next
    BY <1>1, <1>3 DEF Next
  <2> QED
    BY <2>1, NextInv DEF RunIInv
<1>5. UNCHANGED <<mode, stage, ticket, result, expired, report, ending>>
  BY DEF Send
<1>6. RunTypeOK'
  BY <1>1, <1>2, <1>3, <1>4, <1>5, RunAssumption
     DEF Send, CountAttempt, RunIInv, RunTypeOK, IInv, Reports, Telemetry
<1>7. \A g \in Handler : resp[g] # Null => g # h /\ req'[g] = req[g]
  BY <1>3
<1>8. \A g \in Handler : AnswerFits(g)'
  BY <1>3, <1>7 DEF RunIInv, AnswerFits
<1>9. RequestsAreOurs'
  <2> SUFFICES ASSUME NEW g \in Handler, req'[g] # Null
               PROVE  \E d \in Run : SentBy(d, g)'
    BY DEF RequestsAreOurs
  <2>1. CASE g = h
    <3>1. req'[g] = Outgoing(c)
      BY <1>3, <2>1
    <3>2. SentBy(c, g)'
      BY <1>1, <1>5, <3>1, OutgoingFacts DEF SentBy
    <3> QED
      BY <3>2
  <2>2. CASE g # h
    <3>1. req'[g] = req[g]
      BY <1>3, <2>2
    <3> QED
      BY <1>5, <2>2, <3>1 DEF RunIInv, RequestsAreOurs, SentBy
  <2> QED
    BY <2>1, <2>2
<1>10. ASSUME NEW d \in Run PROVE Sound(d)'
  <2>1. FlightFits(d)'
    <3>1. CASE d = c
      <4>1. flight'[c] = h /\ req'[h] = Outgoing(c) /\ resp'[h] = Null
        BY <1>2, <1>3, Here DEF RunTypeOK
      <4> QED
        BY <1>1, <1>5, <3>1, <4>1 DEF FlightFits, Posting, Outgoing
    <3>2. CASE d # c
      <4>1. flight'[d] = flight[d]
        BY <1>2, <3>2, Here DEF RunTypeOK
      <4>2. flight[d] # Null => flight[d] \in Handler /\ req[flight[d]] # Null
        BY Here, OutgoingFacts, NullAssumption DEF FlightFits
      <4>3. flight[d] # Null => req'[flight[d]] = req[flight[d]]
        BY <1>3, <4>2
      <4> QED
        BY <1>3, <1>5, <4>1, <4>3, Here DEF FlightFits, Posting, Outgoing
    <3> QED
      BY <3>1, <3>2
  <2>2. StageFits(d)' /\ Waits(d)' /\ Records(d)'
    BY <1>3, <1>5, Here DEF StageFits, Waits, Records, Cleared, Executed
  <2>3. Asks(d)'
    BY <1>3, <1>5, <1>7, Here DEF Asks, Cleared, Executed
  <2> QED
    BY <2>1, <2>2, <2>3 DEF Sound
<1> QED
  BY <1>4, <1>6, <1>8, <1>9, <1>10 DEF RunIInv

(* An attempt is lost, given up, or the deadline of the wait passes.       *)
LEMMA TransportInv ==
  ASSUME RunIInv, NEW c \in Run, SendFails(c) \/ TimeOut(c) \/ Deadline(c)
  PROVE  RunIInv'
<1>1. UNCHANGED <<mode, stage, ticket, result, report, ending>> /\ UNCHANGED vars
  BY DEF SendFails, TimeOut, Deadline
<1>2. flight' = flight \/ flight' = [flight EXCEPT ![c] = Null]
  BY DEF SendFails, TimeOut, Deadline
<1>3. RunTypeOK'
  <2>1. attempts' \in [Run -> 0 .. MaxRetries]
    <3>1. attempts \in [Run -> 0 .. MaxRetries] /\ MaxRetries \in Nat
      BY Here, RunAssumption DEF RunTypeOK
    <3>2. CASE attempts' = attempts
      BY <3>1, <3>2
    <3>3. CASE attempts[c] < MaxRetries /\ CountAttempt(c)
      BY <3>1, <3>3 DEF CountAttempt
    <3> QED
      BY <3>2, <3>3 DEF SendFails, TimeOut, Deadline, MayTry
  <2>2. expired' \in [Run -> BOOLEAN]
    BY Here DEF RunTypeOK, SendFails, TimeOut, Deadline
  <2>3. TypeOK'
    BY <1>1, Here DEF RunTypeOK, TypeOK, vars
  <2>4. flight' \in [Run -> Handler \cup {Null}]
    BY <1>2, Here DEF RunTypeOK
  <2> QED
    BY <1>1, <2>1, <2>2, <2>3, <2>4, Here DEF RunTypeOK, Reports, Telemetry
<1>4. Sound(c)'
  BY <1>1, <1>2, Here
     DEF vars, RunTypeOK, Sound, FlightFits, StageFits, Waits, Asks, Records, Posting, Outgoing, Cleared, Executed
<1> QED
  BY <1>1, <1>2, <1>3, <1>4, ClientInv, Here DEF RunTypeOK

(* run_tool stops without having run the callable: nothing of the approval *)
(* is reported.                                                            *)
LEMMA StopInv ==
  ASSUME RunIInv, NEW c \in Run, NEW e \in Ending \ {"returned", "raised"},
         NEW p \in {Null, Blocked(c)},
         Stop(c, e, p), ~ Executed(c), stage[c] \notin {"report", "ended"},
         UNCHANGED <<vars, mode, expired>>,
         flight' = [flight EXCEPT ![c] = Null], attempts' \in [Run -> 0 .. MaxRetries],
         UNCHANGED ticket,
         NEW r \in Result \cup {Null}, result' = [result EXCEPT ![c] = r],
         r # Null => r.rid \in {Null, Rid[c]}
  PROVE  RunIInv'
<1>1. RunTypeOK /\ StageFits(c) /\ Records(c)
  BY Here
<1>2. /\ stage' = [stage EXCEPT ![c] = "report"] /\ ending' = [ending EXCEPT ![c] = e]
      /\ report' = [report EXCEPT ![c] = p]
  BY DEF Stop, Enter
<1>3. p # Null => p \in Reports(c) /\ p.rid = Null
  BY DEF Blocked, Telemetry, Reports
<1>4. /\ stage'[c] = "report" /\ ending'[c] = e /\ flight'[c] = Null /\ result'[c] = r
      /\ ticket'[c] = ticket[c]
  BY <1>1, <1>2 DEF RunTypeOK
<1>5. RunTypeOK'
  BY <1>1, <1>2, <1>3 DEF RunTypeOK, TypeOK, vars, Reports, Telemetry, Stage
<1>6. ~ Executed(c)'
  BY <1>4 DEF Executed
<1>7. FlightFits(c)' /\ Waits(c)' /\ Asks(c)'
  BY <1>4, <1>6 DEF FlightFits, Waits, Asks, Cleared
<1>8. StageFits(c)'
  BY <1>1, <1>2, <1>3, <1>4, <1>6 DEF StageFits, vars
<1>9. Records(c)'
  BY <1>1 DEF Records, vars
<1> QED
  BY <1>1, <1>2, <1>5, <1>7, <1>8, <1>9, ClientInv DEF Sound, RunTypeOK

(* The decision of check_tool is of this invocation: it allows only what   *)
(* the backend answered ALLOW to, asks to wait only for an approval that   *)
(* exists, and lets an approved attempt pass with the grant alone.         *)
LEMMA DecidedFacts ==
  ASSUME RunIInv, NEW c \in Run, stage[c] \in {"check", "recheck"}, Returns(c)
  PROVE  /\ Decided(c) \in Result /\ Decided(c) # Null
         /\ Decided(c).rid \in {Null, Rid[c]}
         /\ Decided(c).decision = "REQUIRE_APPROVAL" =>
              Decided(c).rid = Rid[c] /\ approval[Rid[c]] # Null
         /\ Decided(c).decision = "ALLOW" =>
              \E h \in Handler :
                /\ resp[h] # Null /\ resp[h].decision = "ALLOW"
                /\ req[h].op = "check" /\ req[h].rid = Rid[c]
         /\ stage[c] = "recheck" /\ Decided(c).decision = "ALLOW" =>
              Decided(c).reason = "APPROVAL_GRANTED"
<1>1. CASE Payload(c) = Null
  <2>1. Decided(c) = Unavailable
    BY <1>1 DEF Decided
  <2>2. Unavailable \in Result /\ Unavailable.rid = Null /\ Unavailable.decision = "UNAVAILABLE"
    BY DEF Unavailable, Result
  <2> QED
    BY <2>1, <2>2, NoneFacts
<1>2. CASE Payload(c) # Null
  <2> DEFINE f == flight[c]
  <2>1. f # Null /\ f \in Handler /\ resp[f].http \in {200, 201} /\ Payload(c) = resp[f]
    BY <1>2, Here DEF Payload
  <2>2. resp[f] # Null
    BY <1>2, <2>1
  <2>3. req[f] = Body[c] /\ req[f].op = "check" /\ req[f].rid = Rid[c] /\ Rid[c] \in RequestId
    BY <2>1, Here, BodyFacts DEF FlightFits, Outgoing
  <2>4. resp[f].http = 200
    BY <2>1, <2>2, <2>3 DEF RunIInv, IInv, HandlersInStep, InStep
  <2>5. AnswerFits(f)
    BY <2>1 DEF RunIInv
  <2>6. Decided(c) = [decision |-> resp[f].decision, reason |-> resp[f].reason, rid |-> resp[f].rid]
    BY <1>2, <2>1 DEF Decided
  <2>7. Decided(c) \in Result
    BY <2>2, <2>3, <2>4, <2>5, <2>6 DEF AnswerFits, Result
  <2>8. stage[c] = "recheck" /\ resp[f].decision = "ALLOW" => resp[f].reason = "APPROVAL_GRANTED"
    BY <2>1, <2>2, <2>4, Here DEF FlightFits
  <2>9. /\ resp[f].rid \in {Null, Rid[c]}
        /\ resp[f].decision = "REQUIRE_APPROVAL" => resp[f].rid = Rid[c] /\ approval[Rid[c]] # Null
    BY <2>2, <2>3, <2>4, <2>5 DEF AnswerFits
  <2> QED
    BY <2>1, <2>2, <2>3, <2>6, <2>7, <2>8, <2>9, NoneFacts
<1> QED
  BY <1>1, <1>2

(* run_tool goes on: to wait, to ask again, or to run the callable.        *)
LEMMA GoOnInv ==
  ASSUME RunIInv, NEW c \in Run, NEW s \in {"poll", "recheck", "execute"},
         Enter(c, s), ~ Executed(c), stage[c] \in {"check", "poll", "recheck"},
         UNCHANGED <<vars, mode, expired, report, ending>>,
         flight' = [flight EXCEPT ![c] = Null], attempts' \in [Run -> 0 .. MaxRetries],
         NEW t \in Result \cup {Null}, ticket' = [ticket EXCEPT ![c] = t],
         NEW r \in Result \cup {Null}, result' = [result EXCEPT ![c] = r],
         r # Null => r.rid \in {Null, Rid[c]},
         t # Null => t.rid = Rid[c] /\ approval[Rid[c]] # Null,
         s # "execute" => t # Null,
         s = "recheck" => approval[Rid[c]].status = "approved",
         s = "execute" => r # Null,
         s = "execute" /\ t # Null =>
           r.reason = "APPROVAL_GRANTED" /\ approval[Rid[c]].status = "approved",
         s = "execute" /\ ~ mode[c].failOpen =>
           \E h \in Handler :
             /\ resp[h] # Null /\ resp[h].decision = "ALLOW"
             /\ req[h].op = "check" /\ req[h].rid = Rid[c]
  PROVE  RunIInv'
<1>1. RunTypeOK /\ StageFits(c) /\ Records(c)
  BY Here
<1>2. stage' = [stage EXCEPT ![c] = s]
  BY DEF Enter
<1>3. /\ stage'[c] = s /\ flight'[c] = Null /\ result'[c] = r /\ ticket'[c] = t
      /\ ending' = ending /\ report' = report /\ mode' = mode
  BY <1>1, <1>2 DEF RunTypeOK
<1>4. RunTypeOK'
  BY <1>1, <1>2, <1>3 DEF RunTypeOK, TypeOK, vars, Reports, Telemetry, Stage
<1>5. ~ Executed(c)'
  BY <1>3 DEF Executed
<1>6. FlightFits(c)' /\ Waits(c)' /\ Asks(c)'
  BY <1>3, <1>5 DEF FlightFits, Waits, Asks, Cleared, vars
<1>7. StageFits(c)'
  BY <1>1, <1>3, <1>5 DEF StageFits, Executed, vars
<1>8. Records(c)'
  BY <1>1 DEF Records, vars
<1> QED
  BY <1>1, <1>2, <1>3, <1>4, <1>6, <1>7, <1>8, ClientInv DEF Sound, RunTypeOK

(* What every stage before the callable has in common. *)
LEMMA NotYet ==
  ASSUME RunIInv, NEW c \in Run, stage[c] \in {"check", "poll", "recheck", "execute"}
  PROVE  /\ ~ Executed(c)
         /\ stage[c] \in {"poll", "execute"} => flight[c] = Null
         /\ flight = [flight EXCEPT ![c] = flight[c]]
         /\ ticket = [ticket EXCEPT ![c] = ticket[c]]
         /\ result = [result EXCEPT ![c] = result[c]]
         /\ attempts \in [Run -> 0 .. MaxRetries]
         /\ result[c] # Null => result[c].rid \in {Null, Rid[c]}
BY Here DEF StageFits, FlightFits, Posting, RunTypeOK

LEMMA HangupFacts ==
  ASSUME RunIInv, NEW c \in Run, Hangup(c)
  PROVE  flight' = [flight EXCEPT ![c] = Null] /\ attempts' \in [Run -> 0 .. MaxRetries]
BY RunAssumption, Here DEF Hangup, RunTypeOK

(* The preflight returns.                                                  *)
LEMMA CheckReturnsInv ==
  ASSUME RunIInv, NEW c \in Run, CheckReturns(c)
  PROVE  RunIInv'
<1> DEFINE r == Decided(c)
<1>1. /\ stage[c] = "check" /\ Returns(c) /\ Hangup(c)
      /\ result' = [result EXCEPT ![c] = r]
      /\ UNCHANGED <<vars, mode, expired>>
  BY DEF CheckReturns
<1>2. /\ r \in Result /\ r # Null /\ r.rid \in {Null, Rid[c]}
      /\ r.decision = "REQUIRE_APPROVAL" => r.rid = Rid[c] /\ approval[Rid[c]] # Null
      /\ r.decision = "ALLOW" =>
           \E h \in Handler :
             /\ resp[h] # Null /\ resp[h].decision = "ALLOW"
             /\ req[h].op = "check" /\ req[h].rid = Rid[c]
  BY <1>1, DecidedFacts
<1>3. /\ ~ Executed(c) /\ ticket[c] = Null /\ ticket = [ticket EXCEPT ![c] = ticket[c]]
  BY <1>1, NotYet, Here DEF StageFits
<1>4. flight' = [flight EXCEPT ![c] = Null] /\ attempts' \in [Run -> 0 .. MaxRetries]
  BY <1>1, HangupFacts
<1> HIDE DEF r
<1>5. CASE Stop(c, "policy_blocked", Blocked(c)) /\ UNCHANGED ticket
  BY <1>1, <1>2, <1>3, <1>4, <1>5, StopInv DEF Ending
<1>6. CASE Stop(c, "approval_required", Null) /\ UNCHANGED ticket
  BY <1>1, <1>2, <1>3, <1>4, <1>6, StopInv DEF Ending
<1>7. CASE Stop(c, "policy_unavailable", Blocked(c)) /\ UNCHANGED ticket
  BY <1>1, <1>2, <1>3, <1>4, <1>7, StopInv DEF Ending
<1>8. CASE /\ r.decision = "REQUIRE_APPROVAL" /\ ticket' = [ticket EXCEPT ![c] = r]
           /\ Enter(c, "poll") /\ UNCHANGED <<report, ending>>
  BY <1>1, <1>2, <1>3, <1>4, <1>8, GoOnInv
<1>9. CASE /\ r.decision = "ALLOW" \/ FailsOpen(c, r)
           /\ Enter(c, "execute") /\ UNCHANGED <<ticket, report, ending>>
  <2>1. ~ mode[c].failOpen => r.decision = "ALLOW"
    BY <1>9 DEF FailsOpen
  <2>2. ticket' = [ticket EXCEPT ![c] = Null]
    BY <1>3, <1>9
  <2> QED
    BY <1>1, <1>2, <1>3, <1>4, <1>9, <2>1, <2>2, GoOnInv
<1> QED
  BY <1>5, <1>6, <1>7, <1>8, <1>9 DEF CheckReturns, r

(* The wait ends without a decision, or with one.                          *)
LEMMA PollInv ==
  ASSUME RunIInv, NEW c \in Run, GiveUp(c) \/ Poll(c) \/ PollFails(c)
  PROVE  RunIInv'
<1> DEFINE r == result[c]
           t == ticket[c]
<1>1. stage[c] = "poll" /\ UNCHANGED <<vars, mode, flight, attempts, ticket, result, expired>>
  BY DEF GiveUp, Poll, PollFails
<1>2. /\ stage[c] = "poll" /\ ~ Executed(c) /\ t \in Result /\ t # Null /\ r \in Result \cup {Null}
      /\ ticket[c].rid = Rid[c] /\ t.rid = Rid[c] /\ approval[Rid[c]] # Null
      /\ flight' = [flight EXCEPT ![c] = Null] /\ attempts' \in [Run -> 0 .. MaxRetries]
      /\ ticket' = [ticket EXCEPT ![c] = t] /\ result' = [result EXCEPT ![c] = r]
      /\ r # Null => r.rid \in {Null, Rid[c]}
      /\ UNCHANGED <<vars, mode, expired>> /\ UNCHANGED ticket
  BY <1>1, NotYet, Here DEF StageFits
<1> HIDE DEF r, t
<1>3. ASSUME NEW e \in Ending \ {"returned", "raised"}, NEW p \in {Null, Blocked(c)}, Stop(c, e, p)
      PROVE  RunIInv'
  BY <1>2, <1>3, StopInv
<1>4. CASE GiveUp(c) \/ PollFails(c)
  BY <1>3, <1>4 DEF GiveUp, PollFails, Ending
<1>5. CASE Poll(c)
  <2>1. CASE ShownStatus(approval[Rid[c]]) = "approved"
    <3>1. approval[Rid[c]].status = "approved"
      BY <2>1 DEF ShownStatus
    <3>2. Enter(c, "recheck") /\ UNCHANGED <<report, ending>>
      BY <1>2, <1>5, <2>1 DEF Poll
    <3> QED
      BY <1>2, <3>1, <3>2, GoOnInv
  <2>2. CASE ShownStatus(approval[Rid[c]]) # "approved"
    BY <1>2, <1>3, <1>5, <2>2 DEF Poll, Ending
  <2> QED
    BY <2>1, <2>2
<1> QED
  BY <1>4, <1>5

(* The revalidation returns: only the grant lets the callable run.         *)
LEMMA RecheckReturnsInv ==
  ASSUME RunIInv, NEW c \in Run, RecheckReturns(c)
  PROVE  RunIInv'
<1> DEFINE r == Decided(c)
<1>1. /\ stage[c] = "recheck" /\ Returns(c) /\ Hangup(c)
      /\ result' = [result EXCEPT ![c] = r]
      /\ UNCHANGED <<vars, mode, ticket, expired>>
  BY DEF RecheckReturns
<1>2. /\ r \in Result /\ r # Null /\ r.rid \in {Null, Rid[c]}
      /\ r.decision = "ALLOW" =>
           /\ r.reason = "APPROVAL_GRANTED"
           /\ \E h \in Handler :
                /\ resp[h] # Null /\ resp[h].decision = "ALLOW"
                /\ req[h].op = "check" /\ req[h].rid = Rid[c]
  BY <1>1, DecidedFacts
<1>3. /\ ~ Executed(c) /\ ticket[c] \in Result /\ ticket[c] # Null /\ ticket[c].rid = Rid[c]
      /\ approval[Rid[c]] # Null /\ approval[Rid[c]].status = "approved"
      /\ ticket' = [ticket EXCEPT ![c] = ticket[c]]
  BY <1>1, NotYet, Here DEF StageFits
<1>4. flight' = [flight EXCEPT ![c] = Null] /\ attempts' \in [Run -> 0 .. MaxRetries]
  BY <1>1, HangupFacts
<1> HIDE DEF r
<1>5. CASE Stop(c, "policy_unavailable", Null) \/ Stop(c, "policy_blocked", Null)
  BY <1>1, <1>2, <1>3, <1>4, <1>5, StopInv DEF Ending
<1>6. CASE r.decision = "ALLOW" /\ Enter(c, "execute") /\ UNCHANGED <<report, ending>>
  BY <1>1, <1>2, <1>3, <1>4, <1>6, GoOnInv
<1>7. CASE Enter(c, "poll") /\ UNCHANGED <<report, ending>>
  BY <1>1, <1>2, <1>3, <1>4, <1>7, GoOnInv
<1> QED
  BY <1>5, <1>6, <1>7 DEF RecheckReturns, r

(* The callable runs, once: what is reported of it names the approval that *)
(* let it run and the outcome it had.                                      *)
LEMMA ExecuteInv ==
  ASSUME RunIInv, NEW c \in Run, Execute(c)
  PROVE  RunIInv'
<1>1. /\ stage[c] = "execute"
      /\ UNCHANGED <<vars, mode, flight, attempts, ticket, result, expired>>
  BY DEF Execute
<1>2. /\ ~ Executed(c) /\ flight[c] = Null /\ result[c] # Null /\ result[c].rid \in {Null, Rid[c]}
      /\ RunTypeOK /\ StageFits(c) /\ Waits(c) /\ Asks(c) /\ Records(c)
  BY <1>1, NotYet, Here DEF StageFits
<1>3. PICK e \in {"returned", "raised"}, s \in {"SUCCESS", "ERROR"} :
        (s = "SUCCESS" <=> e = "returned") /\ Stop(c, e, Telemetry(c, s, result[c].rid))
  BY DEF Execute
<1> DEFINE p == Telemetry(c, s, result[c].rid)
<1>4. p \in Reports(c) /\ p.status = s
  BY <1>2 DEF Reports, Telemetry, ExecutedStatus
<1> HIDE DEF p
<1>5. /\ stage' = [stage EXCEPT ![c] = "report"] /\ ending' = [ending EXCEPT ![c] = e]
      /\ report' = [report EXCEPT ![c] = p]
  BY <1>3 DEF Stop, Enter, p
<1>6. \A d \in Run : report'[d] \in Reports(d) \cup {Null}
  BY <1>2, <1>4, <1>5 DEF RunTypeOK, Reports, Telemetry
<1>7. RunTypeOK'
  BY <1>1, <1>2, <1>5, <1>6 DEF RunTypeOK, TypeOK, vars, Reports, Telemetry, Stage, Ending
<1>8. stage'[c] = "report" /\ ending'[c] = e /\ Executed(c)' /\ Cleared(c)
  BY <1>1, <1>2, <1>5 DEF RunTypeOK, Executed, Cleared
<1>9. FlightFits(c)' /\ Waits(c)' /\ Asks(c)'
  BY <1>1, <1>2, <1>8 DEF FlightFits, Waits, Asks, vars
<1>10. report'[c] = p
  BY <1>2, <1>5 DEF RunTypeOK
<1>11. StageFits(c)'
  BY <1>1, <1>2, <1>3, <1>4, <1>8, <1>10 DEF StageFits, vars
<1>12. Records(c)'
  BY <1>1, <1>2 DEF Records, vars
<1> QED
  BY <1>1, <1>2, <1>5, <1>7, <1>9, <1>11, <1>12, ClientInv DEF Sound, RunTypeOK

(* The span ends.                                                          *)
LEMMA FinishInv ==
  ASSUME RunIInv, NEW c \in Run, Finish(c)
  PROVE  RunIInv'
<1>1. /\ stage[c] = "report" /\ Enter(c, "ended") /\ Hangup(c)
      /\ UNCHANGED <<vars, mode, ticket, result, expired, report, ending>>
  BY DEF Finish
<1>2. flight' = [flight EXCEPT ![c] = Null] /\ attempts' \in [Run -> 0 .. MaxRetries]
  BY <1>1, HangupFacts
<1>3. RunTypeOK /\ StageFits(c) /\ Waits(c) /\ Asks(c) /\ Records(c)
  BY Here
<1>4. stage' = [stage EXCEPT ![c] = "ended"] /\ stage'[c] = "ended" /\ flight'[c] = Null
  BY <1>1, <1>2, <1>3 DEF Enter, RunTypeOK
<1>5. RunTypeOK'
  BY <1>1, <1>2, <1>3, <1>4 DEF RunTypeOK, TypeOK, vars, Reports, Telemetry, Stage
<1>6. FlightFits(c)' /\ StageFits(c)' /\ Waits(c)' /\ Asks(c)' /\ Records(c)'
  BY <1>1, <1>3, <1>4 DEF FlightFits, StageFits, Waits, Asks, Records, Cleared, Executed, vars
<1> QED
  BY <1>1, <1>2, <1>3, <1>4, <1>5, <1>6, ClientInv DEF Sound, RunTypeOK

-----------------------------------------------------------------------------
(* Every step of the SDK and of the backend preserves the invariant.       *)
THEOREM RunNextInv == RunIInv /\ [RunNext]_runVars => RunIInv'
<1> SUFFICES ASSUME RunIInv, [RunNext]_runVars PROVE RunIInv'
  OBVIOUS
<1>1. ASSUME NEW c \in Run, Step(c) \/ PollFails(c) \/ Deadline(c)
      PROVE  RunIInv'
  BY <1>1, SendInv, TransportInv, CheckReturnsInv, PollInv, RecheckReturnsInv, ExecuteInv, FinishInv DEF Step
<1>2. CASE Backend /\ UNCHANGED client
  BY <1>2, BackendInv
<1>3. CASE UNCHANGED runVars
  <2>1. IInv'
    BY <1>3, NextInv DEF runVars, RunIInv
  <2>2. RunTypeOK'
    BY <1>3, <2>1 DEF runVars, client, RunIInv, RunTypeOK, IInv, Reports, Telemetry
  <2>3. (\A h \in Handler : AnswerFits(h)') /\ RequestsAreOurs'
    BY <1>3 DEF runVars, vars, client, RunIInv, AnswerFits, RequestsAreOurs, SentBy
  <2>4. ASSUME NEW c \in Run PROVE Sound(c)'
    BY <1>3 DEF runVars, vars, client, RunIInv, Sound, FlightFits, StageFits, Waits, Asks, Records,
                Posting, Outgoing, Cleared, Executed
  <2> QED
    BY <2>1, <2>2, <2>3, <2>4 DEF RunIInv
<1> QED
  BY <1>1, <1>2, <1>3 DEF RunNext, Backend

(* Every reachable state of run_tool against the backend satisfies it.     *)
THEOREM RunInvariance == RunSpec => []RunIInv
BY RunInitInv, RunNextInv, PTL DEF RunSpec

(* run_tool uses the backend as Approvals allows any caller to, so all     *)
(* that is proved of Approvals holds of the two together.                  *)
THEOREM RunImplementsApprovals == RunSpec => Spec
<1>1. RunInit => Init
  BY DEF RunInit
<1>2. RunIInv /\ [RunNext]_runVars => [Next]_vars
  <2> SUFFICES ASSUME RunIInv, [RunNext]_runVars PROVE [Next]_vars
    OBVIOUS
  <2>1. ASSUME NEW c \in Run, Step(c) \/ PollFails(c) \/ Deadline(c)
        PROVE  [Next]_vars
    <3>1. CASE Send(c)
      BY <3>1, SendInv
    <3>2. CASE ~ Send(c)
      BY <2>1, <3>2 DEF Step, SendFails, TimeOut, CheckReturns, GiveUp, Poll, RecheckReturns, Execute,
                        Finish, PollFails, Deadline
    <3> QED
      BY <3>1, <3>2
  <2>2. CASE Backend
    BY <2>2, BackendIsNext
  <2>3. CASE UNCHANGED runVars
    BY <2>3 DEF runVars
  <2> QED
    BY <2>1, <2>2, <2>3 DEF RunNext, Backend
<1> QED
  BY <1>1, <1>2, RunInvariance, PTL DEF RunSpec, Spec

(* An invocation that was told to wait runs its callable only with an      *)
(* approval a reviewer gave to its own request.                            *)
THEOREM WaitingIsForApproval == RunSpec => []WaitIsForApproval
<1>1. RunIInv => WaitIsForApproval
  BY DEF RunIInv, Sound, Waits, WaitIsForApproval
<1> QED
  BY <1>1, RunInvariance, PTL

(* In fail-closed mode the callable runs only after an ALLOW to an attempt *)
(* of this very invocation.                                                *)
THEOREM ClosedModeIsClosed == RunSpec => []ClosedModeAsks
<1>1. RunIInv => ClosedModeAsks
  BY DEF RunIInv, Sound, Asks, ClosedModeAsks
<1> QED
  BY <1>1, RunInvariance, PTL

(* The record that uses up an approval is of an execution that took place, *)
(* with the outcome it had; the locals of run_tool keep their type.        *)
THEOREM RecordsAreTrue == RunSpec => []RecordsAreExecutions
<1>1. RunIInv => RecordsAreExecutions
  BY DEF RunIInv, Sound, Records, RecordsAreExecutions
<1> QED
  BY <1>1, RunInvariance, PTL

=============================================================================
