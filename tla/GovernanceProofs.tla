-------------------------- MODULE GovernanceProofs --------------------------
(***************************************************************************)
(* Proofs, for every value of the constants, of the safety properties of   *)
(* Governance.  A handler works on the tables of its own module; what it   *)
(* relies on between two steps can only be disturbed there, and by the     *)
(* deletion of a project.  So each part of the invariant is proved of the  *)
(* handlers of one module, with a frame lemma for all the others.          *)
(***************************************************************************)
EXTENDS Governance, FiniteSetTheorems, SequenceTheorems, TLAPS

-----------------------------------------------------------------------------
(* Requests in progress *)

Working == {"check", "scan", "commit"}

HandlersFit ==
  /\ pc \in [Handler -> {"idle", "load", "check", "scan", "commit", "done"}]
  /\ req = [h \in Handler |-> req[h]] /\ work = [h \in Handler |-> work[h]]
  /\ \A h \in Handler : pc[h] # "idle" => req[h] \in Requests
  /\ overlap \in BOOLEAN /\ workload \in Workloads

(* A step of request h moves it on, with something in its session, or to   *)
(* its answer, and leaves the other requests alone.                        *)
Moves(h) ==
  /\ Busy(h) /\ req' = req /\ overlap' = overlap
  /\ \/ \E l \in Working : \E w :
          pc' = [pc EXCEPT ![h] = l] /\ work' = [work EXCEPT ![h] = w] /\ resp' = resp
     \/ \E c, row : /\ pc' = [pc EXCEPT ![h] = "done"] /\ work' = [work EXCEPT ![h] = Null]
                    /\ resp' = [resp EXCEPT ![h] = [http |-> c, row |-> row]]

LEMMA ContinueMoves ==
  ASSUME NEW h \in Handler, pc[h] \in {"load", "check", "scan", "commit"}, NEW l \in Working, NEW w,
         Continue(h, l, w)
  PROVE  Moves(h)
BY DEF Continue, Moves, Busy

LEMMA RespondMoves ==
  ASSUME NEW h \in Handler, pc[h] \in {"load", "check", "scan", "commit"}, NEW c, NEW row,
         Respond(h, c, row)
  PROVE  Moves(h)
BY DEF Respond, Moves, Busy

PricingOps == {"price", "reprice"}
EvaluationOps == {"dataset", "case", "run", "compare", "review"}
PrivacyOps == {"policy", "retention", "wish", "progress", "export", "anonymize"}
KeyOps == {"key", "revoke", "delete", "ingest"}
ProjectOps == {"create", "edit", "bump", "status"}

LEMMA PricingMoves ==
  ASSUME NEW h \in Handler, PricingServe(h)
  PROVE  Moves(h) /\ req[h].op \in PricingOps
<1>1. CASE PriceCheck(h)
  BY <1>1, ContinueMoves, RespondMoves DEF PriceCheck, Working, PricingOps
<1>2. CASE PriceInsert(h)
  BY <1>2, RespondMoves DEF PriceInsert, PricingOps
<1>3. CASE RepriceLoad(h)
  BY <1>3, ContinueMoves, RespondMoves DEF RepriceLoad, Working, PricingOps
<1>4. CASE RepriceCheck(h)
  BY <1>4, ContinueMoves, RespondMoves DEF RepriceCheck, Working, PricingOps
<1>5. CASE RepriceCommit(h)
  BY <1>5, RespondMoves DEF RepriceCommit, PricingOps
<1> QED
  BY <1>1, <1>2, <1>3, <1>4, <1>5 DEF PricingServe

LEMMA EvaluationsMoves ==
  ASSUME NEW h \in Handler, EvaluationsServe(h)
  PROVE  Moves(h) /\ req[h].op \in EvaluationOps
<1> USE DEF Working, EvaluationOps, Evaluating
<1>1. CASE DatasetLoad(h)
  BY <1>1, ContinueMoves, RespondMoves DEF DatasetLoad
<1>2. CASE CreateDataset(h)
  BY <1>2, RespondMoves DEF CreateDataset
<1>3. CASE AddCase(h)
  BY <1>3, RespondMoves DEF AddCase
<1>4. CASE CreateRun(h)
  BY <1>4, ContinueMoves, RespondMoves DEF CreateRun
<1>5. CASE StartRun(h)
  BY <1>5, ContinueMoves DEF StartRun, FailRun
<1>6. CASE RunCase(h)
  BY <1>6, ContinueMoves DEF RunCase, FailRun, Adds
<1>7. CASE CompleteRun(h)
  BY <1>7, ContinueMoves DEF CompleteRun
<1>8. CASE StoreRun(h)
  BY <1>8, RespondMoves DEF StoreRun
<1>9. CASE CompareFirst(h)
  BY <1>9, ContinueMoves DEF CompareFirst
<1>10. CASE CompareRuns(h)
  BY <1>10, RespondMoves DEF CompareRuns
<1>11. CASE ReviewLoad(h)
  BY <1>11, ContinueMoves, RespondMoves DEF ReviewLoad
<1>12. CASE ReviewCommit(h)
  BY <1>12, RespondMoves DEF ReviewCommit
<1> QED
  BY <1>1, <1>2, <1>3, <1>4, <1>5, <1>6, <1>7, <1>8, <1>9, <1>10, <1>11, <1>12 DEF EvaluationsServe

LEMMA PrivacyMoves ==
  ASSUME NEW h \in Handler, PrivacyServe(h)
  PROVE  Moves(h) /\ req[h].op \in PrivacyOps
<1> USE DEF Working, PrivacyOps
<1>1. CASE PolicyLoad(h) \/ RetentionLoad(h)
  BY <1>1, ContinueMoves, RespondMoves DEF PolicyLoad, RetentionLoad
<1>2. CASE PolicyCommit(h)
  BY <1>2, RespondMoves DEF PolicyCommit
<1>3. CASE RunRetention(h)
  BY <1>3, RespondMoves DEF RunRetention
<1>4. CASE CreateWish(h)
  BY <1>4, RespondMoves DEF CreateWish
<1>5. CASE WishLoad(h)
  BY <1>5, ContinueMoves, RespondMoves DEF WishLoad
<1>6. CASE WishCommit(h)
  BY <1>6, RespondMoves DEF WishCommit
<1>7. CASE Export(h)
  BY <1>7, RespondMoves DEF Export
<1>8. CASE Anonymize(h)
  BY <1>8, RespondMoves DEF Anonymize
<1> QED
  BY <1>1, <1>2, <1>3, <1>4, <1>5, <1>6, <1>7, <1>8 DEF PrivacyServe

LEMMA KeysMoves ==
  ASSUME NEW h \in Handler, KeysServe(h)
  PROVE  Moves(h) /\ req[h].op \in KeyOps
<1> USE DEF Working, KeyOps, Ingesting
<1>1. CASE NewKeyLoad(h) \/ KeyLoad(h)
  BY <1>1, ContinueMoves, RespondMoves DEF NewKeyLoad, KeyLoad
<1>2. CASE CreateKey(h)
  BY <1>2, RespondMoves DEF CreateKey
<1>3. CASE Revoke(h) \/ Delete(h)
  BY <1>3, RespondMoves DEF Revoke, Delete
<1>4. CASE Resolve(h)
  BY <1>4, ContinueMoves, RespondMoves DEF Resolve
<1>5. CASE TouchKey(h)
  BY <1>5, ContinueMoves, RespondMoves DEF TouchKey
<1>6. CASE Admit(h)
  BY <1>6, ContinueMoves, RespondMoves DEF Admit
<1>7. CASE StoreTrace(h)
  BY <1>7, RespondMoves DEF StoreTrace
<1> QED
  BY <1>1, <1>2, <1>3, <1>4, <1>5, <1>6, <1>7 DEF KeysServe

LEMMA ProjectsMoves ==
  ASSUME NEW h \in Handler, ProjectsServe(h)
  PROVE  Moves(h) /\ req[h].op \in ProjectOps
<1> USE DEF Working, ProjectOps
<1>1. CASE CreateLoad(h)
  BY <1>1, ContinueMoves, RespondMoves DEF CreateLoad
<1>2. CASE CreateCommit(h)
  BY <1>2, RespondMoves DEF CreateCommit
<1>3. CASE ChangeLoad(h)
  BY <1>3, ContinueMoves, RespondMoves DEF ChangeLoad
<1>4. CASE ChangeCommit(h)
  BY <1>4, RespondMoves DEF ChangeCommit
<1> QED
  BY <1>1, <1>2, <1>3, <1>4 DEF ProjectsServe

LEMMA DeletionsMoves ==
  ASSUME NEW h \in Handler, DeletionsServe(h)
  PROVE  Moves(h) /\ req[h].op = "drop"
<1>1. CASE DropLoad(h)
  BY <1>1, ContinueMoves, RespondMoves DEF DropLoad, Working
<1>2. CASE Drop(h)
  BY <1>2, RespondMoves DEF Drop
<1> QED
  BY <1>1, <1>2 DEF DeletionsServe

LEMMA AbortMoves ==
  ASSUME NEW h \in Handler, Abort(h), HandlersFit
  PROVE  Moves(h)
BY RespondMoves DEF Abort, Die, Busy, HandlersFit

-----------------------------------------------------------------------------
(* What a step leaves alone *)

(* Who is at work on one of ops was so before, with the same session.      *)
Untouched(ops) ==
  \A g \in Handler :
    pc'[g] \in Working /\ req'[g].op \in ops =>
      pc'[g] = pc[g] /\ req'[g] = req[g] /\ work'[g] = work[g]

(* Nothing but the requests that come and go, and the clock.               *)
Aside ==
  /\ UNCHANGED <<pricing, evaluations, privacy, keys, catalog, log, workload>>
  /\ now' = now \/ now' = now + 1
  /\ \A g \in Handler : pc'[g] \in Working => pc'[g] = pc[g] /\ req'[g] = req[g] /\ work'[g] = work[g]

LEMMA MovesOne ==
  ASSUME HandlersFit, NEW h \in Handler, Moves(h), workload' = workload
  PROVE  /\ HandlersFit'
         /\ pc'[h] \in Working \cup {"done"} /\ req'[h] = req[h] /\ req[h] \in Requests
         /\ \A g \in Handler : g # h => pc'[g] = pc[g] /\ req'[g] = req[g] /\ work'[g] = work[g]
         /\ \A ops : req[h].op \notin ops => Untouched(ops)
<1>1. \/ \E l \in Working : \E w : pc' = [pc EXCEPT ![h] = l] /\ work' = [work EXCEPT ![h] = w]
      \/ pc' = [pc EXCEPT ![h] = "done"] /\ work' = [work EXCEPT ![h] = Null]
  BY DEF Moves
<1>2. \E l \in Working \cup {"done"} : \E w : pc' = [pc EXCEPT ![h] = l] /\ work' = [work EXCEPT ![h] = w]
  BY <1>1
<1>3. PICK l \in Working \cup {"done"} :
        \E w : pc' = [pc EXCEPT ![h] = l] /\ work' = [work EXCEPT ![h] = w]
  BY <1>2
<1>4. PICK w : pc' = [pc EXCEPT ![h] = l] /\ work' = [work EXCEPT ![h] = w]
  BY <1>3
<1>5. req' = req /\ overlap' = overlap /\ Busy(h)
  BY DEF Moves
<1>6. pc'[h] = l /\ \A g \in Handler : g # h => pc'[g] = pc[g] /\ work'[g] = work[g]
  BY <1>4 DEF HandlersFit
<1>7. pc' \in [Handler -> {"idle", "load", "check", "scan", "commit", "done"}]
  BY <1>4 DEF HandlersFit, Working
<1>8. req' = [g \in Handler |-> req'[g]] /\ work' = [g \in Handler |-> work'[g]]
  BY <1>4, <1>5 DEF HandlersFit
<1>9. req[h] \in Requests
  BY <1>5 DEF HandlersFit, Busy
<1>10. HandlersFit'
  BY <1>5, <1>6, <1>7, <1>8, <1>9 DEF HandlersFit
<1>11. ASSUME NEW ops, req[h].op \notin ops PROVE Untouched(ops)
  BY <1>5, <1>6, <1>11 DEF Untouched
<1> QED
  BY <1>5, <1>6, <1>9, <1>10, <1>11

LEMMA ArriveAside ==
  ASSUME HandlersFit, NEW h \in Handler, NEW q \in workload.requests, Arrive(h, q)
  PROVE  Aside /\ HandlersFit'
<1>1. /\ pc' = [pc EXCEPT ![h] = "load"] /\ req' = [req EXCEPT ![h] = q] /\ work' = work
      /\ overlap' \in BOOLEAN
      /\ UNCHANGED <<ledger, pricing, evaluations, privacy, keys, catalog, workload>>
  BY DEF Arrive, Receive
<1>2. q \in Requests
  BY GovernanceAssumption DEF HandlersFit
<1> QED
  BY <1>1, <1>2 DEF Aside, HandlersFit, ledger, Working

(* Every step is one of the handlers of a module, or aside.                *)
LEMMA Steps ==
  ASSUME HandlersFit, [Next]_vars
  PROVE  /\ HandlersFit'
         /\ \/ Aside
            \/ \E h \in Handler :
                 /\ Moves(h)
                 /\ \/ PricingServe(h) /\ UNCHANGED <<evaluations, privacy, keys, catalog, workload>>
                    \/ EvaluationsServe(h) /\ UNCHANGED <<privacy, keys, catalog, workload>>
                    \/ PrivacyServe(h) /\ UNCHANGED <<pricing, evaluations, keys, catalog, workload>>
                    \/ KeysServe(h) /\ UNCHANGED <<pricing, evaluations, catalog, workload>>
                    \/ ProjectsServe(h) /\ UNCHANGED <<pricing, evaluations, privacy, keys, workload>>
                    \/ DeletionsServe(h) /\ UNCHANGED workload
<1>1. CASE UNCHANGED vars
  BY <1>1 DEF vars, handlers, ledger, HandlersFit, Aside
<1>2. CASE \E h \in Handler, q \in workload.requests : Arrive(h, q)
  BY <1>2, ArriveAside
<1>3. CASE \E h \in Handler : Abort(h)
  <2>1. PICK h \in Handler : Abort(h)
    BY <1>3
  <2>2. /\ UNCHANGED <<ledger, pricing, evaluations, privacy, keys, catalog, workload>>
        /\ pc' = [pc EXCEPT ![h] = "done"] /\ req' = req
    BY <2>1 DEF Abort, Die, Respond
  <2>3. HandlersFit' /\ \A g \in Handler : g # h => pc'[g] = pc[g] /\ work'[g] = work[g]
    BY <2>1, <2>2, AbortMoves, MovesOne
  <2>4. pc'[h] \notin Working
    BY <2>2 DEF HandlersFit, Working
  <2> QED
    BY <2>2, <2>3, <2>4 DEF Aside, ledger
<1>4. CASE Tick
  BY <1>4 DEF Tick, TimePasses, handlers, HandlersFit, Aside
<1>5. CASE \E h \in Handler : PricingServe(h) /\ UNCHANGED <<evaluations, privacy, keys, catalog, workload>>
  BY <1>5, PricingMoves, MovesOne
<1>6. CASE \E h \in Handler : EvaluationsServe(h) /\ UNCHANGED <<privacy, keys, catalog, workload>>
  BY <1>6, EvaluationsMoves, MovesOne
<1>7. CASE \E h \in Handler : PrivacyServe(h) /\ UNCHANGED <<pricing, evaluations, keys, catalog, workload>>
  BY <1>7, PrivacyMoves, MovesOne
<1>8. CASE \E h \in Handler : KeysServe(h) /\ UNCHANGED <<pricing, evaluations, catalog, workload>>
  BY <1>8, KeysMoves, MovesOne
<1>9. CASE \E h \in Handler : ProjectsServe(h) /\ UNCHANGED <<pricing, evaluations, privacy, keys, workload>>
  BY <1>9, ProjectsMoves, MovesOne
<1>10. CASE \E h \in Handler : DeletionsServe(h) /\ UNCHANGED workload
  BY <1>10, DeletionsMoves, MovesOne
<1> QED
  BY <1>1, <1>2, <1>3, <1>4, <1>5, <1>6, <1>7, <1>8, <1>9, <1>10 DEF Next

LEMMA AlwaysHandlersFit == Spec => []HandlersFit
<1>1. Init => HandlersFit
  BY DEF Init, HandlersInit, HandlersFit
<1>2. HandlersFit /\ [Next]_vars => HandlersFit'
  BY Steps
<1> QED
  BY <1>1, <1>2, PTL DEF Spec

(* While no two requests overlapped, one is in progress at most, and no    *)
(* step of another can come between.                                       *)
OneAtATime == Quiet => \A g, h \in Handler : Busy(g) /\ Busy(h) => g = h

LEMMA QuietSteps ==
  ASSUME HandlersFit, OneAtATime, [Next]_vars, Quiet'
  PROVE  /\ Quiet
         /\ \A h \in Handler : Moves(h) => \A g \in Handler : g # h => ~ Busy(g)
         /\ \A g \in Handler : pc'[g] = "load" => pc[g] = "load" \/ \A h \in Handler : ~ Busy(h)
<1>1. CASE UNCHANGED vars
  BY <1>1 DEF vars, handlers, Moves, OneAtATime, Quiet
<1>2. CASE \E h \in Handler, q \in workload.requests : Arrive(h, q)
  <2>1. PICK h \in Handler, q \in workload.requests : Arrive(h, q)
    BY <1>2
  <2> QED
    BY <2>1 DEF Arrive, Receive, Moves, Busy, HandlersFit, Quiet
<1>3. CASE Tick
  BY <1>3 DEF Tick, handlers, Moves, OneAtATime, Quiet
<1>4. CASE \E h \in Handler : Moves(h)
  BY <1>4 DEF Moves, OneAtATime, Quiet, Working, HandlersFit
<1> QED
  BY <1>1, <1>2, <1>3, <1>4, PricingMoves, EvaluationsMoves, PrivacyMoves, KeysMoves, ProjectsMoves,
     DeletionsMoves, AbortMoves DEF Next

LEMMA NextOneAtATime == HandlersFit /\ OneAtATime /\ [Next]_vars => OneAtATime'
<1> SUFFICES ASSUME HandlersFit, OneAtATime, [Next]_vars, Quiet',
                    NEW g \in Handler, NEW h \in Handler, Busy(g)', Busy(h)', g # h
             PROVE  FALSE
  BY DEF OneAtATime, Quiet
<1>1. Quiet
  BY QuietSteps
<1>2. ~ (Busy(g) /\ Busy(h))
  BY <1>1 DEF OneAtATime, Quiet
<1>3. CASE UNCHANGED <<pc>>
  BY <1>2, <1>3 DEF Busy
<1>4. CASE \E k \in Handler, q \in workload.requests : Arrive(k, q)
  <2>1. PICK k \in Handler, q \in workload.requests : Arrive(k, q)
    BY <1>4
  <2>2. pc' = [pc EXCEPT ![k] = "load"] /\ \A x \in Handler : ~ Busy(x)
    BY <2>1 DEF Arrive, Receive, Quiet
  <2> QED
    BY <2>2 DEF Busy, HandlersFit
<1>5. CASE \E k \in Handler : Moves(k)
  <2>1. PICK k \in Handler : Moves(k)
    BY <1>5
  <2>2. \A x \in Handler : x # k => ~ Busy(x) /\ pc'[x] = pc[x]
    BY <2>1, QuietSteps DEF Moves, HandlersFit
  <2> QED
    BY <2>2 DEF Busy
<1> QED
  BY <1>3, <1>4, <1>5, PricingMoves, EvaluationsMoves, PrivacyMoves, KeysMoves, ProjectsMoves,
     DeletionsMoves, AbortMoves DEF Next, vars, handlers, Tick

LEMMA AlwaysOneAtATime == Spec => []OneAtATime
<1>1. Init => OneAtATime
  BY DEF Init, HandlersInit, OneAtATime, Busy
<1>2. HandlersFit /\ OneAtATime /\ [Next]_vars => OneAtATime'
  BY NextOneAtATime
<1> QED
  BY <1>1, <1>2, AlwaysHandlersFit, PTL DEF Spec

-----------------------------------------------------------------------------
(* Prices *)

PriceSession(h) ==
  /\ pc[h] \in Working /\ req[h].op = "price" => pc[h] = "commit" /\ work[h] \in PricingRow
  /\ pc[h] \in Working /\ req[h].op = "reprice" =>
       req[h].row \in DOMAIN pricing /\ work[h] \in PricingRow

PricesFit == pricing \in Seq(PricingRow) /\ \A h \in Handler : PriceSession(h)

(* What is written of a row that is still the one loaded is what was set.  *)
LEMMA SetChanged ==
  ASSUME NEW row, NEW fields
  PROVE  Set(row, Changed(fields, row)) = Set(row, fields)
BY DEF Set, Changed

LEMMA RepricedRow ==
  ASSUME NEW row \in PricingRow, NEW loaded, NEW q \in Requests, q.op = "reprice"
  PROVE  Set(row, q.set) \in PricingRow /\ Set(row, Changed(q.set, loaded)) \in PricingRow
<1>1. ASSUME NEW fields,
             \A f \in DOMAIN fields : f \in DOMAIN PricingUpdate /\ fields[f] \in PricingUpdate[f]
      PROVE  Set(row, fields) \in PricingRow
  <2>1. /\ "price" \in DOMAIN fields => fields["price"] \in Nat
        /\ "from" \in DOMAIN fields => fields["from"] \in Nat
        /\ "to" \in DOMAIN fields => fields["to"] \in Nat \cup {Null}
        /\ "active" \in DOMAIN fields => fields["active"] \in BOOLEAN
        /\ "scope" \notin DOMAIN fields /\ "model" \notin DOMAIN fields
    BY <1>1 DEF PricingUpdate
  <2>2. DOMAIN row = {"scope", "model", "from", "to", "active", "price"}
    BY DEF PricingRow
  <2>3. Set(row, fields) =
          [scope  |-> row.scope, model |-> row.model,
           from   |-> IF "from" \in DOMAIN fields THEN fields["from"] ELSE row.from,
           to     |-> IF "to" \in DOMAIN fields THEN fields["to"] ELSE row.to,
           active |-> IF "active" \in DOMAIN fields THEN fields["active"] ELSE row.active,
           price  |-> IF "price" \in DOMAIN fields THEN fields["price"] ELSE row.price]
    BY <2>1, <2>2 DEF Set
  <2> QED
    BY <2>1, <2>3 DEF PricingRow
<1>2. \A f \in DOMAIN q.set : f \in DOMAIN PricingUpdate /\ q.set[f] \in PricingUpdate[f]
  BY PricingAssumption
<1>3. \A f \in DOMAIN Changed(q.set, loaded) :
        f \in DOMAIN PricingUpdate /\ Changed(q.set, loaded)[f] \in PricingUpdate[f]
  BY <1>2 DEF Changed
<1> QED
  BY <1>1, <1>2, <1>3

LEMMA PricingSteps ==
  ASSUME HandlersFit, [Next]_vars
  PROVE  \/ pricing' = pricing /\ Untouched(PricingOps)
         \/ \E h \in Handler : PricingServe(h) /\ workload' = workload
<1>1. CASE Aside
  BY <1>1 DEF Aside, Untouched
<1>2. ASSUME NEW h \in Handler, Moves(h), workload' = workload, pricing' = pricing,
             req[h].op \notin PricingOps
      PROVE  pricing' = pricing /\ Untouched(PricingOps)
  BY <1>2, MovesOne
<1>3. ASSUME NEW h \in Handler, EvaluationsServe(h), workload' = workload
      PROVE  pricing' = pricing /\ Untouched(PricingOps)
  <2>1. pricing' = pricing
    BY <1>3 DEF EvaluationsServe, DatasetLoad, CreateDataset, AddCase, CreateRun, StartRun, RunCase,
       CompleteRun, StoreRun, CompareFirst, CompareRuns, ReviewLoad, ReviewCommit
  <2>2. req[h].op \notin PricingOps
    BY <1>3, EvaluationsMoves DEF EvaluationOps, PricingOps
  <2> QED
    BY <1>2, <1>3, <2>1, <2>2, EvaluationsMoves
<1>4. ASSUME NEW h \in Handler, DeletionsServe(h), workload' = workload
      PROVE  pricing' = pricing /\ Untouched(PricingOps)
  <2>1. pricing' = pricing
    BY <1>4 DEF DeletionsServe, DropLoad, Drop
  <2>2. req[h].op \notin PricingOps
    BY <1>4, DeletionsMoves DEF PricingOps
  <2> QED
    BY <1>2, <1>4, <2>1, <2>2, DeletionsMoves
<1>5. ASSUME NEW h \in Handler, PrivacyServe(h) \/ KeysServe(h) \/ ProjectsServe(h),
             workload' = workload, pricing' = pricing
      PROVE  pricing' = pricing /\ Untouched(PricingOps)
  <2>1. req[h].op \notin PricingOps
    BY <1>5, PrivacyMoves, KeysMoves, ProjectsMoves DEF PricingOps, PrivacyOps, KeyOps, ProjectOps
  <2> QED
    BY <1>2, <1>5, <2>1, PrivacyMoves, KeysMoves, ProjectsMoves
<1> QED
  BY <1>1, <1>3, <1>4, <1>5, Steps

LEMMA NextPrices == HandlersFit /\ PricesFit /\ [Next]_vars => PricesFit'
<1> SUFFICES ASSUME HandlersFit, PricesFit, [Next]_vars PROVE PricesFit'
  OBVIOUS
<1>1. CASE pricing' = pricing /\ Untouched(PricingOps)
  BY <1>1 DEF Untouched, PricesFit, PriceSession, PricingOps
<1>2. ASSUME NEW h \in Handler, PricingServe(h), workload' = workload
      PROVE  PricesFit'
  <2> DEFINE q == req[h]
  <2>1. /\ pc'[h] \in Working \cup {"done"} /\ req'[h] = q /\ q \in Requests
        /\ \A g \in Handler : g # h => pc'[g] = pc[g] /\ req'[g] = req[g] /\ work'[g] = work[g]
        /\ pricing \in Seq(PricingRow) /\ PriceSession(h) /\ Moves(h)
    BY <1>2, MovesOne, PricingMoves DEF PricesFit
  <2>2. ASSUME pricing' \in Seq(PricingRow), DOMAIN pricing \subseteq DOMAIN pricing', PriceSession(h)'
        PROVE  PricesFit'
    BY <2>1, <2>2 DEF PricesFit, PriceSession
  <2>3. ASSUME NEW c, NEW row, Respond(h, c, row), pricing' \in Seq(PricingRow),
               DOMAIN pricing \subseteq DOMAIN pricing'
        PROVE  PricesFit'
    <3>1. pc'[h] = "done"
      BY <2>3 DEF Respond, HandlersFit
    <3> QED
      BY <2>2, <2>3, <3>1 DEF PriceSession, Working
  <2>4. ASSUME NEW l \in {"check", "commit"}, NEW w, Continue(h, l, w), pricing' = pricing, w \in PricingRow,
               q.op = "price" => l = "commit", q.op = "reprice" => q.row \in DOMAIN pricing
        PROVE  PricesFit'
    <3>1. pc'[h] = l /\ work'[h] = w
      BY <2>4 DEF Continue, HandlersFit
    <3> QED
      BY <2>1, <2>2, <2>4, <3>1 DEF PriceSession, Working
  <2>5. CASE PriceCheck(h)
    <3>1. Proposed(q) \in PricingRow
      BY <2>1, <2>5, PricingAssumption DEF PriceCheck
    <3> QED
      BY <2>1, <2>3, <2>4, <2>5, <3>1 DEF PriceCheck
  <2>6. CASE PriceInsert(h)
    <3>1. work[h] \in PricingRow
      BY <2>1, <2>6 DEF PriceInsert, PriceSession, Working
    <3>2. pricing' \in Seq(PricingRow) /\ DOMAIN pricing \subseteq DOMAIN pricing'
      BY <2>1, <2>6, <3>1 DEF PriceInsert
    <3> QED
      BY <2>3, <2>6, <3>2 DEF PriceInsert
  <2>7. CASE RepriceLoad(h)
    <3>1. q.row \in DOMAIN pricing => pricing[q.row] \in PricingRow
      BY <2>1
    <3> QED
      BY <2>1, <2>3, <2>4, <2>7, <3>1 DEF RepriceLoad
  <2>8. CASE RepriceCheck(h)
    BY <2>1, <2>3, <2>4, <2>8 DEF RepriceCheck, PriceSession, Working
  <2>9. CASE RepriceCommit(h)
    <3> DEFINE new == Set(pricing[q.row], Changed(q.set, work[h]))
    <3>1. q.row \in DOMAIN pricing /\ q.op = "reprice"
      BY <2>1, <2>9 DEF RepriceCommit, PriceSession, Working
    <3>2. new \in PricingRow
      BY <2>1, <3>1, RepricedRow
    <3>3. pricing' = [pricing EXCEPT ![q.row] = new] /\ Respond(h, 200, q.row)
      BY <2>9 DEF RepriceCommit
    <3> HIDE DEF new
    <3>4. pricing' \in Seq(PricingRow) /\ DOMAIN pricing' = DOMAIN pricing
      BY <2>1, <3>1, <3>2, <3>3, ExceptSeq
    <3> QED
      BY <2>3, <3>3, <3>4
  <2> QED
    BY <1>2, <2>5, <2>6, <2>7, <2>8, <2>9 DEF PricingServe
<1> QED
  BY <1>1, <1>2, PricingSteps

LEMMA AlwaysPricesFit == Spec => []PricesFit
<1>1. Init => PricesFit
  BY PricingAssumption DEF Init, HandlersInit, PricesFit, PriceSession, Working
<1>2. HandlersFit /\ PricesFit /\ [Next]_vars => PricesFit'
  BY NextPrices
<1> QED
  BY <1>1, <1>2, AlwaysHandlersFit, PTL DEF Spec

(* No two windows of a model are open at once; what a request alone in     *)
(* progress checked of the others still holds when it writes.              *)
PriceFits(h) ==
  /\ pc[h] \in Working /\ req[h].op = "price" =>
       /\ work[h].active => ~ Inverted(work[h])
       /\ \A i \in DOMAIN pricing : ~ Clash(pricing[i], work[h])
  /\ pc[h] \in Working /\ req[h].op = "reprice" => work[h] = pricing[req[h].row]
  /\ pc[h] = "commit" /\ req[h].op = "reprice" =>
       LET new == Set(work[h], req[h].set) IN
       /\ ~ Inverted(new)
       /\ \A i \in DOMAIN pricing : i # req[h].row => ~ Clash(pricing[i], new)

Apart ==
  /\ \A i \in DOMAIN pricing : pricing[i].active => ~ Inverted(pricing[i])
  /\ \A i, j \in DOMAIN pricing : i # j => ~ Clash(pricing[i], pricing[j])

WindowsFit == Quiet => Apart /\ \A h \in Handler : PriceFits(h)

LEMMA ClashIsMutual ==
  ASSUME NEW v \in PricingRow, NEW w \in PricingRow, Clash(v, w)
  PROVE  Clash(w, v)
BY DEF Clash, Meets, PricingRow

(* What the check for overlaps finds is all there is.                      *)
LEMMA NoOverlap ==
  ASSUME pricing \in Seq(PricingRow), NEW w \in PricingRow, NEW except,
         w.active => Overlapping(w, except) = {}
  PROVE  \A i \in DOMAIN pricing : i # except => ~ Clash(pricing[i], w)
<1> SUFFICES ASSUME NEW i \in DOMAIN pricing, i # except, Clash(pricing[i], w)
             PROVE  FALSE
  OBVIOUS
<1>1. pricing[i] \in PricingRow
  OBVIOUS
<1>2. Clash(w, pricing[i])
  BY <1>1, ClashIsMutual
<1>3. i \in Overlapping(w, except)
  BY <1>2 DEF Clash, Overlapping
<1> QED
  BY <1>2, <1>3 DEF Clash

LEMMA QuietPricing ==
  ASSUME HandlersFit, OneAtATime, PricesFit, WindowsFit, NEW h \in Handler,
         PricingServe(h), workload' = workload, [Next]_vars, Quiet'
  PROVE  Apart' /\ \A g \in Handler : PriceFits(g)'
<1> DEFINE q == req[h]
<1>1. /\ pc'[h] \in Working \cup {"done"} /\ req'[h] = q /\ q \in Requests
      /\ \A g \in Handler : g # h => pc'[g] = pc[g] /\ req'[g] = req[g] /\ work'[g] = work[g]
      /\ pricing \in Seq(PricingRow) /\ PriceSession(h) /\ Moves(h)
  BY MovesOne, PricingMoves DEF PricesFit
<1>2. /\ \A g \in Handler : g # h => pc[g] \notin Working
      /\ Apart /\ PriceFits(h)
  BY <1>1, QuietSteps DEF WindowsFit, Busy, Working
<1>3. ASSUME PriceFits(h)', Apart' PROVE Apart' /\ \A g \in Handler : PriceFits(g)'
  BY <1>1, <1>2, <1>3 DEF PriceFits, Working
<1>4. ASSUME NEW c, NEW row, Respond(h, c, row) PROVE PriceFits(h)'
  <2>1. pc'[h] = "done"
    BY <1>4 DEF Respond, HandlersFit
  <2> QED
    BY <2>1 DEF PriceFits, Working
<1>5. ASSUME NEW l \in {"check", "commit"}, NEW w, Continue(h, l, w), pricing' = pricing
      PROVE  pc'[h] = l /\ work'[h] = w /\ Apart'
  BY <1>2, <1>5 DEF Continue, HandlersFit, Apart
<1>6. CASE PriceCheck(h)
  <2> DEFINE w == Proposed(q)
  <2>1. w \in PricingRow /\ q.op = "price"
    BY <1>1, <1>6, PricingAssumption DEF PriceCheck
  <2>2. CASE ~ Inverted(w) /\ ~ (w.active /\ Overlapping(w, Null) # {})
    <3>1. Continue(h, "commit", w) /\ pricing' = pricing
      BY <1>6, <2>2 DEF PriceCheck
    <3> HIDE DEF w
    <3>2. \A i \in DOMAIN pricing : ~ Clash(pricing[i], w)
      <4>1. \A i \in DOMAIN pricing : i # Null
        BY <1>1, PricingAssumption
      <4> QED
        BY <1>1, <2>1, <2>2, <4>1, NoOverlap
    <3>3. PriceFits(h)'
      BY <1>1, <1>5, <2>1, <2>2, <3>1, <3>2 DEF PriceFits
    <3> QED
      BY <1>3, <1>5, <3>1, <3>3
  <2>3. CASE Inverted(w) \/ (w.active /\ Overlapping(w, Null) # {})
    BY <1>2, <1>3, <1>4, <1>6, <2>3 DEF PriceCheck, Apart
  <2> QED
    BY <2>2, <2>3
<1>7. CASE PriceInsert(h)
  <2>1. /\ work[h] \in PricingRow /\ (work[h].active => ~ Inverted(work[h]))
        /\ \A i \in DOMAIN pricing : ~ Clash(pricing[i], work[h])
        /\ pricing' = Append(pricing, work[h]) /\ Respond(h, 201, Len(pricing'))
    BY <1>1, <1>2, <1>7 DEF PriceInsert, PriceSession, PriceFits, Working
  <2>2. /\ \A i \in DOMAIN pricing : pricing'[i] = pricing[i]
        /\ pricing'[Len(pricing) + 1] = work[h] /\ Len(pricing) + 1 \notin DOMAIN pricing
        /\ DOMAIN pricing' = DOMAIN pricing \cup {Len(pricing) + 1}
    BY <1>1, <2>1
  <2>3. \A i \in DOMAIN pricing : ~ Clash(work[h], pricing[i])
    BY <1>1, <2>1, ClashIsMutual
  <2>4. Apart'
    BY <1>2, <2>1, <2>2, <2>3 DEF Apart
  <2> QED
    BY <1>3, <1>4, <2>1, <2>4
<1>8. CASE RepriceLoad(h)
  <2>1. CASE q.row \in DOMAIN pricing /\ pricing[q.row].scope = "org"
    <3>1. Continue(h, "check", pricing[q.row]) /\ pricing' = pricing /\ q.op = "reprice"
      BY <1>8, <2>1 DEF RepriceLoad
    <3>2. pc'[h] = "check" /\ work'[h] = pricing[q.row] /\ Apart'
      BY <1>5, <3>1
    <3>3. PriceFits(h)'
      BY <1>1, <3>1, <3>2 DEF PriceFits
    <3> QED
      BY <1>3, <3>2, <3>3
  <2>2. CASE ~ (q.row \in DOMAIN pricing /\ pricing[q.row].scope = "org")
    BY <1>2, <1>3, <1>4, <1>8, <2>2 DEF RepriceLoad, Apart
  <2> QED
    BY <2>1, <2>2
<1>9. CASE RepriceCheck(h)
  <2> DEFINE w == Set(work[h], q.set)
  <2>1. /\ q.op = "reprice" /\ pricing' = pricing /\ work[h] = pricing[q.row] /\ work[h] \in PricingRow
    BY <1>1, <1>2, <1>9 DEF RepriceCheck, PriceSession, PriceFits, Working
  <2>2. w \in PricingRow
    BY <1>1, <2>1, RepricedRow
  <2>3. CASE ~ Inverted(w) /\ ~ (w.active /\ Overlapping(w, q.row) # {})
    <3>1. Continue(h, "commit", work[h])
      BY <1>9, <2>3 DEF RepriceCheck
    <3>2. pc'[h] = "commit" /\ work'[h] = work[h] /\ Apart'
      BY <1>5, <2>1, <3>1
    <3> HIDE DEF w
    <3>3. \A i \in DOMAIN pricing : i # q.row => ~ Clash(pricing[i], w)
      BY <1>1, <2>2, <2>3, NoOverlap
    <3>4. PriceFits(h)'
      BY <1>1, <2>1, <2>3, <3>2, <3>3 DEF PriceFits, w
    <3> QED
      BY <1>3, <3>2, <3>4
  <2>4. CASE Inverted(w) \/ (w.active /\ Overlapping(w, q.row) # {})
    BY <1>2, <1>3, <1>4, <1>9, <2>4 DEF RepriceCheck, Apart
  <2> QED
    BY <2>3, <2>4
<1>10. CASE RepriceCommit(h)
  <2> DEFINE new == Set(work[h], q.set)
  <2>1. /\ q.row \in DOMAIN pricing /\ q.op = "reprice" /\ work[h] \in PricingRow
        /\ work[h] = pricing[q.row] /\ ~ Inverted(new)
        /\ \A i \in DOMAIN pricing : i # q.row => ~ Clash(pricing[i], new)
    BY <1>1, <1>2, <1>10 DEF RepriceCommit, PriceSession, PriceFits, Working
  <2>2. new \in PricingRow
    BY <1>1, <2>1, RepricedRow
  <2>3. pricing' = [pricing EXCEPT ![q.row] = new] /\ Respond(h, 200, q.row)
    BY <1>10, <2>1, SetChanged DEF RepriceCommit
  <2> HIDE DEF new
  <2>4. /\ DOMAIN pricing' = DOMAIN pricing /\ pricing'[q.row] = new
        /\ \A i \in DOMAIN pricing : i # q.row => pricing'[i] = pricing[i]
    BY <2>1, <2>3
  <2>5. \A i \in DOMAIN pricing : i # q.row => ~ Clash(new, pricing[i])
    BY <1>1, <2>1, <2>2, ClashIsMutual
  <2>6. Apart'
    BY <1>2, <2>1, <2>4, <2>5 DEF Apart
  <2> QED
    BY <1>3, <1>4, <2>3, <2>6
<1> QED
  BY <1>6, <1>7, <1>8, <1>9, <1>10 DEF PricingServe

LEMMA NextWindows ==
  HandlersFit /\ OneAtATime /\ PricesFit /\ WindowsFit /\ [Next]_vars => WindowsFit'
<1> SUFFICES ASSUME HandlersFit, OneAtATime, PricesFit, WindowsFit, [Next]_vars, Quiet'
             PROVE  Apart' /\ \A h \in Handler : PriceFits(h)'
  BY DEF WindowsFit
<1>1. CASE pricing' = pricing /\ Untouched(PricingOps)
  <2>1. Apart /\ \A h \in Handler : PriceFits(h)
    BY QuietSteps DEF WindowsFit
  <2>2. \A h \in Handler : PriceFits(h)'
    BY <1>1, <2>1 DEF PriceFits, Untouched, PricingOps, Working
  <2> QED
    BY <1>1, <2>1, <2>2 DEF Apart
<1> QED
  BY <1>1, PricingSteps, QuietPricing

LEMMA AtMostOne ==
  ASSUME NEW S, \A i, j \in S : i = j
  PROVE  Cardinality(S) <= 1
<1>1. CASE S = {}
  BY <1>1, FS_EmptySet
<1>2. CASE S # {}
  <2>1. PICK i \in S : TRUE
    BY <1>2
  <2>2. S = {i}
    BY <2>1
  <2>3. Cardinality({i}) = 1
    BY FS_Singleton
  <2> QED
    BY <2>2, <2>3
<1> QED
  BY <1>1, <1>2

(* Two windows that hold at an instant meet there.                         *)
LEMMA CoveringMeet ==
  ASSUME NEW v \in PricingRow, NEW w \in PricingRow, NEW at \in Int, Covers(v, at), Covers(w, at)
  PROVE  Meets(v.from, v.to, w.from, w.to)
BY DEF Covers, Meets, PricingRow

(* A model has one price at a time: WindowsStayApart, of create_pricing    *)
(* and update_pricing, for any tables and any requests that do not overlap.*)
THEOREM OnePriceAtATime == Spec => []WindowsStayApart
<1>1. Init => WindowsFit
  BY PricingAssumption DEF Init, HandlersInit, WindowsFit, Apart, PriceFits, Working
<1>2. HandlersFit /\ OneAtATime /\ PricesFit /\ WindowsFit /\ [Next]_vars => WindowsFit'
  BY NextWindows
<1>3. PricesFit /\ WindowsFit => WindowsStayApart
  <2> SUFFICES ASSUME PricesFit, Apart, NEW m \in Model, NEW scope \in {"org", "global"},
                      NEW at \in 0 .. workload.until
               PROVE  Cardinality(PricesAt(scope, m, at)) <= 1
    BY DEF WindowsFit, WindowsStayApart, Apart
  <2> SUFFICES ASSUME NEW i \in PricesAt(scope, m, at), NEW j \in PricesAt(scope, m, at)
               PROVE  i = j
    BY AtMostOne
  <2>1. /\ i \in DOMAIN pricing /\ j \in DOMAIN pricing
        /\ pricing[i] \in PricingRow /\ pricing[j] \in PricingRow
    BY DEF PricesAt, PricesFit
  <2>2. Meets(pricing[i].from, pricing[i].to, pricing[j].from, pricing[j].to)
    BY <2>1, CoveringMeet DEF PricesAt
  <2>3. Clash(pricing[i], pricing[j])
    BY <2>2 DEF PricesAt, Clash
  <2> QED
    BY <2>1, <2>3 DEF Apart
<1> QED
  BY <1>1, <1>2, <1>3, AlwaysHandlersFit, AlwaysOneAtATime, AlwaysPricesFit, PTL DEF Spec

-----------------------------------------------------------------------------
(* Keys and traces *)

HoldSession == [key : KeyRow, at : Nat, project : Nat \cup {Null}]

KeySession(h) ==
  /\ pc[h] \in Working /\ req[h].op \in {"revoke", "delete"} => req[h].key \in DOMAIN keys
  /\ pc[h] = "check" /\ req[h].op = "ingest" => work[h] \in KeyRow
  /\ pc[h] \in {"scan", "commit"} /\ req[h].op = "ingest" =>
       /\ work[h] \in HoldSession
       /\ req[h].key \in DOMAIN keys /\ keys[req[h].key] # Null

PrivacySession(h) ==
  /\ pc[h] \in Working /\ req[h].op = "policy" =>
       work[h].policy \in RetentionPolicy \cup {Null} /\ (policy = Null => work[h].policy = Null)
  /\ pc[h] \in Working /\ req[h].op = "retention" =>
       work[h].days \in RetentionPolicy /\ work[h].executed \in Nat

TracesOK == traces \in Seq(TraceRow \cup {Null}) /\ policy \in RetentionPolicy \cup {Null}

KeysOK == keys \in Seq(KeyRow \cup {Null})

TablesFit ==
  /\ TracesOK /\ KeysOK /\ now \in Nat \ {0}
  /\ \A h \in Handler : KeySession(h) /\ PrivacySession(h)

(* What may become of a key.                                               *)
KeysKept ==
  \A id \in DOMAIN keys :
    /\ id \in DOMAIN keys' /\ (keys[id] = Null => keys'[id] = Null)
    /\ keys[id] # Null /\ keys'[id] # Null =>
         /\ keys'[id].status \in {keys[id].status, "REVOKED"}
         /\ keys'[id].project \in {keys[id].project, Null}

(* A table that is changed row by row is a table again.                    *)
LEMMA RowByRow ==
  ASSUME NEW S, NEW T, NEW s \in Seq(S), NEW t, t = [n \in DOMAIN s |-> t[n]],
         \A n \in DOMAIN s : t[n] \in T
  PROVE  t \in Seq(T) /\ Len(t) = Len(s) /\ DOMAIN t = DOMAIN s
<1>1. DOMAIN s = 1 .. Len(s) /\ Len(s) \in Nat /\ DOMAIN t = 1 .. Len(s)
  OBVIOUS
<1>2. t \in [1 .. Len(s) -> T]
  BY <1>1
<1>3. t \in Seq(T)
  BY <1>1, <1>2, SeqDef
<1> QED
  BY <1>1, <1>3

LEMMA SetPolicy ==
  ASSUME NEW row \in RetentionPolicy, NEW fields,
         \A f \in DOMAIN fields : f \in {"traces", "audit"} /\ fields[f] \in Days
  PROVE  Set(row, fields) \in RetentionPolicy
<1>1. DOMAIN row = {"traces", "audit"} /\ row.traces \in Days /\ row.audit \in Days
  BY DEF RetentionPolicy
<1>2. Set(row, fields) =
        [traces |-> IF "traces" \in DOMAIN fields THEN fields["traces"] ELSE row.traces,
         audit  |-> IF "audit" \in DOMAIN fields THEN fields["audit"] ELSE row.audit]
  BY <1>1 DEF Set
<1> QED
  BY <1>1, <1>2 DEF RetentionPolicy

LEMMA StoreSteps ==
  ASSUME HandlersFit, [Next]_vars
  PROVE  /\ now' = now \/ now' = now + 1
         /\ \/ UNCHANGED <<privacy, keys>> /\ Untouched(KeyOps) /\ Untouched(PrivacyOps)
            \/ \E h \in Handler : PrivacyServe(h) /\ keys' = keys /\ workload' = workload
            \/ \E h \in Handler : KeysServe(h) /\ workload' = workload
            \/ \E h \in Handler : DeletionsServe(h) /\ workload' = workload
<1>1. CASE Aside
  BY <1>1 DEF Aside, Untouched
<1>2. ASSUME NEW h \in Handler, PricingServe(h) \/ EvaluationsServe(h) \/ ProjectsServe(h),
             UNCHANGED <<privacy, keys>>, workload' = workload
      PROVE  UNCHANGED <<privacy, keys>> /\ Untouched(KeyOps) /\ Untouched(PrivacyOps)
  <2>1. Moves(h) /\ req[h].op \notin KeyOps /\ req[h].op \notin PrivacyOps
    BY <1>2, PricingMoves, EvaluationsMoves, ProjectsMoves
       DEF PricingOps, EvaluationOps, ProjectOps, KeyOps, PrivacyOps
  <2> QED
    BY <1>2, <2>1, MovesOne
<1>3. ASSUME NEW h \in Handler, PricingServe(h) PROVE now' = now
  BY <1>3 DEF PricingServe, PriceCheck, PriceInsert, RepriceLoad, RepriceCheck, RepriceCommit, ledger
<1>4. ASSUME NEW h \in Handler, EvaluationsServe(h) PROVE now' = now
  BY <1>4 DEF EvaluationsServe, DatasetLoad, CreateDataset, AddCase, CreateRun, StartRun, RunCase,
     CompleteRun, StoreRun, CompareFirst, CompareRuns, ReviewLoad, ReviewCommit, ledger
<1>5. ASSUME NEW h \in Handler, PrivacyServe(h) PROVE now' = now
  BY <1>5 DEF PrivacyServe, PolicyLoad, PolicyCommit, RetentionLoad, RunRetention, CreateWish, WishLoad,
     WishCommit, Export, Anonymize, ledger
<1>6. ASSUME NEW h \in Handler, KeysServe(h) PROVE now' = now
  BY <1>6 DEF KeysServe, NewKeyLoad, CreateKey, KeyLoad, Revoke, Delete, Resolve, TouchKey, Admit,
     StoreTrace, ledger
<1>7. ASSUME NEW h \in Handler, ProjectsServe(h) PROVE now' = now
  BY <1>7 DEF ProjectsServe, CreateLoad, CreateCommit, ChangeLoad, ChangeCommit, ledger
<1>8. ASSUME NEW h \in Handler, DeletionsServe(h) PROVE now' = now
  BY <1>8 DEF DeletionsServe, DropLoad, Drop, ledger
<1>9. now' = now \/ now' = now + 1
  BY <1>3, <1>4, <1>5, <1>6, <1>7, <1>8, Steps DEF Aside
<1> QED
  BY <1>1, <1>2, <1>9, Steps

(* What is left to show of a step of request h.                            *)
LEMMA StoreLeft ==
  ASSUME HandlersFit, TablesFit, NEW h \in Handler, Moves(h), workload' = workload, [Next]_vars,
         TracesOK', KeysOK', KeysKept, policy' = Null => policy = Null, KeySession(h)', PrivacySession(h)',
         \A g \in Handler, id \in DOMAIN keys : keys[id] # Null /\ Holds(g, id) => keys'[id] # Null
  PROVE  TablesFit'
<1>1. /\ req' = req
      /\ \A g \in Handler : g # h => pc'[g] = pc[g] /\ req'[g] = req[g] /\ work'[g] = work[g]
  BY MovesOne DEF Moves
<1>2. ASSUME NEW g \in Handler, g # h PROVE KeySession(g)' /\ PrivacySession(g)'
  <2>1. KeySession(g) /\ PrivacySession(g)
    BY DEF TablesFit
  <2>2. pc'[g] = pc[g] /\ req'[g] = req[g] /\ work'[g] = work[g]
    BY <1>1, <1>2
  <2>3. PrivacySession(g)'
    BY <1>1, <2>1, <2>2 DEF PrivacySession
  <2>4. KeySession(g)'
    BY <1>1, <2>1, <2>2 DEF KeySession, KeysKept, Holds
  <2> QED
    BY <2>3, <2>4
<1>3. now' \in Nat \ {0}
  BY StoreSteps DEF TablesFit
<1> QED
  BY <1>2, <1>3 DEF TablesFit

LEMMA SameKeys ==
  ASSUME TablesFit, keys' = keys
  PROVE  /\ KeysOK' /\ KeysKept
         /\ \A g \in Handler, id \in DOMAIN keys : keys[id] # Null /\ Holds(g, id) => keys'[id] # Null
BY DEF TablesFit, KeysOK, KeysKept

LEMMA PrivacyTables ==
  ASSUME HandlersFit, TablesFit, NEW h \in Handler, PrivacyServe(h), keys' = keys,
         workload' = workload, [Next]_vars
  PROVE  TablesFit' /\ KeysKept /\ Len(traces') = Len(traces)
<1> DEFINE q == req[h]
<1>1. /\ Moves(h) /\ req'[h] = q /\ q \in Requests /\ q.op \in PrivacyOps
      /\ TracesOK /\ PrivacySession(h)
  BY PrivacyMoves, MovesOne DEF TablesFit
<1>2. KeySession(h)'
  BY <1>1 DEF KeySession, PrivacyOps
<1>3. ASSUME TracesOK', policy' = Null => policy = Null, PrivacySession(h)', Len(traces') = Len(traces)
      PROVE  TablesFit' /\ KeysKept /\ Len(traces') = Len(traces)
  BY <1>1, <1>2, <1>3, SameKeys, StoreLeft
<1>4. ASSUME NEW c, NEW row, Respond(h, c, row) PROVE PrivacySession(h)'
  <2>1. pc'[h] = "done"
    BY <1>4 DEF Respond, HandlersFit
  <2> QED
    BY <2>1 DEF PrivacySession, Working
<1>5. CASE PolicyLoad(h)
  <2>1. Continue(h, "commit", [policy |-> policy]) /\ UNCHANGED privacy /\ q.op = "policy"
    BY <1>5 DEF PolicyLoad
  <2>2. work'[h] = [policy |-> policy]
    BY <2>1 DEF Continue, HandlersFit
  <2>3. work'[h].policy = policy
    BY <2>2
  <2>4. TracesOK' /\ policy' = policy /\ Len(traces') = Len(traces)
    BY <1>1, <2>1 DEF TracesOK, privacy
  <2>5. PrivacySession(h)'
    BY <1>1, <2>1, <2>3, <2>4 DEF PrivacySession, TracesOK
  <2> QED
    BY <1>3, <2>4, <2>5
<1>10. CASE RetentionLoad(h)
  <2>1. UNCHANGED privacy /\ q.op = "retention"
    BY <1>10 DEF RetentionLoad
  <2>2. TracesOK' /\ policy' = policy /\ Len(traces') = Len(traces)
    BY <1>1, <2>1 DEF TracesOK, privacy
  <2>3. CASE policy = Null
    BY <1>3, <1>4, <1>10, <2>2, <2>3 DEF RetentionLoad
  <2>4. CASE policy # Null
    <3>1. work'[h] = [days |-> policy, executed |-> now]
      BY <1>10, <2>4 DEF RetentionLoad, Continue, HandlersFit
    <3>2. work'[h].days = policy /\ work'[h].executed = now
      BY <3>1
    <3>3. PrivacySession(h)'
      BY <1>1, <2>1, <2>4, <3>2 DEF PrivacySession, TracesOK, TablesFit
    <3> QED
      BY <1>3, <2>2, <3>3
  <2> QED
    BY <2>3, <2>4
<1>6. CASE PolicyCommit(h)
  <2> DEFINE loaded == work[h].policy
  <2>1. /\ loaded \in RetentionPolicy \cup {Null} /\ policy \in RetentionPolicy \cup {Null} /\ traces' = traces
        /\ policy = Null => loaded = Null
        /\ \A f \in DOMAIN q.fields : f \in {"traces", "audit"} /\ q.fields[f] \in Days
    BY <1>1, <1>6, PrivacyAssumption DEF PolicyCommit, PrivacySession, Working, TracesOK
  <2>2. policy' \in RetentionPolicy \cup {Null} /\ (policy' = Null => policy = Null)
    <3>1. CASE policy' = policy
      BY <2>1, <3>1
    <3>2. CASE policy' = Set(DefaultPolicy, q.fields)
      <4>1. DefaultPolicy \in RetentionPolicy
        BY DEF DefaultPolicy, RetentionPolicy, Days
      <4>2. policy' \in RetentionPolicy
        BY <2>1, <3>2, <4>1, SetPolicy
      <4> QED
        BY <4>2, PrivacyAssumption
    <3>3. CASE policy' = Set(policy, Changed(q.fields, loaded)) /\ policy # Null
      <4>1. \A f \in DOMAIN Changed(q.fields, loaded) :
              f \in {"traces", "audit"} /\ Changed(q.fields, loaded)[f] \in Days
        BY <2>1 DEF Changed
      <4>2. policy' \in RetentionPolicy
        BY <2>1, <3>3, <4>1, SetPolicy
      <4> QED
        BY <4>2, PrivacyAssumption
    <3> QED
      BY <1>6, <2>1, <3>1, <3>2, <3>3 DEF PolicyCommit
  <2>3. \E c, row : Respond(h, c, row)
    BY <1>6 DEF PolicyCommit
  <2> QED
    BY <1>1, <1>3, <1>4, <2>1, <2>2, <2>3 DEF TracesOK
<1>7. CASE RunRetention(h)
  <2>1. policy' = policy /\ Respond(h, 200, Null)
    BY <1>7 DEF RunRetention
  <2> DEFINE days == work[h].days
             executed == work[h].executed
  <2>2. traces' = [n \in DOMAIN traces |->
                     IF n \in Traces /\ Old(traces[n].at, days.traces, executed) THEN Null ELSE traces[n]]
    BY <1>7 DEF RunRetention
  <2>3. \A n \in DOMAIN traces : traces'[n] \in {traces[n], Null}
    BY <2>2
  <2>4. traces' = [n \in DOMAIN traces |-> traces'[n]]
    BY <2>2
  <2>5. traces' \in Seq(TraceRow \cup {Null}) /\ Len(traces') = Len(traces)
    BY <1>1, <2>3, <2>4, RowByRow DEF TracesOK
  <2> QED
    BY <1>1, <1>3, <1>4, <2>1, <2>5 DEF TracesOK
<1>8. CASE CreateWish(h) \/ WishLoad(h) \/ WishCommit(h) \/ Export(h)
  <2>1. UNCHANGED <<traces, policy>> /\ q.op \in {"wish", "progress", "export"}
    BY <1>8 DEF CreateWish, WishLoad, WishCommit, Export, privacy
  <2> QED
    BY <1>1, <1>3, <2>1 DEF TracesOK, PrivacySession
<1>9. CASE Anonymize(h)
  <2>1. UNCHANGED <<traces, policy>> /\ \E c, row : Respond(h, c, row)
    BY <1>9 DEF Anonymize, privacy
  <2> QED
    BY <1>1, <1>3, <1>4, <2>1 DEF TracesOK
<1> QED
  BY <1>5, <1>6, <1>7, <1>8, <1>9, <1>10 DEF PrivacyServe

LEMMA SetKey ==
  ASSUME KeysOK, NEW id \in DOMAIN keys, NEW row \in KeyRow \cup {Null}, keys' = [keys EXCEPT ![id] = row],
         keys[id] = Null => row = Null,
         keys[id] # Null /\ row # Null =>
           row.status \in {keys[id].status, "REVOKED"} /\ row.project \in {keys[id].project, Null}
  PROVE  /\ KeysOK' /\ KeysKept /\ DOMAIN keys' = DOMAIN keys
         /\ keys'[id] = row /\ \A n \in DOMAIN keys : n # id => keys'[n] = keys[n]
<1>1. /\ keys' \in Seq(KeyRow \cup {Null}) /\ keys'[id] = row /\ DOMAIN keys' = DOMAIN keys
      /\ \A n \in DOMAIN keys : n # id => keys'[n] = keys[n]
  BY ExceptSeq DEF KeysOK
<1> QED
  BY <1>1 DEF KeysOK, KeysKept

(* A request that is answered relies on nothing any more.                  *)
LEMMA NoSession ==
  ASSUME HandlersFit, NEW h \in Handler, NEW c, NEW row, Respond(h, c, row)
  PROVE  pc'[h] = "done" /\ KeySession(h)' /\ PrivacySession(h)'
<1>1. pc'[h] = "done"
  BY DEF Respond, HandlersFit
<1> QED
  BY <1>1 DEF KeySession, PrivacySession, Working

LEMMA NewTraceRow ==
  ASSUME NEW q \in Requests, q.op = "ingest", NEW project \in Nat \cup {Null}, NEW stored \in Nat
  PROVE  NewTrace(q, project, stored) \in TraceRow
<1>1. /\ {q.agent, q.environment} \subseteq Nat \cup {Null}
      /\ {q.key, q.at} \subseteq Nat /\ q.id \in TraceId /\ q.subject \in Subject
  BY ApiKeysAssumption
<1> QED
  BY <1>1 DEF NewTrace, TraceRow

(* The trace a request stores is of its key, which is there.               *)
Stores(h) ==
  /\ StoreTrace(h) /\ keys[req[h].key] # Null /\ work[h].project # Null
  /\ Len(traces') = Len(traces) + 1 /\ DOMAIN traces' = DOMAIN traces \cup {Len(traces) + 1}
  /\ traces'[Len(traces) + 1] = NewTrace(req[h], work[h].project, work[h].at)
  /\ \A n \in DOMAIN traces : traces'[n] = traces[n]

LEMMA KeyTables ==
  ASSUME HandlersFit, TablesFit, NEW h \in Handler, KeysServe(h), workload' = workload, [Next]_vars
  PROVE  TablesFit' /\ KeysKept /\ (Len(traces') = Len(traces) \/ Stores(h))
<1> DEFINE q == req[h]
<1>1. /\ Moves(h) /\ req'[h] = q /\ q \in Requests /\ q.op \in KeyOps
      /\ TracesOK /\ KeysOK /\ KeySession(h) /\ now \in Nat
  BY KeysMoves, MovesOne DEF TablesFit
<1>2. PrivacySession(h)'
  BY <1>1 DEF PrivacySession, KeyOps
<1>3. ASSUME policy' = policy, TracesOK', KeysOK', KeysKept, KeySession(h)',
             \A g \in Handler, id \in DOMAIN keys : keys[id] # Null /\ Holds(g, id) => keys'[id] # Null
      PROVE  TablesFit'
  BY <1>1, <1>2, <1>3, StoreLeft
<1>4. ASSUME UNCHANGED <<traces, policy>> PROVE TracesOK' /\ Len(traces') = Len(traces)
  BY <1>1, <1>4 DEF TracesOK
<1>5. ASSUME UNCHANGED <<keys, traces, policy>>, KeySession(h)'
      PROVE  TablesFit' /\ KeysKept /\ Len(traces') = Len(traces)
  BY <1>3, <1>4, <1>5, SameKeys
<1>6. ASSUME NEW l \in Working, NEW w, Continue(h, l, w)
      PROVE  pc'[h] = l /\ work'[h] = w
  BY <1>6 DEF Continue, HandlersFit
<1>7. CASE NewKeyLoad(h)
  <2>1. UNCHANGED <<keys, traces, policy>> /\ q.op = "key"
    BY <1>7 DEF NewKeyLoad, privacy
  <2> QED
    BY <1>1, <1>5, <2>1 DEF KeySession
<1>8. CASE CreateKey(h)
  <2>1. (\E c, row : Respond(h, c, row)) /\ UNCHANGED <<traces, policy>>
    BY <1>8 DEF CreateKey, privacy
  <2>2. CASE keys' = keys
    BY <1>5, <2>1, <2>2, NoSession
  <2>3. CASE keys' # keys
    <3> DEFINE row == [project |-> q.project, status |-> "ACTIVE", expires |-> q.expires, used |-> Null]
    <3>1. row \in KeyRow
      BY <1>1, <1>8, ApiKeysAssumption DEF CreateKey, KeyRow
    <3>2. keys' = Append(keys, row)
      BY <1>8, <2>3 DEF CreateKey
    <3> HIDE DEF row
    <3>3. /\ keys' \in Seq(KeyRow \cup {Null}) /\ \A n \in DOMAIN keys : n \in DOMAIN keys' /\ keys'[n] = keys[n]
      BY <1>1, <3>1, <3>2 DEF KeysOK
    <3>4. KeysOK' /\ KeysKept
      BY <3>3 DEF KeysOK, KeysKept
    <3> QED
      BY <1>3, <1>4, <2>1, <3>3, <3>4, NoSession
  <2> QED
    BY <2>2, <2>3
<1>9. CASE KeyLoad(h)
  <2>1. UNCHANGED <<keys, traces, policy>> /\ q.op \in {"revoke", "delete"}
    BY <1>9 DEF KeyLoad, privacy
  <2>2. KeySession(h)'
    <3>1. CASE Key(q.key) = Null
      BY <1>9, <3>1, NoSession DEF KeyLoad
    <3>2. CASE Key(q.key) # Null
      BY <1>1, <2>1, <3>2 DEF Key, KeySession
    <3> QED
      BY <3>1, <3>2
  <2> QED
    BY <1>5, <2>1, <2>2
<1>10. CASE Revoke(h)
  <2>1. (\E c, row : Respond(h, c, row)) /\ UNCHANGED <<traces, policy>>
    BY <1>10 DEF Revoke, privacy
  <2>2. CASE Key(q.key) = Null
    BY <1>5, <1>10, <2>1, <2>2, NoSession DEF Revoke
  <2>3. CASE Key(q.key) # Null
    <3> DEFINE row == [keys[q.key] EXCEPT !.status = "REVOKED"]
    <3>1. keys' = [keys EXCEPT ![q.key] = row]
      BY <1>10, <2>3 DEF Revoke
    <3>2. q.key \in DOMAIN keys /\ keys[q.key] # Null /\ keys[q.key] \in KeyRow
      BY <1>1, <2>3 DEF Key, KeysOK
    <3>3. row \in KeyRow /\ row.status = "REVOKED" /\ row.project = keys[q.key].project
      BY <3>2 DEF KeyRow
    <3> HIDE DEF row
    <3>4. /\ KeysOK' /\ KeysKept /\ keys'[q.key] = row
          /\ \A n \in DOMAIN keys : n # q.key => keys'[n] = keys[n]
      BY <1>1, <3>1, <3>2, <3>3, SetKey
    <3>5. row # Null
      BY <3>3, ApiKeysAssumption
    <3> QED
      BY <1>3, <1>4, <2>1, <3>4, <3>5, NoSession
  <2> QED
    BY <2>2, <2>3
<1>11. CASE Delete(h)
  <2>1. /\ (\E c, row : Respond(h, c, row)) /\ UNCHANGED <<traces, policy>>
        /\ keys' = [keys EXCEPT ![q.key] = Null] /\ Free(q.key) /\ q.key \in DOMAIN keys
    BY <1>1, <1>11 DEF Delete, privacy, KeySession, Working
  <2>2. KeysOK' /\ KeysKept /\ \A n \in DOMAIN keys : n # q.key => keys'[n] = keys[n]
    BY <1>1, <2>1, SetKey
  <2>3. \A g \in Handler, id \in DOMAIN keys : keys[id] # Null /\ Holds(g, id) => keys'[id] # Null
    BY <2>1, <2>2 DEF Free
  <2> QED
    BY <1>3, <1>4, <2>1, <2>2, <2>3, NoSession
<1>12. CASE Resolve(h)
  <2> DEFINE key == Key(q.key)
  <2>1. UNCHANGED <<keys, traces, policy>> /\ q.op = "ingest"
    BY <1>12 DEF Resolve, privacy, Ingesting
  <2>2. CASE key # Null /\ key.status = "ACTIVE" /\ (key.expires = Null \/ now <= key.expires)
    <3>1. Continue(h, "check", key)
      BY <1>12, <2>2 DEF Resolve
    <3>2. key \in KeyRow
      BY <1>1, <2>2 DEF Key, KeysOK
    <3>3. pc'[h] = "check" /\ work'[h] = key
      BY <1>6, <3>1 DEF Working
    <3>4. KeySession(h)'
      BY <1>1, <2>1, <3>2, <3>3 DEF KeySession
    <3> QED
      BY <1>5, <2>1, <3>4
  <2>3. CASE ~ (key # Null /\ key.status = "ACTIVE" /\ (key.expires = Null \/ now <= key.expires))
    BY <1>5, <1>12, <2>1, <2>3, NoSession DEF Resolve
  <2> QED
    BY <2>2, <2>3
<1>13. CASE TouchKey(h)
  <2> DEFINE hold == [key |-> work[h], at |-> now, project |-> Null]
  <2>1. UNCHANGED <<keys, traces, policy>> /\ q.op = "ingest" /\ pc[h] = "check"
    BY <1>13 DEF TouchKey, privacy, Ingesting
  <2>2. CASE Key(q.key) # Null
    <3>1. Continue(h, "scan", hold) /\ q.key \in DOMAIN keys /\ keys[q.key] # Null
      BY <1>13, <2>2 DEF TouchKey, Key
    <3>2. hold \in HoldSession
      BY <1>1, <2>1 DEF KeySession, HoldSession
    <3>3. pc'[h] = "scan" /\ work'[h] = hold
      BY <1>6, <3>1 DEF Working
    <3>4. KeySession(h)'
      BY <1>1, <2>1, <3>1, <3>2, <3>3 DEF KeySession
    <3> QED
      BY <1>5, <2>1, <3>4
  <2>3. CASE Key(q.key) = Null
    BY <1>5, <1>13, <2>1, <2>3, NoSession DEF TouchKey
  <2> QED
    BY <2>2, <2>3
<1>14. CASE Admit(h)
  <2> DEFINE project == Scope(work[h].key, q.project)
             hold == [work[h] EXCEPT !.project = project]
  <2>1. /\ UNCHANGED <<keys, traces, policy>> /\ q.op = "ingest" /\ pc[h] = "scan"
        /\ work[h] \in HoldSession /\ q.key \in DOMAIN keys /\ keys[q.key] # Null
    BY <1>1, <1>14 DEF Admit, privacy, Ingesting, KeySession
  <2>2. ASSUME NEW w \in HoldSession, Continue(h, "commit", w) PROVE KeySession(h)'
    <3>1. pc'[h] = "commit" /\ work'[h] = w
      BY <1>6, <2>2 DEF Working
    <3> QED
      BY <1>1, <2>1, <2>2, <3>1 DEF KeySession
  <2>3. hold \in HoldSession
    <3>1. q.project \in Nat \cup {Null} /\ work[h].key \in KeyRow
      BY <1>1, <2>1, ApiKeysAssumption DEF HoldSession
    <3>2. project \in Nat \cup {Null}
      BY <3>1 DEF Scope, KeyRow
    <3> QED
      BY <2>1, <3>2 DEF HoldSession
  <2>4. Continue(h, "commit", work[h]) \/ Continue(h, "commit", hold) \/ \E c, row : Respond(h, c, row)
    BY <1>14 DEF Admit
  <2>5. KeySession(h)'
    BY <2>1, <2>2, <2>3, <2>4, NoSession
  <2> QED
    BY <1>5, <2>1, <2>5
<1>15. CASE StoreTrace(h)
  <2>1. /\ q.op = "ingest" /\ pc[h] = "commit" /\ UNCHANGED policy /\ (\E c, row : Respond(h, c, row))
        /\ work[h] \in HoldSession /\ q.key \in DOMAIN keys /\ keys[q.key] # Null
    BY <1>1, <1>15 DEF StoreTrace, Ingesting, KeySession
  <2>2. CASE Dangling(h)
    BY <1>5, <1>15, <2>1, <2>2, NoSession DEF StoreTrace
  <2>3. CASE ~ Dangling(h)
    <3> DEFINE row == [keys[q.key] EXCEPT !.used = work[h].at]
               new == NewTrace(q, work[h].project, work[h].at)
    <3>1. keys' = [keys EXCEPT ![q.key] = row] /\ traces' = TracesWith(h)
      BY <1>15, <2>3 DEF StoreTrace
    <3>2. keys[q.key] \in KeyRow /\ work[h].at \in Nat /\ work[h].project \in Nat \cup {Null}
      BY <1>1, <2>1 DEF KeysOK, HoldSession
    <3>3. row \in KeyRow /\ row.status = keys[q.key].status /\ row.project = keys[q.key].project
      BY <3>2 DEF KeyRow
    <3>4. new \in TraceRow
      BY <1>1, <2>1, <3>2, NewTraceRow
    <3>5. row # Null
      BY <3>3, ApiKeysAssumption
    <3>6. work[h].project # Null => traces' = Append(traces, new)
      BY <3>1 DEF TracesWith
    <3> HIDE DEF row, new
    <3>7. /\ KeysOK' /\ KeysKept /\ keys'[q.key] = row
          /\ \A n \in DOMAIN keys : n # q.key => keys'[n] = keys[n]
      BY <1>1, <2>1, <3>1, <3>3, SetKey
    <3>8. KeySession(h)'
      BY <2>1, NoSession
    <3>9. CASE work[h].project = Null
      <4>1. traces' = traces
        BY <3>1, <3>9 DEF TracesWith
      <4> QED
        BY <1>3, <1>4, <2>1, <3>5, <3>7, <3>8, <4>1
    <3>10. CASE work[h].project # Null
      <4>1. /\ traces \in Seq(TraceRow \cup {Null}) /\ new \in TraceRow \cup {Null}
            /\ traces' = Append(traces, new)
        BY <1>1, <3>4, <3>6, <3>10 DEF TracesOK
      <4>2. /\ traces' \in Seq(TraceRow \cup {Null}) /\ Len(traces') = Len(traces) + 1
            /\ DOMAIN traces' = DOMAIN traces \cup {Len(traces) + 1} /\ traces'[Len(traces) + 1] = new
            /\ \A n \in DOMAIN traces : traces'[n] = traces[n]
        BY <4>1
      <4>3. Stores(h)
        BY <1>15, <2>1, <3>10, <4>2 DEF Stores, new
      <4>4. TracesOK'
        BY <1>1, <2>1, <4>2 DEF TracesOK
      <4> QED
        BY <1>3, <2>1, <3>5, <3>7, <3>8, <4>3, <4>4
    <3> QED
      BY <3>9, <3>10
  <2> QED
    BY <2>2, <2>3
<1> QED
  BY <1>7, <1>8, <1>9, <1>10, <1>11, <1>12, <1>13, <1>14, <1>15 DEF KeysServe

LEMMA DropTables ==
  ASSUME HandlersFit, TablesFit, NEW h \in Handler, DeletionsServe(h), workload' = workload, [Next]_vars
  PROVE  TablesFit' /\ KeysKept /\ Len(traces') = Len(traces)
<1> DEFINE q == req[h]
<1>1. /\ Moves(h) /\ req'[h] = q /\ q \in Requests /\ q.op = "drop" /\ TracesOK /\ KeysOK
  BY DeletionsMoves, MovesOne DEF TablesFit
<1>2. KeySession(h)' /\ PrivacySession(h)'
  BY <1>1 DEF KeySession, PrivacySession
<1>3. CASE UNCHANGED <<traces, keys, policy>>
  BY <1>1, <1>2, <1>3, SameKeys, StoreLeft DEF TracesOK
<1>4. CASE ~ UNCHANGED <<traces, keys, policy>>
  <2>1. /\ ~ Waits(h) /\ policy' = policy /\ q.kind \in Kind
        /\ traces' = TracesWithout(q.kind, q.id, work[h].traces)
        /\ keys' = KeysWithout(q.kind, q.id, work[h].keys)
    BY <1>1, <1>4, ProjectsAssumption DEF DeletionsServe, DropLoad, Drop, privacy
  <2>2. ASSUME NEW n \in DOMAIN traces PROVE traces'[n] \in TraceRow \cup {Null}
    <3>1. traces[n] \in TraceRow \cup {Null}
      BY <1>1 DEF TracesOK
    <3>2. CASE traces'[n] \in {traces[n], Null}
      BY <3>1, <3>2
    <3>3. CASE traces'[n] = [traces[n] EXCEPT ![q.kind] = Null] /\ traces[n] # Null
      BY <2>1, <3>1, <3>3 DEF TraceRow, Kind
    <3> QED
      BY <2>1, <3>2, <3>3 DEF TracesWithout, TracesOf, Traces
  <2>3. traces' = [n \in DOMAIN traces |-> traces'[n]] /\ keys' = [n \in DOMAIN keys |-> keys'[n]]
    BY <2>1 DEF TracesWithout, KeysWithout
  <2>4. TracesOK' /\ Len(traces') = Len(traces)
    BY <1>1, <2>1, <2>2, <2>3, RowByRow DEF TracesOK
  <2>5. ASSUME NEW n \in DOMAIN keys
        PROVE  /\ keys'[n] \in KeyRow \cup {Null} /\ (keys[n] = Null => keys'[n] = Null)
               /\ keys[n] # Null /\ keys'[n] # Null =>
                    keys'[n].status = keys[n].status /\ keys'[n].project \in {keys[n].project, Null}
    <3>1. keys[n] \in KeyRow \cup {Null}
      BY <1>1 DEF KeysOK
    <3>2. CASE keys'[n] = keys[n]
      BY <3>1, <3>2
    <3>3. CASE keys'[n] = Null
      BY <3>3
    <3>4. CASE keys'[n] = [keys[n] EXCEPT !.project = Null] /\ keys[n] # Null
      BY <3>1, <3>4 DEF KeyRow
    <3> QED
      BY <2>1, <3>2, <3>3, <3>4 DEF KeysWithout, KeysOf
  <2>6. KeysOK' /\ KeysKept
    <3>1. keys' \in Seq(KeyRow \cup {Null}) /\ DOMAIN keys' = DOMAIN keys
      BY <1>1, <2>3, <2>5, RowByRow DEF KeysOK
    <3> QED
      BY <2>5, <3>1 DEF KeysOK, KeysKept
  <2>7. ASSUME NEW g \in Handler, NEW n \in DOMAIN keys, keys[n] # Null, Holds(g, n)
        PROVE  keys'[n] # Null
    <3>1. n \notin work[h].keys \cup KeysOf(q.kind, q.id)
      BY <2>1, <2>7 DEF Waits, Free
    <3> QED
      BY <2>1, <2>7, <3>1 DEF KeysWithout
  <2> QED
    BY <1>1, <1>2, <2>1, <2>4, <2>6, <2>7, StoreLeft
<1> QED
  BY <1>3, <1>4

LEMMA TableSteps ==
  ASSUME HandlersFit, TablesFit, [Next]_vars
  PROVE  TablesFit' /\ KeysKept /\ (Len(traces') = Len(traces) \/ \E h \in Handler : Stores(h))
<1>1. CASE UNCHANGED <<privacy, keys>> /\ Untouched(KeyOps) /\ Untouched(PrivacyOps)
  <2>1. UNCHANGED <<traces, policy, keys>>
    BY <1>1 DEF privacy
  <2>2. TracesOK' /\ KeysOK' /\ KeysKept /\ now' \in Nat \ {0}
    BY <2>1, StoreSteps DEF TablesFit, TracesOK, KeysOK, KeysKept
  <2>3. \A h \in Handler : PrivacySession(h)'
    BY <1>1, <2>1 DEF TablesFit, PrivacySession, Untouched, PrivacyOps
  <2>4. \A h \in Handler : KeySession(h)'
    BY <1>1, <2>1 DEF TablesFit, KeySession, Untouched, KeyOps, Working
  <2> QED
    BY <2>1, <2>2, <2>3, <2>4 DEF TablesFit
<1> QED
  BY <1>1, StoreSteps, PrivacyTables, KeyTables, DropTables

LEMMA AlwaysTablesFit == Spec => []TablesFit
<1>1. Init => TablesFit
  BY PrivacyAssumption, ApiKeysAssumption
     DEF Init, HandlersInit, TablesFit, TracesOK, KeysOK, KeySession, PrivacySession, Working
<1>2. HandlersFit /\ TablesFit /\ [Next]_vars => TablesFit'
  BY TableSteps
<1> QED
  BY <1>1, <1>2, AlwaysHandlersFit, PTL DEF Spec

(* While requests do not overlap, the key a request was admitted with is   *)
(* active until it writes.                                                 *)
AdmittedFit ==
  Quiet =>
    \A h \in Handler : pc[h] \in Working /\ req[h].op = "ingest" =>
      req[h].key \in DOMAIN keys /\ keys[req[h].key] # Null /\ keys[req[h].key].status = "ACTIVE"

LEMMA NextAdmitted ==
  HandlersFit /\ OneAtATime /\ TablesFit /\ AdmittedFit /\ [Next]_vars => AdmittedFit'
<1> SUFFICES ASSUME HandlersFit, OneAtATime, TablesFit, AdmittedFit, [Next]_vars, Quiet',
                    NEW h \in Handler, pc'[h] \in Working, req'[h].op = "ingest"
             PROVE  /\ req'[h].key \in DOMAIN keys' /\ keys'[req'[h].key] # Null
                    /\ keys'[req'[h].key].status = "ACTIVE"
  BY DEF AdmittedFit
<1>1. Quiet
  BY QuietSteps
<1>2. ASSUME UNCHANGED keys, Untouched(KeyOps)
      PROVE  /\ req'[h].key \in DOMAIN keys' /\ keys'[req'[h].key] # Null
             /\ keys'[req'[h].key].status = "ACTIVE"
  BY <1>1, <1>2 DEF AdmittedFit, Untouched, KeyOps
<1>3. ASSUME NEW g \in Handler, Moves(g), workload' = workload
      PROVE  g = h /\ req'[h] = req[h]
  <2>1. g = h
    <3>1. pc'[h] = pc[h] \/ g = h
      BY <1>3, MovesOne
    <3> QED
      BY <1>3, <3>1, QuietSteps DEF Busy, Working
  <2> QED
    BY <1>3, <2>1, MovesOne
<1>4. ASSUME NEW g \in Handler, PrivacyServe(g) \/ DeletionsServe(g), workload' = workload
      PROVE  FALSE
  BY <1>3, <1>4, PrivacyMoves, DeletionsMoves DEF PrivacyOps
<1>5. ASSUME NEW g \in Handler, KeysServe(g), workload' = workload
      PROVE  /\ req'[h].key \in DOMAIN keys' /\ keys'[req'[h].key] # Null
             /\ keys'[req'[h].key].status = "ACTIVE"
  <2>1. g = h /\ req'[h] = req[h] /\ req[h].op = "ingest"
    BY <1>3, <1>5, KeysMoves
  <2>2. ASSUME NEW c, NEW row, Respond(h, c, row) PROVE FALSE
    BY <2>2, NoSession DEF Working
  <2>3. CASE Resolve(h)
    <3>1. Key(req[h].key) # Null /\ Key(req[h].key).status = "ACTIVE" /\ keys' = keys
      BY <2>2, <2>3 DEF Resolve
    <3> QED
      BY <2>1, <3>1 DEF Key
  <2>4. CASE TouchKey(h) \/ Admit(h)
    <3>1. pc[h] \in Working /\ keys' = keys
      BY <2>4 DEF TouchKey, Admit, Ingesting, Working
    <3> QED
      BY <1>1, <2>1, <3>1 DEF AdmittedFit
  <2>5. ~ StoreTrace(h)
    BY <2>2 DEF StoreTrace
  <2> QED
    BY <1>5, <2>1, <2>3, <2>4, <2>5
       DEF KeysServe, NewKeyLoad, CreateKey, KeyLoad, Revoke, Delete
<1> QED
  BY <1>2, <1>4, <1>5, StoreSteps

LEMMA AlwaysAdmitted == Spec => []AdmittedFit
<1>1. Init => AdmittedFit
  BY DEF Init, HandlersInit, AdmittedFit, Working
<1>2. HandlersFit /\ OneAtATime /\ TablesFit /\ AdmittedFit /\ [Next]_vars => AdmittedFit'
  BY NextAdmitted
<1> QED
  BY <1>1, <1>2, AlwaysHandlersFit, AlwaysOneAtATime, AlwaysTablesFit, PTL DEF Spec

(* RevokedKeysAreDead: no request that was admitted before brings a        *)
(* revoked or deleted key back, and none stores a trace for a deleted key, *)
(* nor, alone in progress, for one that is not active.                     *)
THEOREM DeadKeysStayDead == Spec => RevokedKeysAreDead
<1> DEFINE NeverBack ==
             /\ \A id \in DOMAIN keys : Dead(id) => Dead(id)'
             /\ Len(traces') > Len(traces) =>
                  LET id == traces'[Len(traces')].key IN keys[id] # Null /\ (Dead(id) => overlap)
<1>1. HandlersFit /\ TablesFit /\ AdmittedFit /\ [Next]_vars => NeverBack
  <2> SUFFICES ASSUME HandlersFit, TablesFit, AdmittedFit, [Next]_vars PROVE NeverBack
    OBVIOUS
  <2>1. KeysKept /\ (Len(traces') = Len(traces) \/ \E h \in Handler : Stores(h))
    BY TableSteps
  <2>2. ASSUME NEW id \in DOMAIN keys, Dead(id) PROVE Dead(id)'
    BY <2>1, <2>2 DEF KeysKept, Dead
  <2>3. ASSUME NEW h \in Handler, Stores(h)
        PROVE  LET id == traces'[Len(traces')].key IN keys[id] # Null /\ (Dead(id) => overlap)
    <3>1. traces'[Len(traces')] = NewTrace(req[h], work[h].project, work[h].at)
      BY <2>3 DEF Stores
    <3>2. traces'[Len(traces')].key = req[h].key
      BY <3>1 DEF NewTrace
    <3>3. keys[req[h].key] # Null /\ pc[h] \in Working /\ req[h].op = "ingest"
      BY <2>3 DEF Stores, StoreTrace, Ingesting, Working
    <3>4. ~ overlap => keys[req[h].key].status = "ACTIVE"
      BY <3>3 DEF AdmittedFit, Quiet
    <3> QED
      BY <3>2, <3>3, <3>4 DEF Dead, HandlersFit
  <2>4. ASSUME Len(traces') = Len(traces) PROVE ~ (Len(traces') > Len(traces))
    <3>1. Len(traces) \in Nat
      BY DEF TablesFit, TracesOK
    <3> QED
      BY <2>4, <3>1
  <2> QED
    BY <2>1, <2>2, <2>3, <2>4
<1>2. NeverBack => [NeverBack]_<<keys, traces>>
  OBVIOUS
<1> QED
  BY <1>1, <1>2, AlwaysHandlersFit, AlwaysTablesFit, AlwaysAdmitted, PTL DEF Spec, RevokedKeysAreDead

-----------------------------------------------------------------------------
(* Projects, agents and environments *)

ProjectSession(h) ==
  /\ pc[h] \in Working /\ req[h].op \in {"edit", "bump", "status"} =>
       req[h].id \in DOMAIN catalog[req[h].kind] /\ work[h].row \in CatalogRow
  /\ pc[h] \in Working /\ req[h].op = "drop" => req[h].id \in DOMAIN catalog[req[h].kind]

CatalogOK ==
  /\ catalog \in [Kind -> Seq(CatalogRow \cup {Null})]
  /\ \A kind \in {"agent", "environment"} : \A n \in Rows(kind) :
       Row("project", catalog[kind][n].parent) # Null

CatalogFit == CatalogOK /\ \A h \in Handler : ProjectSession(h)

(* What may become of a row: it keeps its parent, and its id is not used   *)
(* again.                                                                  *)
CatalogKept ==
  \A kind \in Kind : \A n \in DOMAIN catalog[kind] :
    /\ n \in DOMAIN catalog'[kind] /\ (catalog[kind][n] = Null => catalog'[kind][n] = Null)
    /\ catalog[kind][n] # Null /\ catalog'[kind][n] # Null =>
         catalog'[kind][n].parent = catalog[kind][n].parent

LEMMA RowFacts ==
  ASSUME catalog \in [Kind -> Seq(CatalogRow \cup {Null})], NEW kind \in Kind, NEW id, Row(kind, id) # Null
  PROVE  /\ id \in DOMAIN catalog[kind] /\ id \in Nat /\ id \in Rows(kind)
         /\ Row(kind, id) = catalog[kind][id] /\ Row(kind, id) \in CatalogRow
<1>1. catalog[kind] \in Seq(CatalogRow \cup {Null}) /\ id \in DOMAIN catalog[kind] /\ Row(kind, id) = catalog[kind][id]
  BY DEF Row
<1> QED
  BY <1>1 DEF Rows

LEMMA BumpFits ==
  ASSUME NEW version \in Version
  PROVE  Bump(version) \in Version
<1>1. /\ version \in Seq(Nat \cup {Null}) /\ version # << >> /\ Len(version) \in DOMAIN version
      /\ version[Len(version)] \in Nat \cup {Null}
  BY DEF Version
<1>2. CASE Last(version) = Null
  <2>1. Append(version, 1) \in Seq(Nat \cup {Null}) /\ Append(version, 1) # << >>
    BY <1>1
  <2> QED
    BY <1>2, <2>1 DEF Bump, Version
<1>3. CASE Last(version) # Null
  <2> DEFINE new == version[Len(version)] + 1
  <2>1. version[Len(version)] \in Nat
    BY <1>1, <1>3 DEF Last
  <2>2. new \in Nat \cup {Null}
    BY <2>1
  <2>3. Bump(version) = [version EXCEPT ![Len(version)] = new]
    BY <1>3 DEF Bump
  <2> HIDE DEF new
  <2>4. Bump(version) \in Seq(Nat \cup {Null}) /\ Len(Bump(version)) = Len(version)
    BY <1>1, <2>2, <2>3, ExceptSeq
  <2>5. Bump(version) # << >>
    BY <1>1, <2>4
  <2> QED
    BY <2>4, <2>5 DEF Version
<1> QED
  BY <1>2, <1>3

(* What a request assigns to a row fits its columns, and never its parent. *)
Assignable(fields) ==
  \A f \in DOMAIN fields :
    /\ f \in {"slug", "title", "version", "status"}
    /\ f \in {"slug", "title"} => fields[f] \in Name
    /\ f = "version" => fields[f] \in Version
    /\ f = "status" => fields[f] \in AgentStatus

LEMMA AssignedFits ==
  ASSUME NEW q \in Requests, q.op \in {"edit", "bump", "status"}, NEW row \in CatalogRow
  PROVE  Assignable(Assigned(q, row)) /\ Assignable(Changed(Assigned(q, row), row))
<1> DEFINE fields == Assigned(q, row)
<1>1. CASE q.op = "edit"
  <2>1. fields = q.fields
    BY <1>1 DEF Assigned
  <2>2. \A f \in DOMAIN q.fields : f \in {"slug", "title"} /\ q.fields[f] \in Name
    BY <1>1, ProjectsAssumption
  <2> QED
    BY <2>1, <2>2 DEF Assignable, Changed
<1>2. CASE q.op = "bump"
  <2> DEFINE version == IF q.version = Null THEN Bump(row.version) ELSE q.version
  <2>1. fields = [version |-> version]
    BY <1>2 DEF Assigned
  <2>2. version \in Version
    BY <1>2, BumpFits, ProjectsAssumption DEF CatalogRow
  <2> HIDE DEF version
  <2> QED
    BY <2>1, <2>2 DEF Assignable, Changed
<1>3. CASE q.op = "status"
  <2>1. fields = [status |-> q.status] /\ q.status \in AgentStatus
    BY <1>3, ProjectsAssumption DEF Assigned
  <2> QED
    BY <2>1 DEF Assignable, Changed
<1> QED
  BY <1>1, <1>2, <1>3

LEMMA SetCatalogRow ==
  ASSUME NEW row \in CatalogRow, NEW fields, Assignable(fields)
  PROVE  Set(row, fields) \in CatalogRow /\ Set(row, fields).parent = row.parent
<1>1. /\ DOMAIN row = {"parent", "slug", "title", "version", "status"}
      /\ row.slug \in Name /\ row.title \in Name /\ row.version \in Version /\ row.status \in AgentStatus
      /\ row.parent \in Organizations \cup Nat
  BY DEF CatalogRow
<1>2. /\ "slug" \in DOMAIN fields => fields["slug"] \in Name
      /\ "title" \in DOMAIN fields => fields["title"] \in Name
      /\ "version" \in DOMAIN fields => fields["version"] \in Version
      /\ "status" \in DOMAIN fields => fields["status"] \in AgentStatus
      /\ "parent" \notin DOMAIN fields
  BY DEF Assignable
<1>3. Set(row, fields) =
        [parent  |-> row.parent,
         slug    |-> IF "slug" \in DOMAIN fields THEN fields["slug"] ELSE row.slug,
         title   |-> IF "title" \in DOMAIN fields THEN fields["title"] ELSE row.title,
         version |-> IF "version" \in DOMAIN fields THEN fields["version"] ELSE row.version,
         status  |-> IF "status" \in DOMAIN fields THEN fields["status"] ELSE row.status]
  BY <1>1, <1>2 DEF Set
<1> QED
  BY <1>1, <1>2, <1>3 DEF CatalogRow

CatalogOps == ProjectOps \cup {"drop"}

LEMMA CatalogSteps ==
  ASSUME HandlersFit, [Next]_vars
  PROVE  \/ catalog' = catalog /\ Untouched(CatalogOps)
         \/ \E h \in Handler : ProjectsServe(h) /\ UNCHANGED <<pricing, evaluations, privacy, keys, workload>>
         \/ \E h \in Handler : DeletionsServe(h) /\ workload' = workload
<1>1. CASE Aside
  BY <1>1 DEF Aside, Untouched
<1>2. ASSUME NEW h \in Handler, PricingServe(h) \/ EvaluationsServe(h) \/ PrivacyServe(h) \/ KeysServe(h),
             catalog' = catalog, workload' = workload
      PROVE  catalog' = catalog /\ Untouched(CatalogOps)
  <2>1. Moves(h) /\ req[h].op \notin CatalogOps
    BY <1>2, PricingMoves, EvaluationsMoves, PrivacyMoves, KeysMoves
       DEF PricingOps, EvaluationOps, KeyOps, PrivacyOps, ProjectOps, CatalogOps
  <2> QED
    BY <1>2, <2>1, MovesOne
<1> QED
  BY <1>1, <1>2, Steps

(* The ways the tables change, and what is left to show of each.           *)
LEMMA AppendedRow ==
  ASSUME CatalogOK, NEW kind \in Kind, NEW row \in CatalogRow, ParentExists(kind, row.parent),
         catalog' = [catalog EXCEPT ![kind] = Append(catalog[kind], row)]
  PROVE  /\ CatalogOK' /\ CatalogKept /\ Len(catalog[kind]) + 1 \in Nat
         /\ Len(catalog[kind]) + 1 \notin DOMAIN catalog[kind]
         /\ DOMAIN catalog'[kind] = DOMAIN catalog[kind] \cup {Len(catalog[kind]) + 1}
         /\ catalog'[kind][Len(catalog[kind]) + 1] = row
         /\ \A k \in Kind : \A n \in DOMAIN catalog[k] : n \in DOMAIN catalog'[k] /\ catalog'[k][n] = catalog[k][n]
<1> DEFINE rows == Append(catalog[kind], row)
           new == Len(catalog[kind]) + 1
<1>1. catalog[kind] \in Seq(CatalogRow \cup {Null}) /\ row \in CatalogRow \cup {Null}
  BY DEF CatalogOK
<1>2. /\ rows \in Seq(CatalogRow \cup {Null}) /\ DOMAIN rows = DOMAIN catalog[kind] \cup {new}
      /\ new \notin DOMAIN catalog[kind] /\ new \in Nat
      /\ rows[new] = row /\ \A n \in DOMAIN catalog[kind] : rows[n] = catalog[kind][n]
  BY <1>1
<1>3. catalog' = [catalog EXCEPT ![kind] = rows]
  OBVIOUS
<1> HIDE DEF rows
<1>4. /\ catalog' \in [Kind -> Seq(CatalogRow \cup {Null})] /\ catalog'[kind] = rows
      /\ \A k \in Kind : k # kind => catalog'[k] = catalog[k]
  BY <1>2, <1>3 DEF CatalogOK
<1>5. \A k \in Kind : \A n \in DOMAIN catalog[k] : n \in DOMAIN catalog'[k] /\ catalog'[k][n] = catalog[k][n]
  BY <1>2, <1>4
<1>6. \A id : Row("project", id) # Null => Row("project", id)' # Null
  BY <1>5 DEF Row, Kind
<1>7. ASSUME NEW k \in {"agent", "environment"}, NEW n \in Rows(k)'
      PROVE  Row("project", catalog[k][n].parent)' # Null
  <2>1. CASE n \in DOMAIN catalog[k]
    <3>1. n \in Rows(k) /\ catalog'[k][n] = catalog[k][n]
      BY <1>5, <1>7, <2>1 DEF Rows, Kind
    <3>2. Row("project", catalog[k][n].parent) # Null
      BY <1>7, <3>1 DEF CatalogOK
    <3> QED
      BY <1>6, <3>1, <3>2
  <2>2. CASE n \notin DOMAIN catalog[k]
    <3>1. k = kind /\ catalog'[k][n] = row
      BY <1>2, <1>4, <1>7, <2>2 DEF Rows, Kind
    <3>2. Row("project", row.parent) # Null
      BY <1>7, <3>1 DEF ParentExists
    <3> QED
      BY <1>6, <3>1, <3>2
  <2> QED
    BY <2>1, <2>2
<1>8. CatalogOK'
  BY <1>4, <1>7 DEF CatalogOK
<1>9. CatalogKept
  BY <1>5 DEF CatalogKept
<1> QED
  BY <1>2, <1>4, <1>5, <1>8, <1>9 DEF rows

LEMMA ChangedCatalog ==
  ASSUME CatalogOK, NEW kind \in Kind, NEW id, Row(kind, id) # Null, NEW row \in CatalogRow,
         row.parent = Row(kind, id).parent, NEW rows, rows = [catalog[kind] EXCEPT ![id] = row],
         catalog' = [catalog EXCEPT ![kind] = rows]
  PROVE  /\ CatalogOK' /\ CatalogKept /\ id \in DOMAIN catalog[kind] /\ catalog'[kind][id] = row
         /\ \A k \in Kind : DOMAIN catalog'[k] = DOMAIN catalog[k]
         /\ \A k \in Kind : \A n \in DOMAIN catalog[k] :
              <<k, n>> # <<kind, id>> => catalog'[k][n] = catalog[k][n]
<1>1. /\ catalog[kind] \in Seq(CatalogRow \cup {Null}) /\ row \in CatalogRow \cup {Null} /\ row # Null
      /\ id \in DOMAIN catalog[kind] /\ catalog[kind][id] = Row(kind, id)
  BY RowFacts, ProjectsAssumption DEF CatalogOK
<1>2. /\ rows \in Seq(CatalogRow \cup {Null}) /\ DOMAIN rows = DOMAIN catalog[kind]
      /\ rows[id] = row /\ \A n \in DOMAIN catalog[kind] : n # id => rows[n] = catalog[kind][n]
  BY <1>1, ExceptSeq
<1>3. /\ catalog' \in [Kind -> Seq(CatalogRow \cup {Null})] /\ catalog'[kind] = rows
      /\ \A k \in Kind : k # kind => catalog'[k] = catalog[k]
  BY <1>2 DEF CatalogOK
<1>4. /\ \A k \in Kind : DOMAIN catalog'[k] = DOMAIN catalog[k]
      /\ \A k \in Kind : \A n \in DOMAIN catalog[k] :
           <<k, n>> # <<kind, id>> => catalog'[k][n] = catalog[k][n]
  BY <1>2, <1>3
<1>5. catalog'[kind][id] = row
  BY <1>1, <1>2, <1>3
<1>6. CatalogKept
  BY <1>1, <1>2, <1>3, <1>4 DEF CatalogKept
<1>7. \A k \in Kind : \A n \in DOMAIN catalog[k] : catalog'[k][n] = Null => catalog[k][n] = Null
  BY <1>1, <1>2, <1>3, <1>4
<1>8. ASSUME NEW k \in {"agent", "environment"}, NEW n \in Rows(k)'
      PROVE  Row("project", catalog[k][n].parent)' # Null
  <2>1. k \in Kind /\ n \in Rows(k) /\ catalog'[k][n].parent = catalog[k][n].parent
    BY <1>4, <1>6, <1>8 DEF Rows, CatalogKept, Kind
  <2>2. Row("project", catalog[k][n].parent) # Null
    BY <1>8, <2>1 DEF CatalogOK
  <2> QED
    BY <1>4, <1>7, <2>1, <2>2 DEF Row, Kind
<1> QED
  BY <1>3, <1>4, <1>5, <1>6, <1>8 DEF CatalogOK

(* The row becomes new, and no other changes.                              *)
Edited(kind, id, new) ==
  /\ id \in DOMAIN catalog[kind] /\ catalog'[kind][id] = new
  /\ \A k \in Kind : DOMAIN catalog'[k] = DOMAIN catalog[k]
  /\ \A k \in Kind : \A n \in DOMAIN catalog[k] :
       <<k, n>> # <<kind, id>> => catalog'[k][n] = catalog[k][n]

LEMMA EditedRow ==
  ASSUME CatalogOK, NEW kind \in Kind, NEW id, Row(kind, id) # Null, NEW row \in CatalogRow,
         row.parent = Row(kind, id).parent, catalog' = [catalog EXCEPT ![kind][id] = row]
  PROVE  CatalogOK' /\ CatalogKept /\ Edited(kind, id, row)
<1>1. PICK rows : rows = [catalog[kind] EXCEPT ![id] = row]
  OBVIOUS
<1>2. catalog' = [catalog EXCEPT ![kind] = rows]
  BY <1>1
<1>3. id \in DOMAIN catalog[kind] /\ kind \in DOMAIN catalog
  BY RowFacts DEF CatalogOK
<1>4. catalog'[kind][id] = row
  BY <1>1, <1>2, <1>3
<1>5. CatalogKept /\ CatalogOK'
  BY <1>1, <1>2, ChangedCatalog
<1>6. \A k \in Kind : DOMAIN catalog'[k] = DOMAIN catalog[k]
  BY <1>1, <1>2, ChangedCatalog
<1>7. \A k \in Kind : \A n \in DOMAIN catalog[k] :
        <<k, n>> # <<kind, id>> => catalog'[k][n] = catalog[k][n]
  BY <1>1, <1>2, ChangedCatalog
<1> QED
  BY <1>3, <1>4, <1>5, <1>6, <1>7 DEF Edited

LEMMA DroppedRows ==
  ASSUME CatalogOK, NEW kind \in Kind, NEW id, catalog' = CatalogWithout(kind, id)
  PROVE  /\ CatalogOK' /\ CatalogKept
         /\ \A k \in Kind : DOMAIN catalog'[k] = DOMAIN catalog[k]
         /\ \A k \in Kind : \A n \in DOMAIN catalog[k] :
              catalog'[k][n] = IF n \in Goes(kind, id, k) THEN Null ELSE catalog[k][n]
<1>1. ASSUME NEW k \in Kind
      PROVE  /\ catalog'[k] = [n \in DOMAIN catalog[k] |-> IF n \in Goes(kind, id, k) THEN Null ELSE catalog[k][n]]
             /\ catalog'[k] \in Seq(CatalogRow \cup {Null})
  <2>1. catalog'[k] = [n \in DOMAIN catalog[k] |-> IF n \in Goes(kind, id, k) THEN Null ELSE catalog[k][n]]
    BY DEF CatalogWithout
  <2>2. catalog[k] \in Seq(CatalogRow \cup {Null})
    BY DEF CatalogOK
  <2>3. /\ catalog'[k] = [n \in DOMAIN catalog[k] |-> catalog'[k][n]]
        /\ \A n \in DOMAIN catalog[k] : catalog'[k][n] \in CatalogRow \cup {Null}
    BY <2>1, <2>2
  <2> QED
    BY <2>1, <2>2, <2>3, RowByRow
<1>2. catalog' \in [Kind -> Seq(CatalogRow \cup {Null})]
  BY <1>1 DEF CatalogWithout
<1>3. /\ \A k \in Kind : DOMAIN catalog'[k] = DOMAIN catalog[k]
      /\ \A k \in Kind : \A n \in DOMAIN catalog[k] :
           catalog'[k][n] = IF n \in Goes(kind, id, k) THEN Null ELSE catalog[k][n]
  BY <1>1
<1>4. CatalogKept
  BY <1>3 DEF CatalogKept
<1>5. ASSUME NEW k \in {"agent", "environment"}, NEW n \in Rows(k)'
      PROVE  Row("project", catalog[k][n].parent)' # Null
  <2>1. k \in Kind /\ "project" \in Kind /\ n \in Rows(k) /\ catalog'[k][n] = catalog[k][n] /\ n \notin Goes(kind, id, k)
    BY <1>3, <1>5 DEF Rows, Kind
  <2>2. Row("project", catalog[k][n].parent) # Null
    BY <1>5, <2>1 DEF CatalogOK
  <2>3. catalog[k][n].parent \notin Goes(kind, id, "project")
    BY <1>5, <2>1 DEF Goes, MembersOf, Kind
  <2> QED
    BY <1>3, <2>1, <2>2, <2>3 DEF Row
<1> QED
  BY <1>2, <1>3, <1>4, <1>5 DEF CatalogOK

LEMMA DomainsStay ==
  ASSUME CatalogKept
  PROVE  \A kind \in Kind : DOMAIN catalog[kind] \subseteq DOMAIN catalog'[kind]
BY DEF CatalogKept

LEMMA KindOf ==
  ASSUME NEW q \in Requests, q.op \in {"create", "edit", "bump", "status", "drop"}
  PROVE  q.kind \in Kind
BY ProjectsAssumption

LEMMA CatalogLeft ==
  ASSUME HandlersFit, CatalogFit, NEW h \in Handler, Moves(h), workload' = workload,
         CatalogOK', CatalogKept, ProjectSession(h)'
  PROVE  CatalogFit'
<1>1. ASSUME NEW g \in Handler, g # h PROVE ProjectSession(g)'
  <2>1. ProjectSession(g) /\ pc'[g] = pc[g] /\ req'[g] = req[g] /\ work'[g] = work[g]
    BY <1>1, MovesOne DEF CatalogFit
  <2>2. pc[g] \in Working /\ req[g].op \in CatalogOps => req[g].kind \in Kind
    BY KindOf DEF HandlersFit, Working, CatalogOps, ProjectOps
  <2> QED
    BY <2>1, <2>2, DomainsStay DEF ProjectSession, CatalogOps, ProjectOps
<1> QED
  BY <1>1 DEF CatalogFit

LEMMA SameCatalog ==
  ASSUME CatalogFit, catalog' = catalog
  PROVE  CatalogOK' /\ CatalogKept
BY DEF CatalogFit, CatalogOK, CatalogKept, Rows, Row

LEMMA ProjectAnswered ==
  ASSUME HandlersFit, NEW h \in Handler, NEW c, NEW row, Respond(h, c, row)
  PROVE  ProjectSession(h)'
<1>1. pc'[h] = "done"
  BY DEF Respond, HandlersFit
<1> QED
  BY <1>1 DEF ProjectSession, Working

(* How a commit changes the tables.                                        *)
LEMMA CreateAppends ==
  ASSUME HandlersFit, CatalogFit, NEW h \in Handler, CreateCommit(h), catalog' # catalog
  PROVE  /\ req[h].kind \in Kind /\ NewRow(req[h]) \in CatalogRow /\ ParentExists(req[h].kind, NewRow(req[h]).parent)
         /\ catalog' = [catalog EXCEPT ![req[h].kind] = Append(catalog[req[h].kind], NewRow(req[h]))]
<1>1. Moves(h)
  BY ProjectsMoves DEF ProjectsServe
<1>2. req[h] \in Requests /\ req[h].op = "create"
  BY <1>1 DEF CreateCommit, HandlersFit, Moves, Busy
<1>3. NewRow(req[h]).parent = req[h].parent
  BY DEF NewRow
<1> QED
  BY <1>2, <1>3, KindOf, ProjectsAssumption DEF CreateCommit

LEMMA ChangeSets ==
  ASSUME HandlersFit, CatalogFit, NEW h \in Handler, ChangeCommit(h), catalog' # catalog
  PROVE  LET q      == req[h]
             fields == Changed(Assigned(q, work[h].row), work[h].row)
             row    == Set(Row(q.kind, q.id), fields)
         IN
         /\ q.kind \in Kind /\ Row(q.kind, q.id) # Null /\ row \in CatalogRow
         /\ row.parent = Row(q.kind, q.id).parent
         /\ catalog' = [catalog EXCEPT ![q.kind][q.id] = row]
<1> DEFINE q == req[h]
           fields == Changed(Assigned(q, work[h].row), work[h].row)
<1>1. Moves(h)
  BY ProjectsMoves DEF ProjectsServe
<1>2. q \in Requests /\ q.op \in {"edit", "bump", "status"} /\ pc[h] = "commit"
  BY <1>1 DEF ChangeCommit, HandlersFit, Moves, Busy
<1>3. q.kind \in Kind /\ work[h].row \in CatalogRow
  BY <1>2, KindOf DEF CatalogFit, ProjectSession, Working
<1>4. Assignable(fields)
  BY <1>2, <1>3, AssignedFits
<1>5. Row(q.kind, q.id) # Null /\ catalog' = [catalog EXCEPT ![q.kind][q.id] = Set(@, fields)]
  BY DEF ChangeCommit
<1>6. Row(q.kind, q.id) \in CatalogRow /\ Row(q.kind, q.id) = catalog[q.kind][q.id]
  BY <1>3, <1>5, RowFacts DEF CatalogFit, CatalogOK
<1> HIDE DEF fields
<1>7. Set(Row(q.kind, q.id), fields) \in CatalogRow /\ Set(Row(q.kind, q.id), fields).parent = Row(q.kind, q.id).parent
  BY <1>4, <1>6, SetCatalogRow
<1>8. catalog' = [catalog EXCEPT ![q.kind][q.id] = Set(Row(q.kind, q.id), fields)]
  BY <1>5, <1>6
<1> QED
  BY <1>3, <1>5, <1>7, <1>8 DEF fields

LEMMA ProjectTables ==
  ASSUME HandlersFit, CatalogFit, NEW h \in Handler, ProjectsServe(h), workload' = workload
  PROVE  /\ CatalogFit' /\ CatalogKept
         /\ \A kind \in Kind : \A id : Row(kind, id) # Null => Row(kind, id)' # Null
<1> DEFINE q == req[h]
<1>1. Moves(h) /\ req'[h] = q /\ q \in Requests /\ CatalogOK /\ ProjectSession(h)
  BY ProjectsMoves, MovesOne DEF CatalogFit
<1>2. ASSUME catalog' = catalog, ProjectSession(h)'
      PROVE  /\ CatalogFit' /\ CatalogKept
             /\ \A kind \in Kind : \A id : Row(kind, id) # Null => Row(kind, id)' # Null
  BY <1>1, <1>2, SameCatalog, CatalogLeft DEF Row
<1>3. CASE CreateLoad(h)
  <2>1. catalog' = catalog /\ q.op = "create"
    BY <1>3 DEF CreateLoad
  <2> QED
    BY <1>1, <1>2, <2>1 DEF ProjectSession
<1>4. CASE CreateCommit(h)
  <2>1. \E c, row : Respond(h, c, row)
    BY <1>4 DEF CreateCommit
  <2>2. CASE catalog' = catalog
    BY <1>2, <2>1, <2>2, ProjectAnswered
  <2>3. CASE catalog' # catalog
    <3> DEFINE kind == q.kind
               row == NewRow(q)
    <3>1. /\ kind \in Kind /\ row \in CatalogRow /\ ParentExists(kind, row.parent)
          /\ catalog' = [catalog EXCEPT ![kind] = Append(catalog[kind], row)]
      BY <1>4, <2>3, CreateAppends
    <3> HIDE DEF row
    <3>2. /\ CatalogOK' /\ CatalogKept
          /\ \A k \in Kind : \A n \in DOMAIN catalog[k] : n \in DOMAIN catalog'[k] /\ catalog'[k][n] = catalog[k][n]
      BY <1>1, <3>1, AppendedRow
    <3> QED
      BY <1>1, <2>1, <3>2, CatalogLeft, ProjectAnswered DEF Row
  <2> QED
    BY <2>2, <2>3
<1>5. CASE ChangeLoad(h)
  <2>1. catalog' = catalog /\ q.op \in {"edit", "bump", "status"} /\ q.kind \in Kind
    BY <1>1, <1>5, KindOf DEF ChangeLoad
  <2>2. ProjectSession(h)'
    <3> DEFINE row == Row(q.kind, q.id)
    <3>1. CASE \E c, answer : Respond(h, c, answer)
      BY <3>1, ProjectAnswered
    <3>2. CASE Continue(h, "commit", [row |-> row]) /\ Visible(q.kind, q.id)
      <4>1. work'[h] = [row |-> row]
        BY <3>2 DEF Continue, HandlersFit
      <4>2. work'[h].row = row
        BY <4>1
      <4>3. row \in CatalogRow /\ q.id \in DOMAIN catalog[q.kind]
        BY <1>1, <2>1, <3>2, RowFacts DEF Visible, CatalogOK
      <4> QED
        BY <1>1, <2>1, <4>2, <4>3 DEF ProjectSession
    <3> QED
      BY <1>5, <3>1, <3>2 DEF ChangeLoad
  <2> QED
    BY <1>2, <2>1, <2>2
<1>6. CASE ChangeCommit(h)
  <2>1. \E c, row : Respond(h, c, row)
    BY <1>6 DEF ChangeCommit
  <2>2. CASE catalog' = catalog
    BY <1>2, <2>1, <2>2, ProjectAnswered
  <2>3. CASE catalog' # catalog
    <3> DEFINE row == Set(Row(q.kind, q.id), Changed(Assigned(q, work[h].row), work[h].row))
    <3>1. /\ q.kind \in Kind /\ Row(q.kind, q.id) # Null /\ row \in CatalogRow
          /\ row.parent = Row(q.kind, q.id).parent
          /\ catalog' = [catalog EXCEPT ![q.kind][q.id] = row]
      BY <1>6, <2>3, ChangeSets
    <3> HIDE DEF row
    <3>2. PICK kind \in Kind : kind = q.kind
      BY <3>1
    <3>3. PICK id : id = q.id
      OBVIOUS
    <3>4. PICK new \in CatalogRow : new = row
      BY <3>1
    <3>5. CatalogOK
      BY <1>1
    <3>6. /\ Row(kind, id) # Null /\ new.parent = Row(kind, id).parent
          /\ catalog' = [catalog EXCEPT ![kind][id] = new]
      BY <3>1, <3>2, <3>3, <3>4
    <3>7. /\ CatalogOK' /\ CatalogKept /\ id \in DOMAIN catalog[kind] /\ catalog'[kind][id] = new
          /\ \A k \in Kind : DOMAIN catalog'[k] = DOMAIN catalog[k]
          /\ \A k \in Kind : \A n \in DOMAIN catalog[k] :
              <<k, n>> # <<kind, id>> => catalog'[k][n] = catalog[k][n]
      <4>1. CatalogOK' /\ CatalogKept /\ Edited(kind, id, new)
        BY <3>5, <3>6, EditedRow
      <4> QED
        BY <4>1 DEF Edited
    <3>8. ASSUME NEW k \in Kind, NEW n, Row(k, n) # Null PROVE Row(k, n)' # Null
      <4>1. CASE k = kind /\ n = id
        BY <3>7, <4>1, ProjectsAssumption DEF Row
      <4>2. CASE ~ (k = kind /\ n = id)
        BY <3>7, <3>8, <4>2 DEF Row
      <4> QED
        BY <4>1, <4>2
    <3> QED
      BY <1>1, <2>1, <3>7, <3>8, CatalogLeft, ProjectAnswered
  <2> QED
    BY <2>2, <2>3
<1> QED
  BY <1>3, <1>4, <1>5, <1>6 DEF ProjectsServe

(* A deletion that did not fail.                                           *)
Drops(h) ==
  /\ Drop(h) /\ catalog' = CatalogWithout(req[h].kind, req[h].id)
  /\ traces' = TracesWithout(req[h].kind, req[h].id, work[h].traces)
  /\ keys' = KeysWithout(req[h].kind, req[h].id, work[h].keys)
  /\ datasets' = DatasetsWithout(req[h].kind, req[h].id)
  /\ runs' = RunsWithout(Goes(req[h].kind, req[h].id, "agent"))

LEMMA DeletionTables ==
  ASSUME HandlersFit, CatalogFit, NEW h \in Handler, DeletionsServe(h), workload' = workload
  PROVE  /\ CatalogFit' /\ CatalogKept
         /\ UNCHANGED <<catalog, keys, traces, datasets, runs>> \/ Drops(h)
<1> DEFINE q == req[h]
<1>1. Moves(h) /\ req'[h] = q /\ q \in Requests /\ q.op = "drop" /\ CatalogOK /\ ProjectSession(h) /\ q.kind \in Kind
  BY DeletionsMoves, MovesOne, KindOf DEF CatalogFit
<1>2. UNCHANGED <<catalog, keys, traces, datasets, runs>> \/ Drops(h)
  BY DEF DeletionsServe, DropLoad, Drop, Drops, privacy, evaluations
<1>3. CASE catalog' = catalog
  <2>1. ProjectSession(h)'
    <3>1. CASE DropLoad(h)
      <4>1. Visible(q.kind, q.id) => q.id \in DOMAIN catalog[q.kind]
        BY <1>1, RowFacts DEF Visible, CatalogOK
      <4>2. CASE Visible(q.kind, q.id)
        BY <1>1, <1>3, <4>1, <4>2 DEF ProjectSession
      <4>3. CASE ~ Visible(q.kind, q.id)
        BY <3>1, <4>3, ProjectAnswered DEF DropLoad
      <4> QED
        BY <4>2, <4>3
    <3>2. CASE Drop(h)
      BY <3>2, ProjectAnswered DEF Drop
    <3> QED
      BY <3>1, <3>2 DEF DeletionsServe
  <2> QED
    BY <1>1, <1>2, <1>3, <2>1, SameCatalog, CatalogLeft
<1>4. CASE Drops(h)
  <2>1. CatalogOK' /\ CatalogKept
    BY <1>1, <1>4, DroppedRows DEF Drops
  <2>2. ProjectSession(h)'
    BY <1>4, ProjectAnswered DEF Drops, Drop
  <2> QED
    BY <1>1, <1>2, <2>1, <2>2, CatalogLeft
<1> QED
  BY <1>2, <1>3, <1>4

LEMMA CatalogChanges ==
  ASSUME HandlersFit, CatalogFit, [Next]_vars
  PROVE  CatalogFit' /\ CatalogKept
<1>1. CASE catalog' = catalog /\ Untouched(CatalogOps)
  <2>1. CatalogOK' /\ CatalogKept
    BY <1>1, SameCatalog
  <2> QED
    BY <1>1, <2>1 DEF CatalogFit, ProjectSession, Untouched, CatalogOps, ProjectOps
<1> QED
  BY <1>1, CatalogSteps, ProjectTables, DeletionTables

LEMMA AlwaysCatalogFit == Spec => []CatalogFit
<1>1. Init => CatalogFit
  <2> SUFFICES ASSUME Init PROVE CatalogFit
    OBVIOUS
  <2>1. /\ catalog = StoredCatalog /\ StoredCatalog \in [Kind -> Seq(CatalogRow)]
        /\ \A kind \in {"agent", "environment"} : \A n \in DOMAIN StoredCatalog[kind] :
             StoredCatalog[kind][n].parent \in DOMAIN StoredCatalog.project
    BY ProjectsAssumption DEF Init
  <2>2. catalog \in [Kind -> Seq(CatalogRow \cup {Null})]
    BY <2>1
  <2>3. \A n \in DOMAIN StoredCatalog.project : StoredCatalog.project[n] \in CatalogRow
    BY <2>1 DEF Kind
  <2>4. \A n \in DOMAIN StoredCatalog.project : Row("project", n) # Null
    BY <2>1, <2>3, ProjectsAssumption DEF Row
  <2>5. CatalogOK
    BY <2>1, <2>2, <2>4 DEF CatalogOK, Rows
  <2> QED
    BY <2>5 DEF CatalogFit, ProjectSession, Init, HandlersInit, Working
<1>2. HandlersFit /\ CatalogFit /\ [Next]_vars => CatalogFit'
  BY CatalogChanges
<1> QED
  BY <1>1, <1>2, AlwaysHandlersFit, PTL DEF Spec

-----------------------------------------------------------------------------
(* Scopes *)

(* Rows the organisation has, and rows that are so unless they are gone.   *)
Ours(kind) == {id \in Rows(kind) : Visible(kind, id)}

Known(kind) == {id \in DOMAIN catalog[kind] : id \in Rows(kind) => id \in Ours(kind)}

(* What is of the organisation stays so while it is there.                 *)
LEMMA OursStay ==
  ASSUME CatalogOK, CatalogOK', CatalogKept, NEW kind \in {"project", "agent"}, NEW id \in Ours(kind),
         id \in Rows(kind)'
  PROVE  id \in Ours(kind)'
<1>1. kind \in Kind /\ "project" \in Kind
  BY DEF Kind
<1>2. /\ id \in DOMAIN catalog[kind] /\ catalog[kind][id] # Null /\ catalog'[kind][id] # Null
      /\ id \in DOMAIN catalog'[kind] /\ Visible(kind, id)
  BY DEF Ours, Rows
<1>3. Row(kind, id) = catalog[kind][id] /\ Row(kind, id)' = catalog'[kind][id]
  BY <1>2 DEF Row
<1>4. catalog'[kind][id].parent = catalog[kind][id].parent
  BY <1>1, <1>2 DEF CatalogKept
<1>5. CASE kind = "project"
  BY <1>2, <1>3, <1>4, <1>5 DEF Visible, Ours
<1>6. CASE kind = "agent"
  <2> DEFINE p == catalog[kind][id].parent
  <2>1. PICK parent : parent = p
    OBVIOUS
  <2>2. Row("project", parent) # Null /\ Row("project", parent).parent = Organization
    BY <1>2, <1>3, <1>6, <2>1 DEF Visible
  <2>3. catalog'[kind][id].parent = parent
    BY <1>4, <2>1
  <2>4. Row("project", parent)' # Null
    BY <1>6, <2>3 DEF CatalogOK
  <2>5. /\ parent \in DOMAIN catalog["project"] /\ catalog["project"][parent] # Null
        /\ parent \in DOMAIN catalog'["project"] /\ catalog'["project"][parent] # Null
        /\ catalog["project"][parent].parent = Organization /\ Row("project", parent)' = catalog'["project"][parent]
    BY <2>2, <2>4 DEF Row
  <2>6. catalog'["project"][parent].parent = Organization
    BY <1>1, <2>5 DEF CatalogKept
  <2>7. Visible(kind, id)'
    <3>1. Row(kind, id)' # Null /\ Row(kind, id)'.parent = parent
      BY <1>2, <1>3, <2>3
    <3> QED
      BY <1>6, <2>4, <2>5, <2>6, <3>1 DEF Visible, Row
  <2> QED
    BY <2>7 DEF Ours
<1> QED
  BY <1>5, <1>6

LEMMA KnownStay ==
  ASSUME CatalogOK, CatalogOK', CatalogKept
  PROVE  Known("project") \subseteq Known("project")'
<1> SUFFICES ASSUME NEW id \in Known("project") PROVE id \in Known("project")'
  OBVIOUS
<1>1. id \in DOMAIN catalog["project"] /\ id \in DOMAIN catalog'["project"]
  BY DomainsStay DEF Known, Kind
<1>2. ASSUME id \in Rows("project")' PROVE id \in Ours("project")'
  <2>1. id \in Rows("project")
    BY <1>1, <1>2 DEF Rows, CatalogKept, Kind
  <2> QED
    BY <1>2, <2>1, OursStay DEF Known
<1> QED
  BY <1>1, <1>2 DEF Known

LEMMA RowsGone ==
  ASSUME CatalogKept, NEW kind \in Kind, NEW id \in DOMAIN catalog[kind], id \in Rows(kind)'
  PROVE  id \in Rows(kind) /\ catalog'[kind][id].parent = catalog[kind][id].parent
BY DEF Rows, CatalogKept

(* A deletion takes nothing but what goes with it.                         *)
LEMMA DropLeaves ==
  ASSUME CatalogOK, NEW h \in Handler, Drops(h), req[h].kind \in Kind
  PROVE  \A k \in Kind : \A id \in Rows(k) : id \notin Goes(req[h].kind, req[h].id, k) => id \in Rows(k)'
<1>1. PICK kind \in Kind : kind = req[h].kind
  OBVIOUS
<1>2. PICK x : x = req[h].id
  OBVIOUS
<1>3. /\ \A k \in Kind : DOMAIN catalog'[k] = DOMAIN catalog[k]
      /\ \A k \in Kind : \A n \in DOMAIN catalog[k] :
           catalog'[k][n] = IF n \in Goes(kind, x, k) THEN Null ELSE catalog[k][n]
  BY <1>1, <1>2, DroppedRows DEF Drops
<1> QED
  BY <1>1, <1>2, <1>3 DEF Rows

-----------------------------------------------------------------------------
(* Evaluations *)

(* Any sequence.                                                           *)
IsSeq(s) == s \in Seq(ToSet(s))

LEMMA AnySeq ==
  ASSUME NEW S, NEW s \in Seq(S)
  PROVE  IsSeq(s)
<1>1. s = [n \in DOMAIN s |-> s[n]] /\ \A n \in DOMAIN s : s[n] \in ToSet(s)
  BY DEF ToSet
<1> QED
  BY <1>1, RowByRow DEF IsSeq

LEMMA SeqFacts ==
  ASSUME NEW s, IsSeq(s)
  PROVE  Len(s) \in Nat /\ DOMAIN s = 1 .. Len(s) /\ DOMAIN s \subseteq Nat
BY DEF IsSeq

LEMMA EmptyAny == IsSeq(<< >>)
<1>1. << >> \in Seq({})
  OBVIOUS
<1> QED
  BY <1>1, AnySeq

LEMMA AppendAny ==
  ASSUME NEW s, IsSeq(s), NEW e
  PROVE  /\ IsSeq(Append(s, e)) /\ Len(Append(s, e)) = Len(s) + 1
         /\ DOMAIN Append(s, e) = DOMAIN s \cup {Len(s) + 1} /\ Len(s) + 1 \notin DOMAIN s
         /\ Append(s, e)[Len(s) + 1] = e /\ \A n \in DOMAIN s : Append(s, e)[n] = s[n]
<1> DEFINE S == ToSet(s) \cup {e}
<1>1. s \in Seq(S) /\ e \in S
  <2>1. s = [n \in DOMAIN s |-> s[n]] /\ \A n \in DOMAIN s : s[n] \in S
    BY DEF IsSeq, ToSet
  <2>2. s \in Seq(ToSet(s))
    BY DEF IsSeq
  <2> QED
    BY <2>1, <2>2, RowByRow
<1> HIDE DEF S
<1>2. Append(s, e) \in Seq(S)
  BY <1>1
<1>3. IsSeq(Append(s, e))
  BY <1>2, AnySeq
<1> QED
  BY <1>1, <1>3, AppendProperties

LEMMA ConcatAny ==
  ASSUME NEW s, IsSeq(s), NEW t, IsSeq(t)
  PROVE  /\ IsSeq(s \o t) /\ Len(s \o t) = Len(s) + Len(t)
         /\ \A n \in DOMAIN s : n \in DOMAIN (s \o t) /\ (s \o t)[n] = s[n]
         /\ \A n \in DOMAIN (s \o t) \ DOMAIN s : n - Len(s) \in DOMAIN t /\ (s \o t)[n] = t[n - Len(s)]
<1> DEFINE S == ToSet(s) \cup ToSet(t)
<1>1. s \in Seq(S) /\ t \in Seq(S)
  <2>1. s = [n \in DOMAIN s |-> s[n]] /\ \A n \in DOMAIN s : s[n] \in S
    BY DEF IsSeq, ToSet
  <2>2. t = [n \in DOMAIN t |-> t[n]] /\ \A n \in DOMAIN t : t[n] \in S
    BY DEF IsSeq, ToSet
  <2>3. s \in Seq(ToSet(s)) /\ t \in Seq(ToSet(t))
    BY DEF IsSeq
  <2> HIDE DEF S
  <2> QED
    BY <2>1, <2>2, <2>3, RowByRow
<1> HIDE DEF S
<1>2. /\ s \o t \in Seq(S) /\ Len(s \o t) = Len(s) + Len(t)
      /\ \A i \in 1 .. Len(s) + Len(t) : (s \o t)[i] = IF i <= Len(s) THEN s[i] ELSE t[i - Len(s)]
  BY <1>1, ConcatProperties
<1>3. /\ DOMAIN s = 1 .. Len(s) /\ DOMAIN t = 1 .. Len(t) /\ DOMAIN (s \o t) = 1 .. Len(s) + Len(t)
      /\ Len(s) \in Nat /\ Len(t) \in Nat
  BY <1>1, <1>2
<1>4. IsSeq(s \o t)
  BY <1>2, AnySeq
<1> QED
  BY <1>2, <1>3, <1>4

LEMMA MappedSeq ==
  ASSUME NEW s, IsSeq(s), NEW t, t = [n \in DOMAIN s |-> t[n]]
  PROVE  IsSeq(t) /\ Len(t) = Len(s) /\ DOMAIN t = DOMAIN s
<1>1. s \in Seq(ToSet(s)) /\ \A n \in DOMAIN s : t[n] \in ToSet(t)
  BY DEF IsSeq, ToSet
<1> QED
  BY <1>1, RowByRow DEF IsSeq

(* Rows of the organisation go with a deletion only, and nothing that is   *)
(* loaded under another name becomes one of them.                          *)
LEMMA OursLeft ==
  ASSUME HandlersFit, CatalogFit, [Next]_vars
  PROVE  /\ CatalogOK /\ CatalogOK' /\ CatalogKept /\ Known("project") \subseteq Known("project")'
         /\ \/ Ours("project") \subseteq Ours("project")' /\ Ours("agent") \subseteq Ours("agent")'
            \/ \E h \in Handler : DeletionsServe(h) /\ Drops(h) /\ workload' = workload
<1>1. CatalogOK /\ CatalogOK' /\ CatalogKept
  BY CatalogChanges DEF CatalogFit
<1>2. Known("project") \subseteq Known("project")'
  BY <1>1, KnownStay
<1>3. ASSUME \A kind \in Kind : \A id : Row(kind, id) # Null => Row(kind, id)' # Null
      PROVE  Ours("project") \subseteq Ours("project")' /\ Ours("agent") \subseteq Ours("agent")'
  <2>1. ASSUME NEW id \in Ours("project") PROVE id \in Ours("project")'
    <3>1. id \in Rows("project")'
      BY <1>3, <2>1, RowFacts DEF Ours, Visible, Kind, Rows, Row
    <3> QED
      BY <1>1, <2>1, <3>1, OursStay
  <2>2. ASSUME NEW id \in Ours("agent") PROVE id \in Ours("agent")'
    <3>1. id \in Rows("agent")'
      BY <1>3, <2>2, RowFacts DEF Ours, Visible, Kind, Rows, Row
    <3> QED
      BY <1>1, <2>2, <3>1, OursStay
  <2> QED
    BY <2>1, <2>2
<1>4. CASE catalog' = catalog
  <2>1. \A kind \in Kind : \A id : Row(kind, id) # Null => Row(kind, id)' # Null
    BY <1>4 DEF Row
  <2> QED
    BY <1>1, <1>2, <1>3, <2>1
<1>5. CASE \E h \in Handler : ProjectsServe(h) /\ workload' = workload
  <2>1. \A kind \in Kind : \A id : Row(kind, id) # Null => Row(kind, id)' # Null
    BY <1>5, ProjectTables
  <2> QED
    BY <1>1, <1>2, <1>3, <2>1
<1>6. CASE \E h \in Handler : DeletionsServe(h) /\ workload' = workload
  BY <1>1, <1>2, <1>4, <1>6, DeletionTables
<1> QED
  BY <1>1, <1>2, <1>4, <1>5, <1>6, CatalogSteps

LEMMA VisibleOurs ==
  ASSUME CatalogOK, NEW kind \in Kind, NEW id, Visible(kind, id)
  PROVE  id \in Ours(kind) /\ id \in DOMAIN catalog[kind]
BY RowFacts DEF CatalogOK, Visible, Ours

EvaluationsOK ==
  /\ datasets \in Seq(Dataset \cup {Null}) /\ IsSeq(cases) /\ IsSeq(runs) /\ IsSeq(results)
  /\ \A n \in DOMAIN datasets :
       datasets[n] # Null /\ datasets[n].project # Null => datasets[n].project \in Ours("project")
  /\ \A n \in DOMAIN runs :
       "agent" \in DOMAIN runs[n] /\ (runs[n].agent # Null => runs[n].agent \in Ours("agent"))

RunSession == {"run", "todo", "results", "scores", "passed", "cost"}

EvaluationSession(h) ==
  /\ pc[h] \in Working /\ req[h].op = "dataset" =>
       req[h].project = Null \/ req[h].project \in Known("project")
  /\ pc[h] \in Working /\ req[h].op = "run" =>
       /\ DOMAIN work[h] = RunSession /\ IsSeq(work[h].results)
       /\ "agent" \in DOMAIN work[h].run /\ work[h].run.agent = req[h].agent
       /\ req[h].agent # Null => req[h].agent \in Ours("agent")
  /\ pc[h] \in Working /\ req[h].op = "review" => req[h].result \in DOMAIN results

EvaluationsFit == EvaluationsOK /\ \A h \in Handler : EvaluationSession(h)

LEMMA EvaluationSteps ==
  ASSUME HandlersFit, [Next]_vars
  PROVE  \/ UNCHANGED <<datasets, cases, runs, results>> /\ Untouched(EvaluationOps)
         \/ \E h \in Handler : EvaluationsServe(h) /\ catalog' = catalog /\ workload' = workload
         \/ \E h \in Handler : DeletionsServe(h) /\ workload' = workload
<1>1. CASE Aside
  BY <1>1 DEF Aside, Untouched, evaluations
<1>2. ASSUME NEW h \in Handler, PricingServe(h) \/ ProjectsServe(h) \/ PrivacyServe(h) \/ KeysServe(h),
             UNCHANGED evaluations, workload' = workload
      PROVE  UNCHANGED <<datasets, cases, runs, results>> /\ Untouched(EvaluationOps)
  <2>1. Moves(h) /\ req[h].op \notin EvaluationOps
    BY <1>2, PricingMoves, ProjectsMoves, PrivacyMoves, KeysMoves
       DEF PricingOps, EvaluationOps, KeyOps, PrivacyOps, ProjectOps
  <2> QED
    BY <1>2, <2>1, MovesOne DEF evaluations
<1> QED
  BY <1>1, <1>2, Steps

(* What is left to show of a step of request h, which leaves the catalog.  *)
LEMMA EvaluationLeft ==
  ASSUME HandlersFit, EvaluationsFit, NEW h \in Handler, Moves(h), catalog' = catalog, workload' = workload,
         EvaluationsOK', EvaluationSession(h)', DOMAIN results \subseteq DOMAIN results'
  PROVE  EvaluationsFit'
<1>1. ASSUME NEW g \in Handler, g # h PROVE EvaluationSession(g)'
  <2>1. EvaluationSession(g) /\ pc'[g] = pc[g] /\ req'[g] = req[g] /\ work'[g] = work[g]
    BY <1>1, MovesOne DEF EvaluationsFit
  <2> QED
    BY <2>1 DEF EvaluationSession, Known, Ours, Rows, Row, Visible
<1> QED
  BY <1>1 DEF EvaluationsFit

LEMMA EvaluationAnswered ==
  ASSUME HandlersFit, NEW h \in Handler, NEW c, NEW row, Respond(h, c, row)
  PROVE  EvaluationSession(h)'
<1>1. pc'[h] = "done"
  BY DEF Respond, HandlersFit
<1> QED
  BY <1>1 DEF EvaluationSession, Working

LEMMA EvaluationTables ==
  ASSUME HandlersFit, CatalogFit, EvaluationsFit, NEW h \in Handler, EvaluationsServe(h),
         catalog' = catalog, workload' = workload
  PROVE  EvaluationsFit'
<1> DEFINE q == req[h]
<1>1. /\ Moves(h) /\ req'[h] = q /\ q \in Requests /\ EvaluationsOK /\ EvaluationSession(h) /\ CatalogOK
  BY EvaluationsMoves, MovesOne DEF EvaluationsFit, CatalogFit
<1>2. ASSUME UNCHANGED evaluations \/ UNCHANGED <<datasets, cases, runs, results>>, EvaluationSession(h)'
      PROVE  EvaluationsFit'
  <2>1. UNCHANGED <<datasets, cases, runs, results>>
    BY <1>2 DEF evaluations
  <2>2. EvaluationsOK'
    BY <1>1, <2>1 DEF EvaluationsOK, Ours, Rows, Row, Visible
  <2> QED
    BY <1>1, <1>2, <2>1, <2>2, EvaluationLeft
<1>3. ASSUME NEW l \in Working, NEW w, Continue(h, l, w)
      PROVE  pc'[h] = l /\ work'[h] = w
  BY <1>3 DEF Continue, HandlersFit
<1>4. ASSUME NEW l \in Working, NEW w, Continue(h, l, w), q.op = "run",
             DOMAIN w = RunSession, IsSeq(w.results), "agent" \in DOMAIN w.run,
             w.run.agent = q.agent, q.agent # Null => q.agent \in Ours("agent")
      PROVE  EvaluationSession(h)'
  <2>1. pc'[h] = l /\ work'[h] = w
    BY <1>3, <1>4
  <2> QED
    BY <1>1, <1>4, <2>1 DEF EvaluationSession, Ours, Rows, Row, Visible
<1>5. ASSUME NEW label \in Working, Evaluating(h, label)
      PROVE  /\ DOMAIN work[h] = RunSession /\ IsSeq(work[h].results)
             /\ "agent" \in DOMAIN work[h].run /\ work[h].run.agent = q.agent
             /\ q.agent # Null => q.agent \in Ours("agent")
             /\ q.op = "run"
  BY <1>1, <1>5 DEF EvaluationSession, Evaluating
<1>6. ASSUME FailRun(h), NEW label \in Working, Evaluating(h, label)
      PROVE  EvaluationSession(h)'
  <2> DEFINE w == [work[h] EXCEPT !.run.status = "FAILED"]
  <2>1. Continue(h, "commit", w)
    BY <1>6 DEF FailRun
  <2>2. /\ DOMAIN w = RunSession /\ w.results = work[h].results
        /\ w.run = [work[h].run EXCEPT !.status = "FAILED"]
    BY <1>5, <1>6
  <2>3. "agent" \in DOMAIN w.run /\ w.run.agent = q.agent
    BY <1>5, <1>6, <2>2
  <2> HIDE DEF w
  <2> QED
    BY <1>4, <1>5, <1>6, <2>1, <2>2, <2>3 DEF Working
<1>7. CASE DatasetLoad(h)
  <2>1. UNCHANGED evaluations /\ q.op = "dataset"
    BY <1>7 DEF DatasetLoad
  <2>2. EvaluationSession(h)'
    <3>1. CASE q.project = Null \/ Visible("project", q.project)
      <4>1. q.project = Null \/ q.project \in Known("project")
        BY <1>1, <3>1, VisibleOurs DEF Known, Kind
      <4> QED
        BY <1>1, <2>1, <4>1 DEF EvaluationSession, Known, Ours, Rows, Row, Visible
    <3>2. CASE ~ (q.project = Null \/ Visible("project", q.project))
      BY <1>7, <3>2, EvaluationAnswered DEF DatasetLoad
    <3> QED
      BY <3>1, <3>2
  <2> QED
    BY <1>2, <2>1, <2>2
<1>8. CASE CreateDataset(h)
  <2>1. UNCHANGED <<cases, runs, results>> /\ q.op = "dataset" /\ pc[h] \in Working /\ EvaluationSession(h)'
    BY <1>8, EvaluationAnswered DEF CreateDataset, Working
  <2>2. CASE datasets' = datasets
    BY <1>2, <2>1, <2>2
  <2>3. CASE datasets' # datasets
    <3> DEFINE row == [project |-> q.project]
    <3>1. datasets' = Append(datasets, row) /\ (q.project = Null \/ Row("project", q.project) # Null)
      BY <1>8, <2>3 DEF CreateDataset
    <3>2. q.project # Null => q.project \in Ours("project")
      BY <1>1, <2>1, <3>1, RowFacts DEF EvaluationSession, Known, CatalogOK, Kind
    <3>3. row \in Dataset /\ row.project = q.project
      BY <1>1, <2>1, EvaluationsAssumption DEF Dataset
    <3> HIDE DEF row
    <3>4. /\ datasets' \in Seq(Dataset \cup {Null})
          /\ \A n \in DOMAIN datasets' :
               (n \in DOMAIN datasets /\ datasets'[n] = datasets[n]) \/ datasets'[n] = row
      BY <1>1, <3>1, <3>3 DEF EvaluationsOK
    <3>5. EvaluationsOK'
      BY <1>1, <2>1, <3>2, <3>3, <3>4 DEF EvaluationsOK, Ours, Rows, Row, Visible
    <3> QED
      BY <1>1, <2>1, <3>5, EvaluationLeft
  <2> QED
    BY <2>2, <2>3
<1>9. CASE AddCase(h)
  <2>1. UNCHANGED <<datasets, runs, results>> /\ EvaluationSession(h)'
    BY <1>9, EvaluationAnswered DEF AddCase
  <2>2. IsSeq(cases')
    <3>1. cases' = cases \/ \E row : cases' = Append(cases, row)
      BY <1>9 DEF AddCase
    <3>2. IsSeq(cases)
      BY <1>1 DEF EvaluationsOK
    <3> QED
      BY <3>1, <3>2, AppendAny
  <2>3. EvaluationsOK'
    BY <1>1, <2>1, <2>2 DEF EvaluationsOK, Ours, Rows, Row, Visible
  <2> QED
    BY <1>1, <2>1, <2>3, EvaluationLeft
<1>10. CASE CreateRun(h)
  <2> DEFINE w == Executing(NewRun(q), << >>)
  <2>1. UNCHANGED evaluations /\ q.op = "run"
    BY <1>10 DEF CreateRun, Evaluating
  <2>2. CASE AgentFits(q) /\ Continue(h, "scan", w)
    <3>1. DOMAIN w = RunSession /\ w.run = NewRun(q) /\ w.results = << >>
      BY DEF Executing, RunSession
    <3>2. "agent" \in DOMAIN w.run /\ w.run.agent = q.agent
      BY <3>1 DEF NewRun
    <3>3. IsSeq(w.results)
      BY <3>1, EmptyAny
    <3>4. q.agent # Null => q.agent \in Ours("agent")
      BY <1>1, <2>2, VisibleOurs DEF AgentFits, Kind
    <3> HIDE DEF w
    <3>5. EvaluationSession(h)'
      BY <1>4, <2>1, <2>2, <3>1, <3>2, <3>3, <3>4 DEF Working
    <3> QED
      BY <1>2, <2>1, <3>5
  <2>3. CASE \E c, row : Respond(h, c, row)
    BY <1>2, <2>1, <2>3, EvaluationAnswered
  <2> QED
    BY <1>10, <2>2, <2>3 DEF CreateRun
<1>11. CASE StartRun(h)
  <2> DEFINE todo == CasesOf(q.dataset)
             run  == [work[h].run EXCEPT !.status = "RUNNING", !.total = Len(todo),
                                         !.executed = 0, !.errors = 0, !.unpriced = 0]
             w    == Executing(run, todo)
  <2>1. UNCHANGED evaluations /\ Evaluating(h, "scan")
    BY <1>11 DEF StartRun
  <2>2. CASE FailRun(h)
    BY <1>2, <1>6, <2>1, <2>2 DEF Working
  <2>3. CASE Continue(h, "check", w)
    <3>1. /\ DOMAIN w = RunSession /\ w.results = << >> /\ w.run = run
          /\ DOMAIN run = DOMAIN work[h].run /\ ("agent" \in DOMAIN work[h].run => run.agent = work[h].run.agent)
      BY DEF Executing, RunSession
    <3>2. IsSeq(w.results)
      BY <3>1, EmptyAny
    <3> HIDE DEF w
    <3>3. EvaluationSession(h)'
      BY <1>4, <1>5, <2>1, <2>3, <3>1, <3>2 DEF Working
    <3> QED
      BY <1>2, <2>1, <3>3
  <2> QED
    BY <1>11, <2>2, <2>3 DEF StartRun
<1>12. CASE RunCase(h)
  <2>1. UNCHANGED evaluations /\ Evaluating(h, "check")
    BY <1>12 DEF RunCase
  <2>2. CASE FailRun(h)
    BY <1>2, <1>6, <2>1, <2>2 DEF Working
  <2>3. ASSUME NEW result, Adds(h, result) PROVE EvaluationSession(h)'
    <3>1. PICK w : /\ Continue(h, "check", w) /\ DOMAIN w = RunSession
                   /\ w.results = Append(work[h].results, result) /\ w.run = Counted(work[h].run, result)
      BY <2>3 DEF Adds, RunSession
    <3>3. DOMAIN w.run = DOMAIN work[h].run /\ ("agent" \in DOMAIN work[h].run => w.run.agent = work[h].run.agent)
      BY <3>1 DEF Counted
    <3>4. IsSeq(w.results)
      BY <1>5, <2>1, <3>1, AppendAny DEF Working
    <3> QED
      BY <1>4, <1>5, <2>1, <3>1, <3>3, <3>4 DEF Working
  <2>4. FailRun(h) \/ \E result : Adds(h, result)
    BY <1>12 DEF RunCase
  <2> QED
    BY <1>2, <2>1, <2>2, <2>3, <2>4
<1>13. CASE CompleteRun(h)
  <2>1. UNCHANGED evaluations /\ Evaluating(h, "check")
    BY <1>13 DEF CompleteRun
  <2>2. PICK w : /\ Continue(h, "commit", w) /\ DOMAIN w = DOMAIN work[h]
                 /\ ("results" \in DOMAIN work[h] => w.results = work[h].results)
                 /\ ("run" \in DOMAIN work[h] /\ "agent" \in DOMAIN work[h].run =>
                       "agent" \in DOMAIN w.run /\ w.run.agent = work[h].run.agent)
    <3> DEFINE passed == work[h].passed
               rate   == IF work[h].run.total = 0 THEN Null ELSE <<passed, work[h].run.total>>
               score  == IF work[h].scores = << >> THEN Null ELSE Mean(work[h].scores)
               cost   == work[h].cost
               w      == [work[h] EXCEPT !.run.status = "COMPLETED", !.run.passed = passed,
                                         !.run.pass_rate = rate, !.run.score = score, !.run.cost = cost]
    <3>1. Continue(h, "commit", w)
      BY <1>13 DEF CompleteRun
    <3> HIDE DEF passed, rate, score, cost
    <3>2. /\ DOMAIN w = DOMAIN work[h]
          /\ ("results" \in DOMAIN work[h] => w.results = work[h].results)
      OBVIOUS
    <3>3. "run" \in DOMAIN work[h] => DOMAIN w.run = DOMAIN work[h].run
      OBVIOUS
    <3>4. "run" \in DOMAIN work[h] /\ "agent" \in DOMAIN work[h].run => w.run.agent = work[h].run.agent
      OBVIOUS
    <3> HIDE DEF w
    <3> QED
      BY <3>1, <3>2, <3>3, <3>4
  <2>3. DOMAIN w = RunSession /\ IsSeq(w.results) /\ "agent" \in DOMAIN w.run /\ w.run.agent = q.agent
    BY <1>5, <2>1, <2>2 DEF Working, RunSession
  <2>4. EvaluationSession(h)'
    BY <1>4, <1>5, <2>1, <2>2, <2>3 DEF Working
  <2> QED
    BY <1>2, <2>1, <2>4
<1>14. CASE StoreRun(h)
  <2> DEFINE run == work[h].run
             new == [k \in DOMAIN work[h].results |-> [work[h].results[k] EXCEPT !.run = Len(runs) + 1]]
  <2>1. /\ UNCHANGED <<datasets, cases>> /\ runs' = Append(runs, run) /\ results' = results \o new
        /\ Evaluating(h, "commit") /\ EvaluationSession(h)'
    BY <1>14, EvaluationAnswered DEF StoreRun
  <2>2. /\ IsSeq(runs') /\ \A n \in DOMAIN runs' : (n \in DOMAIN runs /\ runs'[n] = runs[n]) \/ runs'[n] = run
    BY <1>1, <2>1, AppendAny DEF EvaluationsOK
  <2>3. IsSeq(new)
    <3>1. new = [k \in DOMAIN work[h].results |-> new[k]]
      OBVIOUS
    <3> HIDE DEF new
    <3> QED
      BY <1>5, <2>1, <3>1, MappedSeq DEF Working
  <2> HIDE DEF new
  <2>4. IsSeq(results') /\ DOMAIN results \subseteq DOMAIN results'
    BY <1>1, <2>1, <2>3, ConcatAny DEF EvaluationsOK
  <2>5. "agent" \in DOMAIN run /\ (run.agent # Null => run.agent \in Ours("agent"))
    BY <1>5, <2>1 DEF Working
  <2> HIDE DEF run
  <2>6. EvaluationsOK'
    BY <1>1, <2>1, <2>2, <2>4, <2>5 DEF EvaluationsOK, Ours, Rows, Row, Visible
  <2> QED
    BY <1>1, <2>1, <2>4, <2>6, EvaluationLeft
<1>15. CASE CompareFirst(h) \/ CompareRuns(h)
  <2>1. UNCHANGED <<datasets, cases, runs, results>> /\ q.op = "compare"
    BY <1>15 DEF CompareFirst, CompareRuns, evaluations
  <2>2. EvaluationSession(h)'
    BY <1>1, <2>1 DEF EvaluationSession
  <2> QED
    BY <1>2, <2>1, <2>2
<1>16. CASE ReviewLoad(h)
  <2>1. UNCHANGED evaluations /\ q.op = "review"
    BY <1>16 DEF ReviewLoad
  <2>2. EvaluationSession(h)'
    <3>1. CASE q.result \in DOMAIN results
      BY <1>1, <2>1, <3>1 DEF EvaluationSession, evaluations
    <3>2. CASE q.result \notin DOMAIN results
      BY <1>16, <3>2, EvaluationAnswered DEF ReviewLoad, HasResult
    <3> QED
      BY <3>1, <3>2
  <2> QED
    BY <1>2, <2>1, <2>2
<1>17. CASE ReviewCommit(h)
  <2>1. UNCHANGED <<datasets, cases, runs>> /\ EvaluationSession(h)'
    BY <1>17, EvaluationAnswered DEF ReviewCommit
  <2>2. results' = results \/ results' = [n \in DOMAIN results |-> results'[n]]
    BY <1>17 DEF ReviewCommit
  <2>3. IsSeq(results') /\ DOMAIN results' = DOMAIN results
    BY <1>1, <2>2, MappedSeq DEF EvaluationsOK
  <2>4. EvaluationsOK'
    BY <1>1, <2>1, <2>3 DEF EvaluationsOK, Ours, Rows, Row, Visible
  <2> QED
    BY <1>1, <2>1, <2>3, <2>4, EvaluationLeft
<1> QED
  BY <1>7, <1>8, <1>9, <1>10, <1>11, <1>12, <1>13, <1>14, <1>15, <1>16, <1>17 DEF EvaluationsServe

LEMMA RunsWithoutFit ==
  ASSUME IsSeq(runs), NEW ids, \A n \in DOMAIN runs : "agent" \in DOMAIN runs[n]
  PROVE  LET new == RunsWithout(ids) IN
         /\ IsSeq(new) /\ DOMAIN new = DOMAIN runs
         /\ \A n \in DOMAIN runs :
              /\ DOMAIN new[n] = DOMAIN runs[n]
              /\ new[n].agent = IF runs[n].agent \in ids THEN Null ELSE runs[n].agent
<1> DEFINE new == RunsWithout(ids)
<1>1. /\ new = [n \in DOMAIN runs |-> new[n]]
      /\ \A n \in DOMAIN runs :
           new[n] = IF runs[n].agent \in ids THEN [runs[n] EXCEPT !.agent = Null] ELSE runs[n]
  BY DEF RunsWithout
<1> HIDE DEF new
<1>2. IsSeq(new) /\ DOMAIN new = DOMAIN runs
  BY <1>1, MappedSeq
<1>3. ASSUME NEW n \in DOMAIN runs
      PROVE  /\ DOMAIN new[n] = DOMAIN runs[n]
             /\ new[n].agent = IF runs[n].agent \in ids THEN Null ELSE runs[n].agent
  BY <1>1, <1>3
<1> QED
  BY <1>2, <1>3 DEF new

(* A deletion takes the references to what it takes, and waits for the     *)
(* runs in progress that have one.                                         *)
LEMMA DropEvaluations ==
  ASSUME HandlersFit, CatalogFit, CatalogFit', CatalogKept, EvaluationsFit, NEW h \in Handler, DeletionsServe(h),
         Drops(h), workload' = workload
  PROVE  EvaluationsFit'
<1>1. PICK kind \in Kind : kind = req[h].kind
  BY DeletionsMoves, MovesOne, KindOf DEF HandlersFit, Moves, Busy
<1>2. PICK x : x = req[h].id
  OBVIOUS
<1>3. /\ CatalogOK /\ CatalogOK' /\ EvaluationsOK /\ Moves(h)
  BY DeletionsMoves DEF CatalogFit, EvaluationsFit
<1>4. /\ datasets' = DatasetsWithout(kind, x)
      /\ runs' = RunsWithout(Goes(kind, x, "agent")) /\ UNCHANGED <<cases, results>>
      /\ ~ Waits(h) /\ pc'[h] = "done"
  BY <1>1, <1>2 DEF Drops, Drop, Respond, HandlersFit
<1>5. ASSUME NEW id \in Ours("agent"), id \notin Goes(kind, x, "agent") PROVE id \in Ours("agent")'
  <2>1. id \in Rows("agent")'
    BY <1>1, <1>2, <1>3, <1>5, DropLeaves DEF Ours, Kind
  <2> QED
    BY <1>3, <1>5, <2>1, OursStay
<1>6. ASSUME NEW id \in Ours("project"), id \notin Goes(kind, x, "project") PROVE id \in Ours("project")'
  <2>1. id \in Rows("project")'
    BY <1>1, <1>2, <1>3, <1>6, DropLeaves DEF Ours, Kind
  <2> QED
    BY <1>3, <1>6, <2>1, OursStay
<1>7. /\ datasets' \in Seq(Dataset \cup {Null})
      /\ \A n \in DOMAIN datasets' :
           datasets'[n] # Null /\ datasets'[n].project # Null => datasets'[n].project \in Ours("project")'
  <2>1. /\ datasets' = [n \in DOMAIN datasets |-> datasets'[n]]
        /\ \A n \in DOMAIN datasets :
             datasets'[n] = IF n \in DatasetsOf(kind, x) THEN Null ELSE datasets[n]
    BY <1>4 DEF DatasetsWithout
  <2>2. datasets' \in Seq(Dataset \cup {Null}) /\ DOMAIN datasets' = DOMAIN datasets
    <3>1. \A n \in DOMAIN datasets : datasets'[n] \in {datasets[n], Null}
      BY <2>1
    <3> QED
      BY <1>3, <2>1, <3>1, RowByRow DEF EvaluationsOK
  <2>3. ASSUME NEW n \in DOMAIN datasets, datasets'[n] # Null, datasets'[n].project # Null
        PROVE  datasets'[n].project \in Ours("project")'
    <3>1. datasets'[n] = datasets[n] /\ n \notin DatasetsOf(kind, x)
      BY <2>1, <2>3
    <3>2. datasets[n].project \in Ours("project")
      BY <1>3, <2>3, <3>1 DEF EvaluationsOK
    <3>3. datasets[n].project \notin Goes(kind, x, "project")
      BY <2>3, <3>1 DEF DatasetsOf, HasDataset, Goes
    <3> QED
      BY <1>6, <3>1, <3>2, <3>3
  <2> QED
    BY <2>2, <2>3
<1>8. /\ IsSeq(runs')
      /\ \A n \in DOMAIN runs' :
           "agent" \in DOMAIN runs'[n] /\ (runs'[n].agent # Null => runs'[n].agent \in Ours("agent")')
  <2> DEFINE ids == Goes(kind, x, "agent")
  <2>1. IsSeq(runs) /\ \A n \in DOMAIN runs : "agent" \in DOMAIN runs[n]
    BY <1>3 DEF EvaluationsOK
  <2>2. runs' = RunsWithout(ids)
    BY <1>4
  <2> HIDE DEF ids
  <2>3. /\ IsSeq(runs') /\ DOMAIN runs' = DOMAIN runs
        /\ \A n \in DOMAIN runs :
             /\ DOMAIN runs'[n] = DOMAIN runs[n]
             /\ runs'[n].agent = IF runs[n].agent \in ids THEN Null ELSE runs[n].agent
    BY <2>1, <2>2, RunsWithoutFit
  <2> QED
    BY <1>3, <1>5, <2>1, <2>3 DEF EvaluationsOK, ids
<1>9. ASSUME NEW g \in Handler PROVE EvaluationSession(g)'
  <2>1. CASE g = h
    BY <1>4, <2>1 DEF EvaluationSession, Working
  <2>2. CASE g # h
    <3>1. EvaluationSession(g) /\ pc'[g] = pc[g] /\ req'[g] = req[g] /\ work'[g] = work[g]
      BY <1>3, <2>2, MovesOne DEF EvaluationsFit
    <3>2. Known("project") \subseteq Known("project")'
      BY <1>3, KnownStay
    <3>3. ASSUME pc[g] \in Working, req[g].op = "run" PROVE req[g].agent \notin Goes(kind, x, "agent")
      BY <1>1, <1>2, <1>4, <3>3 DEF Waits, Evaluating, Working
    <3> QED
      BY <1>4, <1>5, <3>1, <3>2, <3>3 DEF EvaluationSession
  <2> QED
    BY <2>1, <2>2
<1> QED
  BY <1>3, <1>4, <1>7, <1>8, <1>9 DEF EvaluationsFit, EvaluationsOK

LEMMA NextEvaluations == HandlersFit /\ CatalogFit /\ EvaluationsFit /\ [Next]_vars => EvaluationsFit'
<1> SUFFICES ASSUME HandlersFit, CatalogFit, EvaluationsFit, [Next]_vars PROVE EvaluationsFit'
  OBVIOUS
<1>1. CatalogFit' /\ CatalogKept
  BY CatalogChanges
<1>2. ASSUME UNCHANGED <<datasets, cases, runs, results>>, Untouched(EvaluationOps),
             Ours("project") \subseteq Ours("project")', Ours("agent") \subseteq Ours("agent")'
      PROVE  EvaluationsFit'
  <2>1. EvaluationsOK'
    BY <1>2 DEF EvaluationsFit, EvaluationsOK
  <2>2. Known("project") \subseteq Known("project")'
    BY OursLeft
  <2>3. \A h \in Handler : EvaluationSession(h)'
    BY <1>2, <2>2 DEF EvaluationsFit, EvaluationSession, Untouched, EvaluationOps
  <2> QED
    BY <2>1, <2>3 DEF EvaluationsFit
<1>3. CASE \E h \in Handler : EvaluationsServe(h) /\ catalog' = catalog /\ workload' = workload
  BY <1>3, EvaluationTables
<1>4. CASE \E h \in Handler : DeletionsServe(h) /\ Drops(h) /\ workload' = workload
  BY <1>1, <1>4, DropEvaluations
<1>5. CASE \E h \in Handler : DeletionsServe(h) /\ ~ Drops(h) /\ workload' = workload
  <2>1. PICK h \in Handler : DeletionsServe(h) /\ ~ Drops(h) /\ workload' = workload
    BY <1>5
  <2>2. UNCHANGED <<catalog, datasets, runs>>
    BY <2>1, DeletionTables
  <2>3. UNCHANGED <<cases, results>>
    BY <2>1 DEF DeletionsServe, DropLoad, Drop, evaluations
  <2>4. Untouched(EvaluationOps)
    BY <2>1, DeletionsMoves, MovesOne DEF EvaluationOps
  <2>5. Ours("project") \subseteq Ours("project")' /\ Ours("agent") \subseteq Ours("agent")'
    BY <2>2 DEF Ours, Rows, Row, Visible
  <2> QED
    BY <1>2, <2>2, <2>3, <2>4, <2>5
<1> QED
  BY <1>2, <1>3, <1>4, <1>5, EvaluationSteps, OursLeft

LEMMA AlwaysEvaluationsFit == Spec => []EvaluationsFit
<1>1. Init => EvaluationsFit
  <2> SUFFICES ASSUME Init PROVE EvaluationsFit
    OBVIOUS
  <2>1. datasets = StoredDatasets /\ cases = StoredCases /\ runs = << >> /\ results = << >> /\ catalog = StoredCatalog
    BY DEF Init
  <2>2. datasets \in Seq(Dataset \cup {Null}) /\ IsSeq(cases) /\ IsSeq(runs) /\ IsSeq(results)
    BY <2>1, EvaluationsAssumption, AnySeq, EmptyAny
  <2>3. ASSUME NEW n \in DOMAIN datasets, datasets[n] # Null, datasets[n].project # Null
        PROVE  datasets[n].project \in Ours("project")
    <3> DEFINE id == datasets[n].project
    <3>1. id \in DOMAIN catalog["project"] /\ catalog["project"][id].parent = Organization
      BY <2>1, <2>3, EvaluationsAssumption
    <3>2. catalog["project"] \in Seq(CatalogRow)
      BY <2>1, ProjectsAssumption DEF Kind
    <3>3. catalog["project"][id] \in CatalogRow
      BY <3>1, <3>2
    <3>4. catalog["project"][id] # Null
      BY <3>3, ProjectsAssumption
    <3> QED
      BY <3>1, <3>4 DEF Ours, Rows, Visible, Row
  <2> QED
    BY <2>1, <2>2, <2>3 DEF EvaluationsFit, EvaluationsOK, EvaluationSession, Init, HandlersInit, Working
<1>2. HandlersFit /\ CatalogFit /\ EvaluationsFit /\ [Next]_vars => EvaluationsFit'
  BY NextEvaluations
<1> QED
  BY <1>1, <1>2, AlwaysHandlersFit, AlwaysCatalogFit, PTL DEF Spec

-----------------------------------------------------------------------------
(* What keys and traces refer to *)

(* A key that was made for a project is of that project while it is there. *)
HomeFits(id, project) ==
  id \in DOMAIN StoredKeys /\ StoredKeys[id].project \in Rows("project") =>
    project = StoredKeys[id].project

(* No project that is created takes the id of one that is gone.            *)
HomesKnown ==
  \A id \in DOMAIN StoredKeys :
    StoredKeys[id].project # Null => StoredKeys[id].project \in DOMAIN catalog["project"]

KeyScoped(id) ==
  keys[id] # Null =>
    /\ keys[id].project # Null => keys[id].project \in Ours("project")
    /\ HomeFits(id, keys[id].project)

TraceScoped(t) ==
  /\ t.project \in Ours("project") /\ HomeFits(t.key, t.project)
  /\ \A kind \in {"agent", "environment"} :
       t[kind] # Null => t[kind] \in Rows(kind) /\ catalog[kind][t[kind]].parent = t.project

AdmittedTo(h, project) ==
  /\ project \in Known("project") /\ HomeFits(req[h].key, project)
  /\ \A kind \in {"agent", "environment"} :
       LET id == req[h][kind] IN
       id # Null => /\ id \in DOMAIN catalog[kind]
                    /\ id \in Rows(kind) => catalog[kind][id].parent = project

ScopeSession(h) ==
  /\ pc[h] \in Working /\ req[h].op = "key" => req[h].project = Null \/ req[h].project \in Known("project")
  /\ pc[h] = "check" /\ req[h].op = "ingest" => HomeFits(req[h].key, work[h].project)
  /\ pc[h] \in {"scan", "commit"} /\ req[h].op = "ingest" => HomeFits(req[h].key, work[h].key.project)
  /\ pc[h] = "scan" /\ req[h].op = "ingest" => work[h].project = Null
  /\ pc[h] = "commit" /\ req[h].op = "ingest" /\ work[h].project # Null => AdmittedTo(h, work[h].project)
  /\ pc[h] \in Working /\ req[h].op = "drop" =>
       \A n \in work[h].keys : req[h].kind = "project" /\ HomeFits(n, req[h].id)

ScopesFit ==
  /\ DOMAIN StoredKeys \subseteq DOMAIN keys /\ DOMAIN StoredTraces \subseteq DOMAIN traces
  /\ HomesKnown
  /\ \A id \in DOMAIN keys : KeyScoped(id)
  /\ \A n \in Traces \ DOMAIN StoredTraces : TraceScoped(traces[n])
  /\ \A h \in Handler : ScopeSession(h)

LEMMA NoHome ==
  ASSUME CatalogOK, HomesKnown, NEW id \in DOMAIN StoredKeys, StoredKeys[id].project \in Rows("project")
  PROVE  StoredKeys[id].project # Null /\ StoredKeys[id].project \in DOMAIN catalog["project"]
<1>1. catalog["project"] \in Seq(CatalogRow \cup {Null})
  BY DEF CatalogOK, Kind
<1>2. StoredKeys[id].project \in DOMAIN catalog["project"]
  BY DEF Rows
<1> QED
  BY <1>1, <1>2, ProjectsAssumption

LEMMA HomesStay ==
  ASSUME CatalogOK', CatalogKept, HomesKnown
  PROVE  HomesKnown' /\ \A id, project : HomeFits(id, project) => HomeFits(id, project)'
<1>1. HomesKnown'
  BY DomainsStay DEF HomesKnown, Kind
<1>2. ASSUME NEW id, NEW project, HomeFits(id, project) PROVE HomeFits(id, project)'
  <2> SUFFICES ASSUME id \in DOMAIN StoredKeys, StoredKeys[id].project \in Rows("project")'
               PROVE  project = StoredKeys[id].project
    BY DEF HomeFits
  <2>1. StoredKeys[id].project \in Rows("project")
    <3>1. StoredKeys[id].project # Null
      <4>1. catalog'["project"] \in Seq(CatalogRow \cup {Null}) /\ StoredKeys[id].project \in DOMAIN catalog'["project"]
        BY DEF CatalogOK, Kind, Rows
      <4> QED
        BY <4>1, ProjectsAssumption
    <3> QED
      BY <3>1, RowsGone DEF HomesKnown, Kind
  <2> QED
    BY <1>2, <2>1 DEF HomeFits
<1> QED
  BY <1>1, <1>2

(* A request relies on nothing that another one could change.              *)
LEMMA ScopeSessionStays ==
  ASSUME CatalogOK, CatalogOK', CatalogKept, HomesKnown, NEW g \in Handler, ScopeSession(g),
         pc'[g] = pc[g], req'[g] = req[g], work'[g] = work[g]
  PROVE  ScopeSession(g)'
<1>1. Known("project") \subseteq Known("project")'
  BY KnownStay
<1>2. \A id, project : HomeFits(id, project) => HomeFits(id, project)'
  BY HomesStay
<1>3. ASSUME NEW project, AdmittedTo(g, project) PROVE AdmittedTo(g, project)'
  <2>1. project \in Known("project")' /\ HomeFits(req[g].key, project)'
    BY <1>1, <1>2, <1>3 DEF AdmittedTo, HomeFits
  <2>2. ASSUME NEW kind \in {"agent", "environment"}, NEW id, id = req[g][kind], id # Null
        PROVE  id \in DOMAIN catalog'[kind] /\ (id \in Rows(kind)' => catalog'[kind][id].parent = project)
    <3>1. kind \in Kind /\ id \in DOMAIN catalog[kind] /\ (id \in Rows(kind) => catalog[kind][id].parent = project)
      BY <1>3, <2>2 DEF AdmittedTo, Kind
    <3> QED
      BY <3>1, DomainsStay, RowsGone
  <2> QED
    BY <2>1, <2>2 DEF AdmittedTo
<1> QED
  BY <1>1, <1>2, <1>3 DEF ScopeSession, HomeFits

LEMMA TraceStays ==
  ASSUME CatalogOK, CatalogOK', CatalogKept, HomesKnown, NEW t, TraceScoped(t),
         t.project \in Rows("project")',
         \A kind \in {"agent", "environment"} : t[kind] # Null => t[kind] \in Rows(kind)'
  PROVE  TraceScoped(t)'
<1>1. HomeFits(t.key, t.project)'
  BY HomesStay DEF TraceScoped
<1>2. t.project \in Ours("project")'
  BY OursStay DEF TraceScoped
<1>3. ASSUME NEW kind \in {"agent", "environment"}, NEW id, id = t[kind], id # Null
      PROVE  id \in Rows(kind)' /\ catalog'[kind][id].parent = t.project
  <2>1. id \in Rows(kind) /\ catalog[kind][id].parent = t.project /\ id \in Rows(kind)' /\ kind \in Kind
    BY <1>3 DEF TraceScoped, Kind
  <2>2. id \in DOMAIN catalog[kind]
    BY <2>1 DEF Rows
  <2> QED
    BY <2>1, <2>2, RowsGone
<1> QED
  BY <1>1, <1>2, <1>3 DEF TraceScoped

LEMMA TracesStay ==
  ASSUME CatalogOK, CatalogOK', CatalogKept, ScopesFit,
         \A kind \in Kind : Rows(kind) \subseteq Rows(kind)',
         \A n \in Traces' : /\ n \in Traces
                            /\ \A f \in {"key", "project", "agent", "environment"} :
                                 traces'[n][f] = traces[n][f]
  PROVE  \A n \in Traces' \ DOMAIN StoredTraces : TraceScoped(traces[n])'
<1> SUFFICES ASSUME NEW n \in Traces' \ DOMAIN StoredTraces PROVE TraceScoped(traces[n])'
  OBVIOUS
<1>1. PICK t : t = traces[n]
  OBVIOUS
<1>2. PICK u : u = traces'[n]
  OBVIOUS
<1>3. TraceScoped(t) /\ HomesKnown
  BY <1>1 DEF ScopesFit
<1>4. TraceScoped(t)'
  <2>1. t.project \in Rows("project")' /\ \A kind \in {"agent", "environment"} : t[kind] # Null => t[kind] \in Rows(kind)'
    BY <1>3 DEF TraceScoped, Ours, Kind
  <2> QED
    BY <1>3, <2>1, TraceStays
<1>5. /\ u.key = t.key /\ u.project = t.project
      /\ \A kind \in {"agent", "environment"} : u[kind] = t[kind]
  BY <1>1, <1>2
<1>6. TraceScoped(u)'
  BY <1>4, <1>5 DEF TraceScoped
<1> QED
  BY <1>2, <1>6

LEMMA KeysStay ==
  ASSUME CatalogOK', CatalogKept, ScopesFit, Ours("project") \subseteq Ours("project")', DOMAIN keys' \subseteq DOMAIN keys,
         \A id \in DOMAIN keys' : keys'[id] # Null => keys[id] # Null /\ keys'[id].project = keys[id].project
  PROVE  \A id \in DOMAIN keys' : KeyScoped(id)'
<1> SUFFICES ASSUME NEW id \in DOMAIN keys', keys'[id] # Null
             PROVE  /\ keys'[id].project # Null => keys'[id].project \in Ours("project")'
                    /\ HomeFits(id, keys[id].project)'
  BY DEF KeyScoped
<1>1. KeyScoped(id) /\ keys[id] # Null /\ HomesKnown
  BY DEF ScopesFit
<1>2. PICK project : project = keys[id].project
  OBVIOUS
<1>3. keys'[id].project = project /\ HomeFits(id, project)
  BY <1>1, <1>2 DEF KeyScoped
<1>4. HomeFits(id, project)'
  BY <1>1, <1>3, HomesStay
<1>5. HomeFits(id, keys[id].project)'
  BY <1>3, <1>4 DEF HomeFits
<1> QED
  BY <1>1, <1>2, <1>3, <1>5 DEF KeyScoped

LEMMA TracesGrow ==
  ASSUME HandlersFit, TablesFit, [Next]_vars
  PROVE  DOMAIN traces \subseteq DOMAIN traces' /\ DOMAIN keys \subseteq DOMAIN keys'
<1>1. /\ traces \in Seq(TraceRow \cup {Null}) /\ traces' \in Seq(TraceRow \cup {Null})
      /\ Len(traces') = Len(traces) \/ DOMAIN traces' = DOMAIN traces \cup {Len(traces) + 1}
  BY TableSteps DEF TablesFit, TracesOK, Stores
<1>2. DOMAIN traces \subseteq DOMAIN traces'
  BY <1>1
<1> QED
  BY <1>2, TableSteps DEF KeysKept

(* What is left to show of a step of request h.                            *)
LEMMA ScopesLeft ==
  ASSUME HandlersFit, TablesFit, CatalogOK, CatalogOK', CatalogKept, ScopesFit, [Next]_vars,
         NEW h \in Handler, Moves(h), workload' = workload, ScopeSession(h)',
         \A id \in DOMAIN keys' : KeyScoped(id)',
         \A n \in Traces' \ DOMAIN StoredTraces : TraceScoped(traces[n])'
  PROVE  ScopesFit'
<1>1. DOMAIN keys \subseteq DOMAIN keys' /\ DOMAIN traces \subseteq DOMAIN traces'
  BY TracesGrow
<1>2. HomesKnown'
  BY HomesStay DEF ScopesFit
<1>3. ASSUME NEW g \in Handler, g # h PROVE ScopeSession(g)'
  BY <1>3, MovesOne, ScopeSessionStays DEF ScopesFit
<1> QED
  BY <1>1, <1>2, <1>3 DEF ScopesFit

ScopeOps == KeyOps \cup {"drop"}

LEMMA ScopeSteps ==
  ASSUME HandlersFit, [Next]_vars
  PROVE  \/ UNCHANGED <<traces, keys>> /\ Untouched(ScopeOps)
            /\ (catalog' = catalog \/ \E h \in Handler : ProjectsServe(h) /\ workload' = workload)
         \/ \E h \in Handler : PrivacyServe(h) /\ UNCHANGED <<keys, catalog, workload>>
         \/ \E h \in Handler : KeysServe(h) /\ UNCHANGED <<catalog, workload>>
         \/ \E h \in Handler : DeletionsServe(h) /\ workload' = workload
<1>1. CASE Aside
  BY <1>1 DEF Aside, Untouched, privacy
<1>2. ASSUME NEW h \in Handler, PricingServe(h) \/ ProjectsServe(h) \/ EvaluationsServe(h),
             UNCHANGED <<privacy, keys>>, workload' = workload
      PROVE  UNCHANGED <<traces, keys>> /\ Untouched(ScopeOps)
  <2>1. Moves(h) /\ req[h].op \notin ScopeOps
    BY <1>2, PricingMoves, ProjectsMoves, EvaluationsMoves
       DEF PricingOps, EvaluationOps, KeyOps, ProjectOps, ScopeOps
  <2> QED
    BY <1>2, <2>1, MovesOne DEF privacy
<1> QED
  BY <1>1, <1>2, Steps

LEMMA ScopeAnswered ==
  ASSUME HandlersFit, NEW h \in Handler, NEW c, NEW row, Respond(h, c, row)
  PROVE  ScopeSession(h)'
<1>1. pc'[h] = "done"
  BY DEF Respond, HandlersFit
<1> QED
  BY <1>1 DEF ScopeSession, Working

LEMMA SameScopes ==
  ASSUME CatalogOK, catalog' = catalog
  PROVE  /\ CatalogOK' /\ CatalogKept /\ Ours("project")' = Ours("project")
         /\ Known("project")' = Known("project")
         /\ \A kind \in Kind : Rows(kind)' = Rows(kind)
         /\ \A id, project : HomeFits(id, project)' = HomeFits(id, project)
BY DEF CatalogOK, CatalogKept, Known, Ours, Rows, Row, Visible, HomeFits

LEMMA PrivacyScopes ==
  ASSUME HandlersFit, TablesFit, CatalogFit, ScopesFit, [Next]_vars,
         NEW h \in Handler, PrivacyServe(h), UNCHANGED <<keys, catalog, workload>>
  PROVE  ScopesFit'
<1>1. /\ Moves(h) /\ req[h].op \in PrivacyOps /\ req'[h] = req[h] /\ CatalogOK /\ catalog' = catalog
      /\ pc'[h] \in Working \cup {"done"} /\ TracesOK
  BY PrivacyMoves, MovesOne DEF CatalogFit, TablesFit
<1>2. ScopeSession(h)'
  BY <1>1 DEF ScopeSession, PrivacyOps, Working
<1>3. CatalogOK' /\ CatalogKept /\ Ours("project")' = Ours("project") /\ \A kind \in Kind : Rows(kind)' = Rows(kind)
  BY <1>1, SameScopes
<1>4. \A id \in DOMAIN keys' : KeyScoped(id)'
  BY <1>3, KeysStay
<1>5. ASSUME NEW n \in Traces'
      PROVE  n \in Traces /\ \A f \in {"key", "project", "agent", "environment"} : traces'[n][f] = traces[n][f]
  <2>1. CASE traces' = traces
    BY <1>5, <2>1 DEF Traces
  <2>2. CASE RunRetention(h) /\ traces' # traces
    BY <1>5, <2>2 DEF RunRetention, Traces
  <2> QED
    BY <2>1, <2>2 DEF PrivacyServe, PolicyLoad, PolicyCommit, RetentionLoad, CreateWish, WishLoad,
       WishCommit, Export, Anonymize, privacy
<1>6. \A n \in Traces' \ DOMAIN StoredTraces : TraceScoped(traces[n])'
  BY <1>1, <1>3, <1>5, TracesStay
<1> QED
  BY <1>1, <1>2, <1>3, <1>4, <1>6, ScopesLeft

LEMMA KeyScopes ==
  ASSUME HandlersFit, TablesFit, CatalogFit, ScopesFit, [Next]_vars,
         NEW h \in Handler, KeysServe(h), UNCHANGED <<catalog, workload>>
  PROVE  ScopesFit'
<1> DEFINE q == req[h]
<1>1. /\ Moves(h) /\ q.op \in KeyOps /\ req'[h] = q /\ q \in Requests /\ CatalogOK /\ catalog' = catalog
      /\ ScopeSession(h) /\ KeySession(h) /\ TracesOK /\ KeysOK /\ workload' = workload
      /\ DOMAIN StoredKeys \subseteq DOMAIN keys /\ HomesKnown
  BY KeysMoves, MovesOne DEF CatalogFit, TablesFit, ScopesFit
<1>2. /\ CatalogOK' /\ CatalogKept /\ Ours("project")' = Ours("project") /\ Known("project")' = Known("project")
      /\ \A kind \in Kind : Rows(kind)' = Rows(kind)
      /\ \A id, project : HomeFits(id, project)' = HomeFits(id, project)
  BY <1>1, SameScopes
<1>3. ASSUME traces' = traces PROVE \A n \in Traces' \ DOMAIN StoredTraces : TraceScoped(traces[n])'
  <2>1. \A n \in Traces' : /\ n \in Traces
                            /\ \A f \in {"key", "project", "agent", "environment"} :
                                 traces'[n][f] = traces[n][f]
    BY <1>3 DEF Traces
  <2> QED
    BY <1>1, <1>2, <2>1, TracesStay
<1>4. ASSUME keys' = keys PROVE \A id \in DOMAIN keys' : KeyScoped(id)'
  BY <1>2, <1>4, KeysStay
<1>5. ASSUME UNCHANGED <<keys, traces>>, ScopeSession(h)' PROVE ScopesFit'
  BY <1>1, <1>2, <1>3, <1>4, <1>5, ScopesLeft
<1>6. ASSUME traces' = traces, ScopeSession(h)', \A id \in DOMAIN keys' : KeyScoped(id)' PROVE ScopesFit'
  BY <1>1, <1>2, <1>3, <1>6, ScopesLeft
<1>7. ASSUME NEW l \in Working, NEW w, Continue(h, l, w)
      PROVE  pc'[h] = l /\ work'[h] = w
  BY <1>7 DEF Continue, HandlersFit
<1>8. CASE NewKeyLoad(h)
  <2>1. UNCHANGED <<keys, traces>> /\ q.op = "key"
    BY <1>8 DEF NewKeyLoad, privacy
  <2>2. ScopeSession(h)'
    <3>1. CASE q.project = Null \/ Visible("project", q.project)
      <4>1. q.project = Null \/ q.project \in Known("project")
        BY <1>1, <3>1, VisibleOurs DEF Known, Kind
      <4> QED
        BY <1>1, <1>2, <2>1, <4>1 DEF ScopeSession
    <3>2. CASE ~ (q.project = Null \/ Visible("project", q.project))
      BY <1>8, <3>2, ScopeAnswered DEF NewKeyLoad
    <3> QED
      BY <3>1, <3>2
  <2> QED
    BY <1>5, <2>1, <2>2
<1>9. CASE CreateKey(h)
  <2>1. traces' = traces /\ q.op = "key" /\ pc[h] \in Working /\ ScopeSession(h)'
    BY <1>9, ScopeAnswered DEF CreateKey, privacy, Working
  <2>2. CASE keys' = keys
    BY <1>5, <2>1, <2>2
  <2>3. CASE keys' # keys
    <3> DEFINE row == [project |-> q.project, status |-> "ACTIVE", expires |-> q.expires, used |-> Null]
    <3>1. keys' = Append(keys, row) /\ (q.project = Null \/ Row("project", q.project) # Null)
      BY <1>9, <2>3 DEF CreateKey
    <3>2. q.project = Null \/ q.project \in Ours("project")
      BY <1>1, <2>1, <3>1, RowFacts DEF ScopeSession, Known, CatalogOK, Kind
    <3>3. row.project = q.project
      OBVIOUS
    <3> HIDE DEF row
    <3>4. \A id \in DOMAIN keys' :
           (id \in DOMAIN keys /\ keys'[id] = keys[id]) \/ (id \notin DOMAIN keys /\ keys'[id] = row)
      <4>1. IsSeq(keys)
        BY <1>1, AnySeq DEF KeysOK
      <4> QED
        BY <3>1, <4>1, AppendAny
    <3>5. ASSUME NEW id \in DOMAIN keys' PROVE KeyScoped(id)'
      <4>1. CASE id \in DOMAIN keys /\ keys'[id] = keys[id]
        BY <1>2, <4>1 DEF ScopesFit, KeyScoped, HomeFits
      <4>2. CASE id \notin DOMAIN keys /\ keys'[id] = row
        BY <1>1, <1>2, <3>2, <3>3, <4>2 DEF KeyScoped, HomeFits
      <4> QED
        BY <3>4, <4>1, <4>2
    <3> QED
      BY <1>6, <2>1, <3>5
  <2> QED
    BY <2>2, <2>3
<1>10. CASE KeyLoad(h)
  <2>1. UNCHANGED <<keys, traces>> /\ q.op \in {"revoke", "delete"}
    BY <1>10 DEF KeyLoad, privacy
  <2> QED
    BY <1>1, <1>5, <2>1 DEF ScopeSession
<1>11. ASSUME NEW row, keys' = [keys EXCEPT ![q.key] = row], row # Null => keys[q.key] # Null /\ row.project = keys[q.key].project
       PROVE  \A id \in DOMAIN keys' : KeyScoped(id)'
  <2>1. /\ DOMAIN keys' \subseteq DOMAIN keys
        /\ \A id \in DOMAIN keys' : keys'[id] # Null => keys[id] # Null /\ keys'[id].project = keys[id].project
    BY <1>11
  <2> QED
    BY <1>2, <2>1, KeysStay
<1>12. CASE Revoke(h)
  <2>1. traces' = traces /\ ScopeSession(h)'
    BY <1>12, ScopeAnswered DEF Revoke, privacy
  <2>2. CASE keys' = keys
    BY <1>5, <2>1, <2>2
  <2>3. CASE keys' # keys
    <3> DEFINE row == [keys[q.key] EXCEPT !.status = "REVOKED"]
    <3>1. keys' = [keys EXCEPT ![q.key] = row] /\ Key(q.key) # Null
      BY <1>12, <2>3 DEF Revoke
    <3>2. keys[q.key] # Null /\ keys[q.key] \in KeyRow
      BY <1>1, <3>1 DEF Key, KeysOK
    <3>3. row.project = keys[q.key].project
      BY <3>2 DEF KeyRow
    <3> HIDE DEF row
    <3> QED
      BY <1>6, <1>11, <2>1, <3>1, <3>2, <3>3
  <2> QED
    BY <2>2, <2>3
<1>13. CASE Delete(h)
  <2>1. traces' = traces /\ ScopeSession(h)' /\ keys' = [keys EXCEPT ![q.key] = Null]
    BY <1>13, ScopeAnswered DEF Delete, privacy
  <2> QED
    BY <1>6, <1>11, <2>1
<1>14. CASE Resolve(h)
  <2>1. UNCHANGED <<keys, traces>> /\ q.op = "ingest"
    BY <1>14 DEF Resolve, privacy, Ingesting
  <2>2. CASE Continue(h, "check", Key(q.key)) /\ Key(q.key) # Null
    <3>1. pc'[h] = "check" /\ work'[h] = Key(q.key)
      BY <1>7, <2>2 DEF Working
    <3>2. HomeFits(q.key, Key(q.key).project)
      BY <2>2 DEF ScopesFit, KeyScoped, Key
    <3>3. HomeFits(q.key, Key(q.key).project)'
      BY <1>1, <2>1, <3>2 DEF HomeFits, Rows, Key
    <3> QED
      BY <1>1, <1>5, <2>1, <3>1, <3>2, <3>3 DEF ScopeSession, HomeFits, Key
  <2>3. CASE \E c, row : Respond(h, c, row)
    BY <1>5, <2>1, <2>3, ScopeAnswered
  <2> QED
    BY <1>14, <2>2, <2>3 DEF Resolve
<1>15. CASE TouchKey(h)
  <2> DEFINE hold == [key |-> work[h], at |-> now, project |-> Null]
  <2>1. UNCHANGED <<keys, traces>> /\ q.op = "ingest" /\ pc[h] = "check"
    BY <1>15 DEF TouchKey, privacy, Ingesting
  <2>2. CASE Continue(h, "scan", hold)
    <3>1. pc'[h] = "scan" /\ work'[h] = hold
      BY <1>7, <2>2 DEF Working
    <3>2. hold.key = work[h] /\ hold.project = Null
      OBVIOUS
    <3> HIDE DEF hold
    <3>3. HomeFits(q.key, hold.key.project)
      BY <1>1, <2>1, <3>2 DEF ScopeSession
    <3> QED
      BY <1>1, <1>2, <1>5, <2>1, <3>1, <3>2, <3>3 DEF ScopeSession, HomeFits
  <2>3. CASE \E c, row : Respond(h, c, row)
    BY <1>5, <2>1, <2>3, ScopeAnswered
  <2> QED
    BY <1>15, <2>2, <2>3 DEF TouchKey
<1>16. CASE Admit(h)
  <2> DEFINE key == work[h].key
             project == Scope(key, q.project)
             hold == [work[h] EXCEPT !.project = project]
  <2>1. /\ UNCHANGED <<keys, traces>> /\ q.op = "ingest" /\ pc[h] = "scan" /\ work[h] \in HoldSession
        /\ work[h].project = Null /\ HomeFits(q.key, key.project)
    BY <1>1, <1>16 DEF Admit, privacy, Ingesting, KeySession, ScopeSession
  <2>2. CASE Continue(h, "commit", work[h])
    <3>1. pc'[h] = "commit" /\ work'[h] = work[h]
      BY <1>7, <2>2 DEF Working
    <3> QED
      BY <1>1, <1>2, <1>5, <2>1, <3>1 DEF ScopeSession, HomeFits
  <2>3. CASE /\ Continue(h, "commit", hold) /\ Visible("project", project)
             /\ Fits("agent", q.agent, project) /\ Fits("environment", q.environment, project)
    <3>1. pc'[h] = "commit" /\ work'[h] = hold
      BY <1>7, <2>3 DEF Working
    <3>2. hold.key = key /\ hold.project = project
      BY <2>1 DEF HoldSession
    <3>3. project \in Known("project")
      BY <1>1, <2>3, VisibleOurs DEF Known, Kind
    <3>4. HomeFits(q.key, project)
      <4>1. CASE key.project # Null
        BY <2>1, <4>1 DEF Scope
      <4>2. CASE key.project = Null
        BY <1>1, <2>1, <4>2, NoHome DEF HomeFits
      <4> QED
        BY <4>1, <4>2
    <3>5. ASSUME NEW kind \in {"agent", "environment"}, NEW id, id = q[kind], id # Null
          PROVE  id \in DOMAIN catalog[kind] /\ (id \in Rows(kind) => catalog[kind][id].parent = project)
      BY <2>3, <3>5 DEF Fits, MembersOf, Rows
    <3> HIDE DEF hold, project, key
    <3>6. AdmittedTo(h, project)
      BY <3>3, <3>4, <3>5 DEF AdmittedTo
    <3>7. PICK p : p = project
      OBVIOUS
    <3>8. AdmittedTo(h, p)'
      BY <1>1, <1>2, <3>6, <3>7 DEF AdmittedTo, HomeFits, Rows
    <3>9. HomeFits(q.key, hold.key.project)
      BY <2>1, <3>2
    <3>10. ScopeSession(h)'
      BY <1>1, <1>2, <2>1, <3>1, <3>2, <3>7, <3>8, <3>9 DEF ScopeSession, HomeFits, AdmittedTo
    <3> QED
      BY <1>5, <2>1, <3>10
  <2>4. CASE \E c, row : Respond(h, c, row)
    BY <1>5, <2>1, <2>4, ScopeAnswered
  <2> QED
    BY <1>16, <2>2, <2>3, <2>4 DEF Admit
<1>17. CASE StoreTrace(h)
  <2>1. /\ q.op = "ingest" /\ pc[h] = "commit" /\ ScopeSession(h)'
        /\ work[h] \in HoldSession /\ q.key \in DOMAIN keys /\ keys[q.key] # Null
    BY <1>1, <1>17, ScopeAnswered DEF StoreTrace, Ingesting, KeySession
  <2>2. CASE UNCHANGED <<keys, traces>>
    BY <1>5, <2>1, <2>2
  <2>3. CASE ~ UNCHANGED <<keys, traces>>
    <3> DEFINE row == [keys[q.key] EXCEPT !.used = work[h].at]
               new == NewTrace(q, work[h].project, work[h].at)
    <3>1. ~ Dangling(h) /\ keys' = [keys EXCEPT ![q.key] = row] /\ traces' = TracesWith(h)
      BY <1>17, <2>3 DEF StoreTrace
    <3>2. row.project = keys[q.key].project
      BY <1>1, <2>1 DEF KeysOK, KeyRow
    <3>3. \A id \in DOMAIN keys' : KeyScoped(id)'
      <4> HIDE DEF row
      <4> QED
        BY <1>11, <2>1, <3>1, <3>2
    <3>4. CASE work[h].project = Null
      BY <1>6, <2>1, <3>1, <3>3, <3>4 DEF TracesWith
    <3>5. CASE work[h].project # Null
      <4>1. traces' = Append(traces, new)
        BY <3>1, <3>5 DEF TracesWith
      <4>2. new.project = work[h].project /\ new.key = q.key /\ new.agent = q.agent /\ new.environment = q.environment
        BY DEF NewTrace
      <4> HIDE DEF new
      <4>3. \A n \in DOMAIN traces' : (n \in DOMAIN traces /\ traces'[n] = traces[n]) \/ traces'[n] = new
        <5>1. IsSeq(traces)
          BY <1>1, AnySeq DEF TracesOK
        <5> QED
          BY <4>1, <5>1, AppendAny
      <4>4. PICK t : t = new
        OBVIOUS
      <4>5. AdmittedTo(h, work[h].project)
        BY <1>1, <2>1, <3>5 DEF ScopeSession
      <4>6. t.project \in Ours("project")
        BY <1>1, <3>1, <3>5, <4>2, <4>4, <4>5, RowFacts DEF AdmittedTo, Known, Dangling, CatalogOK, Kind
      <4>7. ASSUME NEW kind \in {"agent", "environment"}, t[kind] # Null
            PROVE  t[kind] \in Rows(kind) /\ catalog[kind][t[kind]].parent = t.project
        <5>1. t[kind] = q[kind]
          BY <4>2, <4>4, <4>7
        <5>2. Row(kind, t[kind]) # Null
          BY <3>1, <3>5, <4>7, <5>1 DEF Dangling
        <5>3. t[kind] \in Rows(kind)
          BY <5>2 DEF Row, Rows
        <5> QED
          BY <4>2, <4>4, <4>5, <4>7, <5>1, <5>3 DEF AdmittedTo
      <4>8. HomeFits(t.key, t.project)
        BY <4>2, <4>4, <4>5 DEF AdmittedTo
      <4>9. TraceScoped(t)
        BY <4>6, <4>7, <4>8 DEF TraceScoped
      <4>10. ASSUME NEW n \in Traces' \ DOMAIN StoredTraces PROVE TraceScoped(traces[n])'
        <5>1. PICK u : u = traces'[n]
          OBVIOUS
        <5>2. TraceScoped(u)
          <6>1. CASE u = t
            BY <4>9, <6>1
          <6>2. CASE n \in DOMAIN traces /\ traces'[n] = traces[n]
            BY <4>10, <5>1, <6>2 DEF ScopesFit, Traces
          <6> QED
            BY <4>3, <4>4, <4>10, <5>1, <6>1, <6>2 DEF Traces
        <5>3. TraceScoped(u)'
          BY <1>1, <1>2, <5>2 DEF TraceScoped, HomeFits, Rows
        <5> QED
          BY <5>1, <5>3
      <4> QED
        BY <1>1, <1>2, <2>1, <3>3, <4>10, ScopesLeft
    <3> QED
      BY <3>4, <3>5
  <2> QED
    BY <2>2, <2>3
<1> QED
  BY <1>8, <1>9, <1>10, <1>12, <1>13, <1>14, <1>15, <1>16, <1>17 DEF KeysServe

(* A deletion takes the traces of a project, and what the others refer to; *)
(* a key that it leaves to the organisation has no project to write to.    *)
LEMMA DropScopes ==
  ASSUME HandlersFit, TablesFit, CatalogFit, CatalogFit', CatalogKept, ScopesFit, [Next]_vars,
         NEW h \in Handler, DeletionsServe(h), Drops(h), workload' = workload
  PROVE  ScopesFit'
<1>1. PICK kind \in Kind : kind = req[h].kind
  BY DeletionsMoves, MovesOne, KindOf DEF HandlersFit, Moves, Busy
<1>2. PICK x : x = req[h].id
  OBVIOUS
<1>3. /\ CatalogOK /\ CatalogOK' /\ Moves(h) /\ HomesKnown /\ TracesOK /\ KeysOK /\ ScopeSession(h)
      /\ req[h].op = "drop"
  BY DeletionsMoves DEF CatalogFit, TablesFit, ScopesFit
<1>4. /\ traces' = TracesWithout(kind, x, work[h].traces) /\ keys' = KeysWithout(kind, x, work[h].keys)
      /\ pc[h] = "commit" /\ \E c, row : Respond(h, c, row)
  BY <1>1, <1>2 DEF Drops, Drop
<1>5. ScopeSession(h)'
  BY <1>4, ScopeAnswered
<1>6. \A k \in Kind : \A id \in Rows(k) : id \notin Goes(kind, x, k) => id \in Rows(k)'
  BY <1>1, <1>2, <1>3, DropLeaves
<1>7. kind = "project" => x \notin Rows("project")'
  <2>1. \A n \in DOMAIN catalog["project"] :
          catalog'["project"][n] = IF n \in Goes(kind, x, "project") THEN Null ELSE catalog["project"][n]
    BY <1>1, <1>2, <1>3, DroppedRows DEF Drops, Kind
  <2>2. DOMAIN catalog'["project"] = DOMAIN catalog["project"]
    BY <1>1, <1>2, <1>3, DroppedRows DEF Drops, Kind
  <2> QED
    BY <2>1, <2>2 DEF Rows, Goes
<1>8. ASSUME NEW id \in DOMAIN keys' PROVE KeyScoped(id)'
  <2>1. id \in DOMAIN keys /\ KeyScoped(id)
    BY <1>4, <1>8 DEF KeysWithout, ScopesFit
  <2>2. keys'[id] = IF keys[id] # Null /\ id \in work[h].keys THEN [keys[id] EXCEPT !.project = Null]
                    ELSE IF id \in KeysOf(kind, x) THEN Null ELSE keys[id]
    BY <1>4, <2>1 DEF KeysWithout
  <2>3. CASE keys'[id] = Null
    BY <2>3 DEF KeyScoped
  <2>4. CASE keys[id] # Null /\ id \in work[h].keys
    <3>1. kind = "project" /\ HomeFits(id, x)
      BY <1>1, <1>2, <1>3, <1>4, <2>4 DEF ScopeSession, Working
    <3>2. HomeFits(id, x)'
      BY <1>3, <3>1, HomesStay
    <3>3. \A project : HomeFits(id, project)'
      BY <1>7, <3>1, <3>2 DEF HomeFits
    <3>4. keys'[id].project = Null
      <4>1. keys[id] \in KeyRow
        BY <1>3, <2>1, <2>4 DEF KeysOK
      <4> QED
        BY <2>2, <2>4, <4>1 DEF KeyRow
    <3> QED
      BY <3>3, <3>4 DEF KeyScoped, HomeFits
  <2>5. CASE keys'[id] # Null /\ keys'[id] = keys[id] /\ id \notin KeysOf(kind, x)
    <3>1. PICK project : project = keys[id].project
      OBVIOUS
    <3>2. HomeFits(id, project) /\ (project # Null => project \in Ours("project"))
      BY <2>1, <2>5, <3>1 DEF KeyScoped
    <3>3. HomeFits(id, project)'
      BY <1>3, <3>2, HomesStay
    <3>4. project # Null => project \in Ours("project")'
      <4>1. ASSUME project # Null PROVE project \in Rows("project")'
        BY <1>6, <2>1, <2>5, <3>1, <3>2, <4>1 DEF KeysOf, Goes, Ours, Kind
      <4> QED
        BY <1>3, <3>2, <4>1, OursStay
    <3>5. keys'[id].project = project
      BY <2>5, <3>1
    <3> QED
      BY <3>3, <3>4, <3>5 DEF KeyScoped, HomeFits
  <2> QED
    BY <2>2, <2>3, <2>4, <2>5
<1>9. ASSUME NEW n \in Traces' \ DOMAIN StoredTraces PROVE TraceScoped(traces[n])'
  <2>1. PICK t : t = traces[n]
    OBVIOUS
  <2>2. PICK u : u = traces'[n]
    OBVIOUS
  <2>3. n \in DOMAIN traces
    BY <1>4, <1>9 DEF TracesWithout, Traces
  <2>4. n \in Traces
    BY <1>3, <1>4, <1>9, <2>3 DEF TracesWithout, Traces, TracesOf
  <2>5. t \in TraceRow /\ TraceScoped(t)
    BY <1>3, <1>9, <2>1, <2>4 DEF TracesOK, Traces, ScopesFit
  <2>6. u = t \/ (t[kind] = x /\ u = [t EXCEPT ![kind] = Null] /\ kind # "project")
    BY <1>4, <1>9, <2>1, <2>2, <2>3, <2>4 DEF TracesWithout, Traces, TracesOf
  <2>7. u = t => t[kind] # x
    <3>1. t[kind] = x => t # [t EXCEPT ![kind] = Null]
      <4>1. SUFFICES ASSUME t[kind] = x PROVE t # [t EXCEPT ![kind] = Null]
        OBVIOUS
      <4>2. [t EXCEPT ![kind] = Null][kind] = Null
        BY <2>5 DEF TraceRow, Kind
      <4>3. x # Null
        <5>1. x \in DOMAIN catalog[kind] /\ catalog[kind] \in Seq(CatalogRow \cup {Null})
          BY <1>1, <1>2, <1>3, <1>4 DEF CatalogFit, ProjectSession, Working, CatalogOK
        <5> QED
          BY <5>1, ProjectsAssumption
      <4> QED
        BY <4>1, <4>2, <4>3
    <3> QED
      BY <1>4, <1>9, <2>1, <2>2, <2>3, <2>4, <3>1 DEF TracesWithout, Traces, TracesOf
  <2>8. /\ u.key = t.key /\ u.project = t.project
        /\ \A k \in {"agent", "environment"} : u[k] # Null => u[k] = t[k] /\ (k = kind => t[k] # x)
    <3>1. CASE u = t
      BY <2>7, <3>1
    <3>2. CASE kind = "agent" /\ u = [t EXCEPT !.agent = Null]
      BY <2>5, <3>2 DEF TraceRow
    <3>3. CASE kind = "environment" /\ u = [t EXCEPT !.environment = Null]
      BY <2>5, <3>3 DEF TraceRow
    <3> QED
      BY <2>6, <3>1, <3>2, <3>3 DEF Kind
  <2>9. kind = "project" => u.project # x
    BY <2>6, <2>7
  <2>10. TraceScoped(u)
    <3>1. \A k \in {"agent", "environment"} : u[k] # Null =>
            u[k] \in Rows(k) /\ catalog[k][u[k]].parent = u.project
      BY <2>5, <2>8 DEF TraceScoped
    <3>2. u.project \in Ours("project") /\ HomeFits(u.key, u.project)
      BY <2>5, <2>8 DEF TraceScoped
    <3> QED
      BY <3>1, <3>2 DEF TraceScoped
  <2>11. u.project \in Rows("project")'
    BY <1>6, <2>9, <2>10 DEF TraceScoped, Ours, Goes, Kind
  <2>12. ASSUME NEW k \in {"agent", "environment"}, u[k] # Null PROVE u[k] \in Rows(k)'
    <3>1. /\ u[k] \in Rows(k) /\ catalog[k][u[k]].parent = u.project /\ k \in Kind
          /\ k = kind => u[k] # x
      BY <2>8, <2>10, <2>12 DEF TraceScoped, Kind
    <3>2. u[k] \notin Goes(kind, x, k)
      BY <2>9, <2>12, <3>1 DEF Goes, MembersOf
    <3> QED
      BY <1>6, <3>1, <3>2
  <2>13. TraceScoped(u)'
    BY <1>3, <2>10, <2>11, <2>12, TraceStays
  <2> QED
    BY <2>2, <2>13
<1> QED
  BY <1>3, <1>5, <1>8, <1>9, ScopesLeft

LEMMA DropLoadScopes ==
  ASSUME HandlersFit, TablesFit, CatalogFit, ScopesFit, [Next]_vars,
         NEW h \in Handler, DeletionsServe(h), UNCHANGED <<catalog, keys, traces>>, workload' = workload
  PROVE  ScopesFit'
<1> DEFINE q == req[h]
<1>1. Moves(h) /\ req'[h] = q /\ q.op = "drop" /\ CatalogOK /\ catalog' = catalog
  BY DeletionsMoves, MovesOne DEF CatalogFit
<1>2. /\ CatalogOK' /\ CatalogKept /\ Ours("project")' = Ours("project")
      /\ \A kind \in Kind : Rows(kind)' = Rows(kind)
  BY <1>1, SameScopes
<1>3. \A n \in Traces' \ DOMAIN StoredTraces : TraceScoped(traces[n])'
  <2>1. \A n \in Traces' : /\ n \in Traces
                           /\ \A f \in {"key", "project", "agent", "environment"} :
                                traces'[n][f] = traces[n][f]
    BY DEF Traces
  <2> QED
    BY <1>1, <1>2, <2>1, TracesStay
<1>4. \A id \in DOMAIN keys' : KeyScoped(id)'
  BY <1>2, KeysStay
<1>5. ScopeSession(h)'
  <2>1. CASE \E c, row : Respond(h, c, row)
    BY <2>1, ScopeAnswered
  <2>2. CASE Continue(h, "commit", [traces |-> TracesOf(q.kind, q.id), keys |-> KeysOf(q.kind, q.id)])
    <3>1. pc'[h] = "commit" /\ work'[h] = [traces |-> TracesOf(q.kind, q.id), keys |-> KeysOf(q.kind, q.id)]
      BY <2>2 DEF Continue, HandlersFit
    <3>2. work'[h].keys = KeysOf(q.kind, q.id)
      BY <3>1
    <3>3. \A n \in KeysOf(q.kind, q.id) : q.kind = "project" /\ HomeFits(n, q.id)
      BY DEF KeysOf, ScopesFit, KeyScoped
    <3>4. \A n \in KeysOf(q.kind, q.id) : HomeFits(n, q.id)'
      BY <1>1, <3>3 DEF HomeFits, Rows
    <3> QED
      BY <1>1, <3>1, <3>2, <3>3, <3>4 DEF ScopeSession, HomeFits
  <2> QED
    BY <2>1, <2>2 DEF DeletionsServe, DropLoad, Drop
<1> QED
  BY <1>1, <1>2, <1>3, <1>4, <1>5, ScopesLeft

LEMMA NextScopes == HandlersFit /\ TablesFit /\ CatalogFit /\ ScopesFit /\ [Next]_vars => ScopesFit'
<1> SUFFICES ASSUME HandlersFit, TablesFit, CatalogFit, ScopesFit, [Next]_vars PROVE ScopesFit'
  OBVIOUS
<1>1. CatalogFit' /\ CatalogKept /\ CatalogOK /\ CatalogOK'
  BY CatalogChanges DEF CatalogFit
<1>2. ASSUME UNCHANGED <<traces, keys>>, Untouched(ScopeOps),
             catalog' = catalog \/ \E h \in Handler : ProjectsServe(h) /\ workload' = workload
      PROVE  ScopesFit'
  <2>1. \A kind \in Kind : \A id : Row(kind, id) # Null => Row(kind, id)' # Null
    BY <1>2, ProjectTables DEF Row
  <2>2. ASSUME NEW kind \in Kind PROVE Rows(kind) \subseteq Rows(kind)'
    BY <2>1 DEF Row, Rows
  <2>3. Ours("project") \subseteq Ours("project")'
    BY <1>1, <2>2, OursStay DEF Ours, Kind
  <2>4. \A id \in DOMAIN keys' : KeyScoped(id)'
    BY <1>1, <1>2, <2>3, KeysStay
  <2>5. \A n \in Traces' \ DOMAIN StoredTraces : TraceScoped(traces[n])'
    <3>1. \A n \in Traces' : /\ n \in Traces
                             /\ \A f \in {"key", "project", "agent", "environment"} :
                                  traces'[n][f] = traces[n][f]
      BY <1>2 DEF Traces
    <3> QED
      BY <1>1, <2>2, <3>1, TracesStay
  <2>6. HomesKnown /\ HomesKnown'
    BY <1>1, HomesStay DEF ScopesFit
  <2>7. ASSUME NEW h \in Handler PROVE ScopeSession(h)'
    <3>1. CASE pc'[h] \in Working /\ req'[h].op \in ScopeOps
      <4>1. ScopeSession(h) /\ pc'[h] = pc[h] /\ req'[h] = req[h] /\ work'[h] = work[h]
        BY <1>2, <3>1 DEF Untouched, ScopesFit
      <4> QED
        BY <1>1, <2>6, <4>1, ScopeSessionStays
    <3>2. CASE ~ (pc'[h] \in Working /\ req'[h].op \in ScopeOps)
      BY <3>2 DEF ScopeSession, ScopeOps, KeyOps, Working
    <3> QED
      BY <3>1, <3>2
  <2> QED
    BY <1>2, <2>4, <2>5, <2>6, <2>7 DEF ScopesFit
<1>3. ASSUME NEW h \in Handler, DeletionsServe(h), workload' = workload PROVE ScopesFit'
  BY <1>1, <1>3, DropScopes, DropLoadScopes, DeletionTables
<1> QED
  BY <1>2, <1>3, ScopeSteps, PrivacyScopes, KeyScopes

LEMMA AlwaysScopesFit == Spec => []ScopesFit
<1>1. Init => ScopesFit
  <2> SUFFICES ASSUME Init PROVE ScopesFit
    OBVIOUS
  <2>1. keys = StoredKeys /\ traces = StoredTraces /\ catalog = StoredCatalog
    BY DEF Init
  <2>2. HomesKnown
    BY <2>1, ApiKeysAssumption DEF HomesKnown
  <2>3. ASSUME NEW id \in DOMAIN keys PROVE KeyScoped(id)
    <3> DEFINE home == keys[id].project
    <3>1. HomeFits(id, home)
      BY <2>1 DEF HomeFits
    <3>2. home # Null => home \in Ours("project")
      <4> SUFFICES ASSUME home # Null PROVE home \in Ours("project")
        OBVIOUS
      <4>1. home \in DOMAIN catalog["project"] /\ catalog["project"][home].parent = Organization
        BY <2>1, ApiKeysAssumption
      <4>2. catalog["project"] \in Seq(CatalogRow)
        BY <2>1, ProjectsAssumption DEF Kind
      <4>3. catalog["project"][home] \in CatalogRow
        BY <4>1, <4>2
      <4>4. catalog["project"][home] # Null
        BY <4>3, ProjectsAssumption
      <4> QED
        BY <4>1, <4>4 DEF Ours, Rows, Visible, Row
    <3> QED
      BY <3>1, <3>2 DEF KeyScoped
  <2> QED
    BY <2>1, <2>2, <2>3 DEF ScopesFit, ScopeSession, Traces, Init, HandlersInit, Working
<1>2. HandlersFit /\ TablesFit /\ CatalogFit /\ ScopesFit /\ [Next]_vars => ScopesFit'
  BY NextScopes
<1> QED
  BY <1>1, <1>2, AlwaysHandlersFit, AlwaysTablesFit, AlwaysCatalogFit, PTL DEF Spec

-----------------------------------------------------------------------------
(* Answers and the audit log *)

RespOK == resp \in [Handler -> Answer \cup {Null}]

LogOK == IsSeq(log) /\ \A n \in Entries : log[n].at \in 1 .. now

(* Events that a property reads, and the log with others at its end.       *)
ReadEvents == {"bump", "status", "retention.executed"}

Extended(s) ==
  /\ IsSeq(s) /\ \A n \in DOMAIN log : n \in DOMAIN s /\ s[n] = log[n]
  /\ \A n \in DOMAIN s \ DOMAIN log : s[n].at = now /\ s[n].event \notin ReadEvents

OtherLog == Extended(log')

LEMMA SameLog ==
  ASSUME LogOK, log' = log
  PROVE  OtherLog
BY DEF OtherLog, Extended, LogOK

LEMMA Logged ==
  ASSUME LogOK, NEW event, NEW about, NEW note, log' = Append(log, Entry(event, about, note))
  PROVE  /\ IsSeq(log') /\ DOMAIN log' = DOMAIN log \cup {Len(log) + 1} /\ Len(log) + 1 \notin DOMAIN log
         /\ log'[Len(log) + 1] = Entry(event, about, note)
         /\ \A n \in DOMAIN log : log'[n] = log[n]
         /\ event \notin ReadEvents => OtherLog
<1> DEFINE e == Entry(event, about, note)
<1>1. e.at = now /\ e.event = event
  BY DEF Entry
<1> HIDE DEF e
<1>2. /\ IsSeq(log') /\ DOMAIN log' = DOMAIN log \cup {Len(log) + 1} /\ Len(log) + 1 \notin DOMAIN log
      /\ log'[Len(log) + 1] = e
      /\ \A n \in DOMAIN log : log'[n] = log[n]
  BY AppendAny DEF LogOK, e
<1> QED
  BY <1>1, <1>2 DEF OtherLog, Extended, e

LEMMA GivesAnswer ==
  ASSUME RespOK, NEW h \in Handler, NEW c, NEW row,
         c \in {200, 201, 204, 400, 401, 403, 404, 409, 422, 429, 500}, row \in Nat \cup {Null}, Respond(h, c, row)
  PROVE  RespOK'
<1>1. resp' = [resp EXCEPT ![h] = [http |-> c, row |-> row]] /\ [http |-> c, row |-> row] \in Answer
  BY DEF Respond, Answer
<1> QED
  BY <1>1 DEF RespOK

LEMMA NoAnswer ==
  ASSUME RespOK, resp' = resp
  PROVE  RespOK'
BY DEF RespOK

LEMMA PricingAnswers ==
  ASSUME HandlersFit, PricesFit, RespOK, LogOK, NEW h \in Handler, PricingServe(h)
  PROVE  RespOK' /\ OtherLog
<1>1. OtherLog
  BY SameLog DEF PricingServe, PriceCheck, PriceInsert, RepriceLoad, RepriceCheck, RepriceCommit, ledger
<1>2. \A c, row : c \in {200, 201, 204, 400, 401, 403, 404, 409, 422, 429, 500} /\ row \in Nat \cup {Null}
                   /\ Respond(h, c, row) => RespOK'
  BY GivesAnswer
<1>3. \A l, w : Continue(h, l, w) => RespOK'
  BY NoAnswer DEF Continue
<1>4. CASE PriceCheck(h) \/ RepriceLoad(h) \/ RepriceCheck(h)
  BY <1>1, <1>2, <1>3, <1>4 DEF PriceCheck, RepriceLoad, RepriceCheck
<1>5. CASE PriceInsert(h)
  <2>1. Len(pricing') \in Nat
    <3>1. pricing' = Append(pricing, work[h]) /\ IsSeq(pricing)
      BY <1>5, AnySeq DEF PriceInsert, PricesFit
    <3>2. IsSeq(pricing')
      BY <3>1, AppendAny
    <3> QED
      BY <3>2, SeqFacts
  <2> QED
    BY <1>1, <1>2, <1>5, <2>1 DEF PriceInsert
<1>6. CASE RepriceCommit(h)
  <2>1. req[h].row \in DOMAIN pricing /\ pricing \in Seq(PricingRow)
    BY <1>6 DEF RepriceCommit, PricesFit, PriceSession, Working
  <2>2. req[h].row \in Nat
    BY <2>1
  <2> QED
    BY <1>1, <1>2, <1>6, <2>2 DEF RepriceCommit
<1> QED
  BY <1>4, <1>5, <1>6 DEF PricingServe

LEMMA EvaluationAnswers ==
  ASSUME HandlersFit, EvaluationsFit, RespOK, LogOK, NEW h \in Handler, EvaluationsServe(h)
  PROVE  RespOK' /\ OtherLog
<1> DEFINE q == req[h]
<1>1. \A c, row : c \in {200, 201, 204, 400, 401, 403, 404, 409, 422, 429, 500} /\ row \in Nat \cup {Null}
                   /\ Respond(h, c, row) => RespOK'
  BY GivesAnswer
<1>2. \A l, w : Continue(h, l, w) => RespOK'
  BY NoAnswer DEF Continue
<1>3. /\ IsSeq(datasets) /\ IsSeq(cases) /\ IsSeq(runs) /\ IsSeq(results)
  BY AnySeq DEF EvaluationsFit, EvaluationsOK
<1>4. CASE DatasetLoad(h) \/ CreateRun(h) \/ CompareFirst(h) \/ CompareRuns(h) \/ ReviewLoad(h) \/ CompleteRun(h)
  <2>1. log' = log
    BY <1>4 DEF DatasetLoad, CreateRun, CompareFirst, CompareRuns, ReviewLoad, CompleteRun, ledger
  <2>2. RespOK'
    BY <1>1, <1>2, <1>4 DEF DatasetLoad, CreateRun, CompareFirst, CompareRuns, ReviewLoad, CompleteRun
  <2> QED
    BY <2>1, <2>2, SameLog
<1>5. CASE StartRun(h) \/ RunCase(h)
  <2>1. log' = log
    BY <1>5 DEF StartRun, RunCase, ledger
  <2>2. resp' = resp
    BY <1>5 DEF StartRun, RunCase, FailRun, Adds, Continue
  <2> QED
    BY <2>1, <2>2, SameLog, NoAnswer
<1>6. CASE CreateDataset(h)
  <2>1. CASE log' = log /\ Respond(h, 500, Null)
    BY <1>1, <2>1, SameLog
  <2>2. CASE /\ datasets' = Append(datasets, [project |-> q.project]) /\ Respond(h, 201, Len(datasets'))
             /\ log' = Append(log, Entry("dataset.created", Len(datasets'), Null))
    <3>1. Len(datasets') \in Nat
      BY <1>3, <2>2, AppendAny, SeqFacts
    <3>2. OtherLog
      BY <2>2, Logged DEF ReadEvents
    <3> QED
      BY <1>1, <2>2, <3>1, <3>2
  <2> QED
    BY <1>6, <2>1, <2>2 DEF CreateDataset
<1>7. CASE AddCase(h)
  <2>1. log' = log
    BY <1>7 DEF AddCase, ledger
  <2>2. CASE Respond(h, 404, Null)
    BY <1>1, <2>1, <2>2, SameLog
  <2>3. CASE cases' = Append(cases, [dataset |-> q.dataset, expected |-> q.expected, tools |-> q.tools])
             /\ Respond(h, 201, Len(cases'))
    <3>1. Len(cases') \in Nat
      BY <1>3, <2>3, AppendAny, SeqFacts
    <3> QED
      BY <1>1, <2>1, <2>3, <3>1, SameLog
  <2> QED
    BY <1>7, <2>2, <2>3 DEF AddCase
<1>8. CASE StoreRun(h)
  <2> DEFINE id == Len(runs) + 1
             run == work[h].run
             first == <<Entry("run.created", id, Null)>>
             began == IF run.total = Null THEN << >> ELSE <<Entry("run.started", id, run.total)>>
             last == <<Entry("run.ended", id, run.status)>>
  <2>1. log' = log \o first \o began \o last /\ Respond(h, 201, id)
    BY <1>8 DEF StoreRun
  <2>2. id \in Nat
    BY <1>3, SeqFacts
  <2>3. ASSUME NEW event, NEW about, NEW note, event \notin ReadEvents
        PROVE  LET s == <<Entry(event, about, note)>> IN
               IsSeq(s) /\ \A n \in DOMAIN s : s[n].at = now /\ s[n].event \notin ReadEvents
    <3> DEFINE e == Entry(event, about, note)
    <3>1. e.at = now /\ e.event = event
      BY DEF Entry
    <3> HIDE DEF e
    <3>2. <<e>> \in Seq({e}) /\ \A n \in DOMAIN <<e>> : <<e>>[n] = e
      OBVIOUS
    <3>3. IsSeq(<<e>>)
      BY <3>2, AnySeq
    <3> QED
      BY <2>3, <3>1, <3>2, <3>3 DEF e
  <2>4. ASSUME NEW s, Extended(s), NEW t, IsSeq(t), \A n \in DOMAIN t : t[n].at = now /\ t[n].event \notin ReadEvents
        PROVE  Extended(s \o t)
    BY <2>4, ConcatAny DEF Extended
  <2>5. IsSeq(first) /\ \A n \in DOMAIN first : first[n].at = now /\ first[n].event \notin ReadEvents
    BY <2>3 DEF ReadEvents
  <2>6. IsSeq(last) /\ \A n \in DOMAIN last : last[n].at = now /\ last[n].event \notin ReadEvents
    BY <2>3 DEF ReadEvents
  <2>7. IsSeq(began) /\ \A n \in DOMAIN began : began[n].at = now /\ began[n].event \notin ReadEvents
    BY <2>3, EmptyAny DEF ReadEvents
  <2> HIDE DEF first, began, last
  <2>8. Extended(log)
    BY DEF Extended, LogOK
  <2>9. Extended(log \o first)
    BY <2>4, <2>5, <2>8
  <2>10. Extended(log \o first \o began)
    BY <2>4, <2>7, <2>9
  <2>11. Extended(log \o first \o began \o last)
    BY <2>4, <2>6, <2>10
  <2>12. OtherLog
    BY <2>1, <2>11 DEF OtherLog
  <2> QED
    BY <1>1, <2>1, <2>2, <2>12
<1>9. CASE ReviewCommit(h)
  <2>1. CASE log' = log /\ Respond(h, 500, Null)
    BY <1>1, <2>1, SameLog
  <2>2. CASE /\ Respond(h, 200, q.result) /\ HasResult(q.result)
             /\ log' = Append(log, Entry("result.reviewed", q.result, q.status))
    <3>1. q.result \in Nat
      BY <1>3, <2>2, SeqFacts DEF HasResult
    <3>2. OtherLog
      BY <2>2, Logged DEF ReadEvents
    <3> QED
      BY <1>1, <2>2, <3>1, <3>2
  <2> QED
    BY <1>9, <2>1, <2>2 DEF ReviewCommit
<1> QED
  BY <1>4, <1>5, <1>6, <1>7, <1>8, <1>9 DEF EvaluationsServe

(* A commit that says of an agent what changed.                            *)
Tells(h) ==
  /\ ChangeCommit(h) /\ req[h].op \in {"bump", "status"}
  /\ log' = Append(log, Entry(req[h].op, <<req[h].kind, req[h].id>>, Told(req[h], work[h].row)))

LEMMA ProjectAnswers ==
  ASSUME HandlersFit, CatalogFit, RespOK, LogOK, NEW h \in Handler, ProjectsServe(h)
  PROVE  RespOK' /\ (OtherLog \/ Tells(h))
<1> DEFINE q == req[h]
<1>1. \A c, row : c \in {200, 201, 204, 400, 401, 403, 404, 409, 422, 429, 500} /\ row \in Nat \cup {Null}
                   /\ Respond(h, c, row) => RespOK'
  BY GivesAnswer
<1>2. \A l, w : Continue(h, l, w) => RespOK'
  BY NoAnswer DEF Continue
<1>3. CASE CreateLoad(h) \/ ChangeLoad(h)
  <2>1. OtherLog
    BY <1>3, SameLog DEF CreateLoad, ChangeLoad, ledger
  <2>2. RespOK'
    BY <1>1, <1>2, <1>3 DEF CreateLoad, ChangeLoad
  <2> QED
    BY <2>1, <2>2
<1>4. CASE CreateCommit(h)
  <2>1. CASE log' = log /\ Respond(h, 500, Null)
    BY <1>1, <2>1, SameLog
  <2>2. CASE LET rows == Append(catalog[q.kind], NewRow(q)) IN
             /\ log' = Append(log, Entry("created", <<q.kind, Len(rows)>>, Null))
             /\ Respond(h, 201, Len(rows))
    <3> DEFINE rows == Append(catalog[q.kind], NewRow(q))
    <3>1. Len(rows) \in Nat
      <4>1. q.kind \in Kind
        BY <1>4, KindOf, ProjectsMoves, MovesOne DEF CreateCommit, HandlersFit, Moves, Busy, ProjectsServe
      <4>2. IsSeq(catalog[q.kind])
        BY <4>1, AnySeq DEF CatalogFit, CatalogOK
      <4> QED
        BY <4>2, AppendAny, SeqFacts
    <3>2. log' = Append(log, Entry("created", <<q.kind, Len(rows)>>, Null)) /\ Respond(h, 201, Len(rows))
      BY <2>2
    <3> HIDE DEF rows
    <3>3. OtherLog
      BY <3>2, Logged DEF ReadEvents
    <3> QED
      BY <1>1, <3>1, <3>2, <3>3
  <2> QED
    BY <1>4, <2>1, <2>2 DEF CreateCommit
<1>5. CASE ChangeCommit(h)
  <2>1. q.id \in Nat
    <3>1. q.id \in DOMAIN catalog[q.kind] /\ q.kind \in Kind
      BY <1>5, KindOf, ProjectsMoves
         DEF ChangeCommit, HandlersFit, Moves, Busy, ProjectsServe, CatalogFit, ProjectSession, Working
    <3>2. catalog[q.kind] \in Seq(CatalogRow \cup {Null})
      BY <3>1 DEF CatalogFit, CatalogOK
    <3> QED
      BY <3>1, <3>2
  <2>2. RespOK'
    BY <1>1, <1>5, <2>1 DEF ChangeCommit
  <2>3. CASE log' = log
    BY <2>2, <2>3, SameLog
  <2>4. CASE log' # log
    <3>1. log' = Append(log, Entry(q.op, <<q.kind, q.id>>, Told(q, work[h].row))) /\ q.op \in {"edit", "bump", "status"}
      BY <1>5, <2>4 DEF ChangeCommit
    <3>2. CASE q.op = "edit"
      <4>1. OtherLog
        BY <3>1, <3>2, Logged DEF ReadEvents
      <4> QED
        BY <2>2, <4>1
    <3>3. CASE q.op \in {"bump", "status"}
      BY <1>5, <2>2, <3>1, <3>3 DEF Tells
    <3> QED
      BY <3>1, <3>2, <3>3
  <2> QED
    BY <2>3, <2>4
<1> QED
  BY <1>3, <1>4, <1>5 DEF ProjectsServe

LEMMA DeletionAnswers ==
  ASSUME RespOK, LogOK, NEW h \in Handler, DeletionsServe(h)
  PROVE  RespOK' /\ OtherLog
<1>1. RespOK'
  <2>1. \A c, row : c \in {200, 201, 204, 400, 401, 403, 404, 409, 422, 429, 500} /\ row \in Nat \cup {Null}
                     /\ Respond(h, c, row) => RespOK'
    BY GivesAnswer
  <2>2. \A l, w : Continue(h, l, w) => RespOK'
    BY NoAnswer DEF Continue
  <2> QED
    BY <2>1, <2>2 DEF DeletionsServe, DropLoad, Drop
<1>2. log' = log \/ log' = Append(log, Entry("deleted", <<req[h].kind, req[h].id>>, Null))
  BY DEF DeletionsServe, DropLoad, Drop, ledger
<1>3. OtherLog
  BY <1>2, SameLog, Logged DEF ReadEvents
<1> QED
  BY <1>1, <1>3

LEMMA KeyAnswers ==
  ASSUME HandlersFit, TablesFit, RespOK, LogOK, NEW h \in Handler, KeysServe(h)
  PROVE  RespOK' /\ OtherLog
<1> DEFINE q == req[h]
<1>1. \A c, row : c \in {200, 201, 204, 400, 401, 403, 404, 409, 422, 429, 500} /\ row \in Nat \cup {Null}
                   /\ Respond(h, c, row) => RespOK'
  BY GivesAnswer
<1>2. \A l, w : Continue(h, l, w) => RespOK'
  BY NoAnswer DEF Continue
<1>3. \A event, about, note : event \notin ReadEvents /\ log' = Append(log, Entry(event, about, note)) => OtherLog
  BY Logged
<1>4. CASE NewKeyLoad(h) \/ KeyLoad(h) \/ Resolve(h) \/ TouchKey(h) \/ Admit(h) \/ StoreTrace(h)
  <2>1. OtherLog
    BY <1>4, SameLog DEF NewKeyLoad, KeyLoad, Resolve, TouchKey, Admit, StoreTrace, ledger
  <2>2. CASE NewKeyLoad(h) \/ KeyLoad(h) \/ Resolve(h)
    BY <1>1, <1>2, <2>1, <2>2 DEF NewKeyLoad, KeyLoad, Resolve
  <2>3. CASE TouchKey(h) \/ StoreTrace(h)
    BY <1>1, <1>2, <2>1, <2>3 DEF TouchKey, StoreTrace
  <2>4. CASE Admit(h)
    BY <1>1, <1>2, <2>1, <2>4 DEF Admit
  <2> QED
    BY <1>4, <2>2, <2>3, <2>4
<1>5. CASE CreateKey(h)
  <2>1. CASE log' = log /\ Respond(h, 500, Null)
    BY <1>1, <2>1, SameLog
  <2>2. CASE /\ Respond(h, 201, Len(keys')) /\ log' = Append(log, Entry("key.created", Len(keys'), q.project))
             /\ \E row : keys' = Append(keys, row)
    <3>1. Len(keys') \in Nat
      <4>1. IsSeq(keys)
        BY AnySeq DEF TablesFit, KeysOK
      <4> QED
        BY <2>2, <4>1, AppendAny, SeqFacts
    <3> QED
      BY <1>1, <1>3, <2>2, <3>1 DEF ReadEvents
  <2> QED
    BY <1>5, <2>1, <2>2 DEF CreateKey
<1>6. CASE Revoke(h)
  <2>1. CASE log' = log /\ Respond(h, 500, Null)
    BY <1>1, <2>1, SameLog
  <2>2. CASE log' = Append(log, Entry("key.revoked", q.key, Null)) /\ Respond(h, 200, q.key) /\ Key(q.key) # Null
    <3>1. q.key \in Nat
      <4>1. q.key \in DOMAIN keys /\ keys \in Seq(KeyRow \cup {Null})
        BY <2>2 DEF Key, TablesFit, KeysOK
      <4> QED
        BY <4>1
    <3> QED
      BY <1>1, <1>3, <2>2, <3>1 DEF ReadEvents
  <2> QED
    BY <1>6, <2>1, <2>2 DEF Revoke
<1>7. CASE Delete(h)
  BY <1>1, <1>3, <1>7 DEF Delete, ReadEvents
<1> QED
  BY <1>4, <1>5, <1>6, <1>7 DEF KeysServe

WishRow(w) ==
  /\ DOMAIN w = {"type", "subject", "status", "completed"}
  /\ w.type \in WishType /\ w.status \in WishStatus

WishesOK == IsSeq(wishes) /\ \A n \in DOMAIN wishes : WishRow(wishes[n])

WishSession(h) ==
  pc[h] \in Working /\ req[h].op = "progress" => req[h].wish \in DOMAIN wishes /\ req[h].status \in WishStatus

WishesFit == WishesOK /\ \A h \in Handler : WishSession(h)

LEMMA PrivacyAnswers ==
  ASSUME HandlersFit, WishesFit, RespOK, LogOK, NEW h \in Handler, PrivacyServe(h)
  PROVE  /\ RespOK' /\ WishesOK' /\ WishSession(h)' /\ DOMAIN wishes \subseteq DOMAIN wishes'
         /\ OtherLog \/ RunRetention(h)
<1> DEFINE q == req[h]
<1>1. \A c, row : c \in {200, 201, 204, 400, 401, 403, 404, 409, 422, 429, 500} /\ row \in Nat \cup {Null}
                   /\ Respond(h, c, row) => RespOK'
  BY GivesAnswer
<1>2. \A l, w : Continue(h, l, w) => RespOK'
  BY NoAnswer DEF Continue
<1>3. \A event, about, note : event \notin ReadEvents /\ log' = Append(log, Entry(event, about, note)) => OtherLog
  BY Logged
<1>4. \A c, row : Respond(h, c, row) => pc'[h] = "done"
  BY DEF Respond, HandlersFit
<1>5. pc'[h] = "done" => WishSession(h)'
  BY DEF WishSession, Working
<1>6. q.op # "progress" => WishSession(h)'
  BY PrivacyMoves DEF WishSession, Moves
<1>7. wishes' = wishes => WishesOK' /\ DOMAIN wishes \subseteq DOMAIN wishes'
  BY DEF WishesFit, WishesOK
<1>8. log' = log => OtherLog
  BY SameLog
<1>9. CASE PolicyLoad(h) \/ RetentionLoad(h) \/ Anonymize(h)
  <2>1. wishes' = wishes /\ log' = log /\ q.op # "progress"
    BY <1>9 DEF PolicyLoad, RetentionLoad, Anonymize, privacy, ledger
  <2>2. RespOK'
    BY <1>1, <1>2, <1>9 DEF PolicyLoad, RetentionLoad, Anonymize
  <2> QED
    BY <1>6, <1>7, <1>8, <2>1, <2>2
<1>10. CASE PolicyCommit(h)
  <2>1. wishes' = wishes /\ q.op # "progress"
    BY <1>10 DEF PolicyCommit
  <2>2. RespOK' /\ OtherLog
    BY <1>1, <1>3, <1>8, <1>10 DEF PolicyCommit, ReadEvents
  <2> QED
    BY <1>6, <1>7, <2>1, <2>2
<1>11. CASE RunRetention(h)
  <2>1. wishes' = wishes /\ q.op # "progress" /\ Respond(h, 200, Null)
    BY <1>11 DEF RunRetention
  <2> QED
    BY <1>1, <1>6, <1>7, <1>11, <2>1
<1>12. CASE Export(h)
  <2>1. wishes' = wishes /\ q.op # "progress" /\ Respond(h, 200, Null)
        /\ log' = Append(log, Entry("data.exported", q.subject, Null))
    BY <1>12 DEF Export, privacy
  <2> QED
    BY <1>1, <1>3, <1>6, <1>7, <2>1 DEF ReadEvents
<1>13. CASE CreateWish(h)
  <2> DEFINE ref == IF q.subject \in PlainSubject THEN Hash(q.subject) ELSE q.subject
             row == [type |-> q.type, subject |-> ref, status |-> "PENDING", completed |-> Null]
  <2>1. q.op # "progress"
    BY <1>13 DEF CreateWish
  <2>2. CASE wishes' = wishes /\ log' = log /\ (Respond(h, 422, Null) \/ Respond(h, 500, Null))
    BY <1>1, <1>6, <1>7, <1>8, <2>1, <2>2
  <2>3. CASE /\ wishes' = Append(wishes, row) /\ q.type \in WishType /\ Respond(h, 201, Len(wishes'))
             /\ log' = Append(log, Entry("wish.created", Len(wishes'), ref))
    <3>1. WishRow(row)
      BY <2>3 DEF WishRow, WishStatus
    <3>2. OtherLog
      BY <1>3, <2>3 DEF ReadEvents
    <3>3. Respond(h, 201, Len(wishes')) /\ wishes' = Append(wishes, row)
      BY <2>3
    <3> HIDE DEF row
    <3>4. /\ IsSeq(wishes') /\ DOMAIN wishes' = DOMAIN wishes \cup {Len(wishes) + 1}
          /\ wishes'[Len(wishes) + 1] = row /\ \A n \in DOMAIN wishes : wishes'[n] = wishes[n]
      BY <3>3, AppendAny DEF WishesFit, WishesOK
    <3>5. ASSUME NEW n \in DOMAIN wishes' PROVE WishRow(wishes[n])'
      BY <3>1, <3>4, <3>5 DEF WishesFit, WishesOK, WishRow
    <3>6. WishesOK' /\ DOMAIN wishes \subseteq DOMAIN wishes'
      BY <3>4, <3>5 DEF WishesOK
    <3>7. RespOK'
      BY <1>1, <3>3, <3>4, SeqFacts
    <3> QED
      BY <1>6, <2>1, <3>2, <3>6, <3>7
  <2> QED
    BY <1>13, <2>2, <2>3 DEF CreateWish
<1>14. CASE WishLoad(h)
  <2>1. wishes' = wishes /\ log' = log /\ req' = req
    BY <1>14, PrivacyMoves DEF WishLoad, privacy, ledger, Moves
  <2>2. RespOK'
    BY <1>1, <1>2, <1>14 DEF WishLoad
  <2>3. WishSession(h)'
    <3>1. CASE \E c, row : Respond(h, c, row)
      BY <1>4, <1>5, <3>1
    <3>2. CASE q.wish \in DOMAIN wishes /\ q.status \in WishStatus
      BY <2>1, <3>2 DEF WishSession
    <3> QED
      BY <1>14, <3>1, <3>2 DEF WishLoad
  <2> QED
    BY <1>7, <1>8, <2>1, <2>2, <2>3
<1>15. CASE WishCommit(h)
  <2> DEFINE status == IF q.status # work[h].before THEN q.status ELSE wishes[q.wish].status
             done == IF q.status = "COMPLETED" THEN now ELSE wishes[q.wish].completed
             row == [wishes[q.wish] EXCEPT !.status = status, !.completed = done]
  <2>1. /\ q.wish \in DOMAIN wishes /\ q.status \in WishStatus /\ WishRow(wishes[q.wish]) /\ IsSeq(wishes)
        /\ pc'[h] = "done"
    BY <1>4, <1>15 DEF WishCommit, WishesFit, WishesOK, WishSession, Working
  <2>2. wishes' = [wishes EXCEPT ![q.wish] = row]
    BY <1>15, <2>1 DEF WishCommit, WishRow
  <2>3. WishRow(row)
    <3>1. status \in WishStatus
      BY <2>1 DEF WishRow
    <3> HIDE DEF status, done
    <3> QED
      BY <2>1, <3>1 DEF WishRow
  <2> HIDE DEF row
  <2>4. wishes' = [n \in DOMAIN wishes |-> wishes'[n]]
    BY <2>2
  <2>5. IsSeq(wishes') /\ DOMAIN wishes' = DOMAIN wishes
    BY <2>1, <2>4, MappedSeq
  <2>6. ASSUME NEW n \in DOMAIN wishes' PROVE WishRow(wishes[n])'
    BY <2>1, <2>2, <2>3, <2>5, <2>6 DEF WishesFit, WishesOK, WishRow
  <2>7. WishesOK'
    BY <2>5, <2>6 DEF WishesOK
  <2>8. OtherLog
    BY <1>3, <1>15 DEF WishCommit, ReadEvents
  <2>9. RespOK'
    <3>1. q.wish \in Nat
      BY <2>1, SeqFacts
    <3> QED
      BY <1>1, <1>15, <3>1 DEF WishCommit
  <2> QED
    BY <1>5, <2>1, <2>5, <2>7, <2>8, <2>9
<1> QED
  BY <1>9, <1>10, <1>11, <1>12, <1>13, <1>14, <1>15 DEF PrivacyServe

RetentionNote(h) == [days |-> work[h].days, executed |-> work[h].executed, upto |-> Len(traces)]

(* Retention deletes entries and adds its own.                             *)
LEMMA RetentionLog ==
  ASSUME LogOK, NEW h \in Handler, RunRetention(h)
  PROVE  LET days     == work[h].days
             executed == work[h].executed
         IN
         /\ IsSeq(log') /\ DOMAIN log' = DOMAIN log \cup {Len(log) + 1} /\ Len(log) + 1 \notin DOMAIN log
         /\ log'[Len(log) + 1] = Entry("retention.executed", Null, RetentionNote(h))
         /\ \A n \in DOMAIN log :
              log'[n] = IF n \in Entries /\ Old(log[n].at, days.audit, executed) THEN Null ELSE log[n]
         /\ traces' = [n \in DOMAIN traces |->
                         IF n \in Traces /\ Old(traces[n].at, days.traces, executed) THEN Null ELSE traces[n]]
<1> DEFINE days == work[h].days
           executed == work[h].executed
           kept == [n \in DOMAIN log |->
                      IF n \in Entries /\ Old(log[n].at, days.audit, executed) THEN Null ELSE log[n]]
           e == Entry("retention.executed", Null, RetentionNote(h))
<1>1. log' = Append(kept, e)
  BY DEF RunRetention, RetentionNote
<1>5. traces' = [n \in DOMAIN traces |->
                   IF n \in Traces /\ Old(traces[n].at, days.traces, executed) THEN Null ELSE traces[n]]
  BY DEF RunRetention
<1>2. kept = [n \in DOMAIN log |-> kept[n]]
      /\ \A n \in DOMAIN log :
           kept[n] = IF n \in Entries /\ Old(log[n].at, days.audit, executed) THEN Null ELSE log[n]
  OBVIOUS
<1> HIDE DEF kept, e
<1>3. IsSeq(kept) /\ Len(kept) = Len(log) /\ DOMAIN kept = DOMAIN log
  BY <1>2, MappedSeq DEF LogOK
<1>4. /\ IsSeq(log') /\ DOMAIN log' = DOMAIN log \cup {Len(log) + 1} /\ Len(log) + 1 \notin DOMAIN log
      /\ log'[Len(log) + 1] = e /\ \A n \in DOMAIN log : log'[n] = kept[n]
  <2>1. PICK s : s = kept
    OBVIOUS
  <2>2. PICK entry : entry = e
    OBVIOUS
  <2>3. log' = Append(s, entry) /\ IsSeq(s) /\ Len(s) = Len(log) /\ DOMAIN s = DOMAIN log
    BY <1>1, <1>3, <2>1, <2>2
  <2>4. /\ IsSeq(log') /\ DOMAIN log' = DOMAIN s \cup {Len(s) + 1} /\ Len(s) + 1 \notin DOMAIN s
        /\ log'[Len(s) + 1] = entry /\ \A n \in DOMAIN s : log'[n] = s[n]
    <3> DEFINE t == Append(s, entry)
    <3>1. /\ IsSeq(t) /\ DOMAIN t = DOMAIN s \cup {Len(s) + 1} /\ Len(s) + 1 \notin DOMAIN s
          /\ t[Len(s) + 1] = entry /\ \A n \in DOMAIN s : t[n] = s[n]
      BY <2>3, AppendAny
    <3>2. log' = t
      BY <2>3
    <3> HIDE DEF t
    <3> QED
      BY <3>1, <3>2
  <2> QED
    BY <2>1, <2>2, <2>3, <2>4
<1> QED
  BY <1>2, <1>4, <1>5 DEF e

(* No entry is changed, and none is added but at the end.                  *)
LogKeeps ==
  /\ IsSeq(log') /\ \A n \in DOMAIN log : n \in DOMAIN log' /\ log'[n] \in {log[n], Null}
  /\ \A n \in DOMAIN log' \ DOMAIN log : log'[n].at = now

LogSteps ==
  OtherLog \/ \E h \in Handler : Tells(h) \/ RunRetention(h)

LEMMA LogStepsKeep ==
  ASSUME LogOK, LogSteps, now \in Nat \ {0}, now' = now \/ now' = now + 1
  PROVE  LogKeeps /\ LogOK'
<1>1. ASSUME NEW event, NEW about, NEW note, log' = Append(log, Entry(event, about, note)) PROVE LogKeeps
  <2>1. Entry(event, about, note).at = now
    BY DEF Entry
  <2> QED
    BY <1>1, <2>1, Logged DEF LogKeeps
<1>2. ASSUME OtherLog PROVE LogKeeps
  BY <1>2 DEF OtherLog, Extended, LogKeeps
<1>3. ASSUME NEW h \in Handler, RunRetention(h) PROVE LogKeeps
  <2>1. Entry("retention.executed", Null, RetentionNote(h)).at = now
    BY DEF Entry
  <2> QED
    BY <1>3, <2>1, RetentionLog DEF LogKeeps
<1>4. LogKeeps
  BY <1>1, <1>2, <1>3 DEF LogSteps, Tells
<1>5. ASSUME NEW n \in Entries' PROVE log'[n].at \in 1 .. now'
  <2>1. CASE n \in DOMAIN log
    <3>1. n \in Entries /\ log'[n] = log[n]
      BY <1>4, <1>5, <2>1 DEF Entries, LogKeeps
    <3> QED
      BY <3>1 DEF LogOK
  <2>2. CASE n \notin DOMAIN log
    <3>1. log'[n].at = now
      BY <1>4, <1>5, <2>2 DEF Entries, LogKeeps
    <3> QED
      BY <3>1
  <2> QED
    BY <2>1, <2>2
<1> QED
  BY <1>4, <1>5 DEF LogOK, LogKeeps

ShapeFit == RespOK /\ LogOK /\ WishesFit

LEMMA ShapeSteps ==
  ASSUME HandlersFit, PricesFit, TablesFit, CatalogFit, EvaluationsFit, ShapeFit, [Next]_vars
  PROVE  ShapeFit' /\ LogSteps /\ LogKeeps
<1>1. RespOK /\ LogOK /\ WishesFit /\ now \in Nat \ {0} /\ (now' = now \/ now' = now + 1)
  BY StoreSteps DEF ShapeFit, TablesFit
<1>2. ASSUME RespOK', LogSteps, WishesFit' PROVE ShapeFit' /\ LogSteps /\ LogKeeps
  BY <1>1, <1>2, LogStepsKeep DEF ShapeFit
<1>3. ASSUME wishes' = wishes, \A g \in Handler : pc'[g] \in Working /\ req'[g].op = "progress" =>
                                              pc'[g] = pc[g] /\ req'[g] = req[g]
      PROVE  WishesFit'
  BY <1>1, <1>3 DEF WishesFit, WishesOK, WishSession
<1>4. ASSUME log' = log PROVE LogSteps
  BY <1>1, <1>4, SameLog DEF LogSteps
<1>5. CASE UNCHANGED vars
  <2>1. resp' = resp /\ log' = log /\ wishes' = wishes /\ pc' = pc /\ req' = req
    BY <1>5 DEF vars, handlers, ledger, privacy
  <2> QED
    BY <1>1, <1>2, <1>3, <1>4, <2>1, NoAnswer
<1>6. CASE \E h \in Handler, q \in workload.requests : Arrive(h, q)
  <2>1. PICK h \in Handler, q \in workload.requests : Arrive(h, q)
    BY <1>6
  <2>2. resp' = resp /\ log' = log /\ wishes' = wishes
    BY <2>1 DEF Arrive, Receive, ledger, privacy
  <2>3. \A g \in Handler : pc'[g] \in Working => pc'[g] = pc[g] /\ req'[g] = req[g]
    BY <2>1, ArriveAside DEF Aside
  <2> QED
    BY <1>1, <1>2, <1>3, <1>4, <2>2, <2>3, NoAnswer
<1>7. CASE \E h \in Handler : Abort(h)
  <2>1. PICK h \in Handler : Abort(h)
    BY <1>7
  <2>2. Respond(h, 500, Null) /\ log' = log /\ wishes' = wishes
    BY <2>1 DEF Abort, Die, ledger, privacy
  <2>3. \A g \in Handler : pc'[g] \in Working => pc'[g] = pc[g] /\ req'[g] = req[g]
    BY <2>2 DEF Respond, HandlersFit, Working
  <2>4. RespOK'
    BY <1>1, <2>2, GivesAnswer
  <2> QED
    BY <1>2, <1>3, <1>4, <2>2, <2>3, <2>4
<1>8. CASE Tick
  <2>1. resp' = resp /\ log' = log /\ wishes' = wishes /\ pc' = pc /\ req' = req
    BY <1>8 DEF Tick, TimePasses, handlers, privacy
  <2> QED
    BY <1>1, <1>2, <1>3, <1>4, <2>1, NoAnswer
<1>9. ASSUME NEW h \in Handler, Moves(h), workload' = workload, req[h].op # "progress", wishes' = wishes
      PROVE  WishesFit'
  <2>1. \A g \in Handler : pc'[g] \in Working /\ req'[g].op = "progress" => pc'[g] = pc[g] /\ req'[g] = req[g]
    BY <1>9, MovesOne
  <2> QED
    BY <1>3, <1>9, <2>1
<1>10. CASE \E h \in Handler : PricingServe(h) /\ UNCHANGED <<evaluations, privacy, keys, catalog, workload>>
  <2>1. PICK h \in Handler : PricingServe(h) /\ UNCHANGED <<evaluations, privacy, keys, catalog, workload>>
    BY <1>10
  <2>2. RespOK' /\ LogSteps
    BY <1>1, <2>1, PricingAnswers DEF LogSteps
  <2>3. Moves(h) /\ req[h].op # "progress" /\ wishes' = wishes
    BY <2>1, PricingMoves DEF PricingOps, privacy
  <2> QED
    BY <1>2, <1>9, <2>1, <2>2, <2>3
<1>11. CASE \E h \in Handler : EvaluationsServe(h) /\ UNCHANGED <<privacy, keys, catalog, workload>>
  <2>1. PICK h \in Handler : EvaluationsServe(h) /\ UNCHANGED <<privacy, keys, catalog, workload>>
    BY <1>11
  <2>2. RespOK' /\ LogSteps
    BY <1>1, <2>1, EvaluationAnswers DEF LogSteps
  <2>3. Moves(h) /\ req[h].op # "progress" /\ wishes' = wishes
    BY <2>1, EvaluationsMoves DEF EvaluationOps, privacy
  <2> QED
    BY <1>2, <1>9, <2>1, <2>2, <2>3
<1>12. CASE \E h \in Handler : PrivacyServe(h) /\ UNCHANGED <<pricing, evaluations, keys, catalog, workload>>
  <2>1. PICK h \in Handler : PrivacyServe(h) /\ UNCHANGED <<pricing, evaluations, keys, catalog, workload>>
    BY <1>12
  <2>2. /\ RespOK' /\ WishesOK' /\ WishSession(h)' /\ DOMAIN wishes \subseteq DOMAIN wishes' /\ LogSteps
    BY <1>1, <2>1, PrivacyAnswers DEF LogSteps
  <2>3. \A g \in Handler : g # h => WishSession(g)'
    BY <1>1, <2>1, <2>2, PrivacyMoves, MovesOne DEF WishesFit, WishSession
  <2>4. WishesFit'
    BY <2>2, <2>3 DEF WishesFit
  <2> QED
    BY <1>2, <2>2, <2>4
<1>13. CASE \E h \in Handler : KeysServe(h) /\ UNCHANGED <<pricing, evaluations, catalog, workload>>
  <2>1. PICK h \in Handler : KeysServe(h) /\ UNCHANGED <<pricing, evaluations, catalog, workload>>
    BY <1>13
  <2>2. RespOK' /\ LogSteps
    BY <1>1, <2>1, KeyAnswers DEF LogSteps
  <2>3. Moves(h) /\ req[h].op # "progress"
    BY <2>1, KeysMoves DEF KeyOps
  <2>4. wishes' = wishes
    BY <2>1 DEF KeysServe, NewKeyLoad, CreateKey, KeyLoad, Revoke, Delete, Resolve, TouchKey, Admit,
       StoreTrace, privacy
  <2> QED
    BY <1>2, <1>9, <2>1, <2>2, <2>3, <2>4
<1>14. CASE \E h \in Handler : ProjectsServe(h) /\ UNCHANGED <<pricing, evaluations, privacy, keys, workload>>
  <2>1. PICK h \in Handler : ProjectsServe(h) /\ UNCHANGED <<pricing, evaluations, privacy, keys, workload>>
    BY <1>14
  <2>2. RespOK' /\ LogSteps
    BY <1>1, <2>1, ProjectAnswers DEF LogSteps
  <2>3. Moves(h) /\ req[h].op # "progress" /\ wishes' = wishes
    BY <2>1, ProjectsMoves DEF ProjectOps, privacy
  <2> QED
    BY <1>2, <1>9, <2>1, <2>2, <2>3
<1>15. CASE \E h \in Handler : DeletionsServe(h) /\ UNCHANGED workload
  <2>1. PICK h \in Handler : DeletionsServe(h) /\ UNCHANGED workload
    BY <1>15
  <2>2. RespOK' /\ LogSteps
    BY <1>1, <2>1, DeletionAnswers DEF LogSteps
  <2>3. Moves(h) /\ req[h].op # "progress"
    BY <2>1, DeletionsMoves
  <2>4. wishes' = wishes
    BY <2>1 DEF DeletionsServe, DropLoad, Drop, privacy
  <2> QED
    BY <1>2, <1>9, <2>1, <2>2, <2>3, <2>4
<1> QED
  BY <1>5, <1>6, <1>7, <1>8, <1>10, <1>11, <1>12, <1>13, <1>14, <1>15 DEF Next

LEMMA AlwaysShapeFit == Spec => []ShapeFit
<1>1. Init => ShapeFit
  <2> SUFFICES ASSUME Init PROVE ShapeFit
    OBVIOUS
  <2>1. log = << >> /\ wishes = << >> /\ resp = [h \in Handler |-> Null] /\ pc = [h \in Handler |-> "idle"]
    BY DEF Init, HandlersInit
  <2>2. RespOK
    BY <2>1 DEF RespOK
  <2>3. LogOK /\ WishesOK
    BY <2>1, EmptyAny DEF LogOK, WishesOK, Entries
  <2> QED
    BY <2>1, <2>2, <2>3 DEF ShapeFit, WishesFit, WishSession, Working
<1>2. HandlersFit /\ PricesFit /\ TablesFit /\ CatalogFit /\ EvaluationsFit /\ ShapeFit /\ [Next]_vars => ShapeFit'
  BY ShapeSteps
<1> QED
  BY <1>1, <1>2, AlwaysHandlersFit, AlwaysPricesFit, AlwaysTablesFit, AlwaysCatalogFit, AlwaysEvaluationsFit,
     PTL DEF Spec

LEMMA ShapesAreTyped ==
  ASSUME PricesFit, ShapeFit
  PROVE  GovernanceTypeOK
<1>1. \A w \in ToSet(wishes) : w.type \in WishType /\ w.status \in WishStatus
  BY DEF ShapeFit, WishesFit, WishesOK, WishRow, ToSet
<1> QED
  BY <1>1 DEF GovernanceTypeOK, PricesFit, ShapeFit, RespOK, LogOK

(* GovernanceTypeOK: answers, prices, wishes and entries keep their shape  *)
(* whatever requests come.                                                 *)
THEOREM GovernanceIsTyped == Spec => []GovernanceTypeOK
BY ShapesAreTyped, AlwaysPricesFit, AlwaysShapeFit, PTL

(* TracesStayInScope: of creation, ingestion and the deletions that        *)
(* overlap with them, nothing refers to a row that is gone or to one of    *)
(* another organisation, an agent or an environment of a trace is of the   *)
(* project of the trace, and a key writes to no project but its own.       *)
THEOREM ReferencesStayInScope == Spec => []TracesStayInScope
<1>1. PricesFit /\ TablesFit /\ CatalogFit /\ EvaluationsFit /\ ScopesFit /\ ShapeFit => TracesStayInScope
  <2> SUFFICES ASSUME PricesFit, TablesFit, CatalogFit, EvaluationsFit, ScopesFit, ShapeFit PROVE TracesStayInScope
    OBVIOUS
  <2>1. GovernanceTypeOK
    BY ShapesAreTyped
  <2>2. CatalogOK
    BY DEF CatalogFit
  <2>3. \A d \in ToSet(datasets) : d # Null /\ d.project # Null => Visible("project", d.project)
    BY DEF EvaluationsFit, EvaluationsOK, Ours, ToSet
  <2>4. \A run \in ToSet(runs) : run.agent # Null => Visible("agent", run.agent)
    BY DEF EvaluationsFit, EvaluationsOK, Ours, ToSet
  <2>5. \A id \in DOMAIN keys :
          keys[id] # Null /\ keys[id].project # Null => Visible("project", keys[id].project)
    BY DEF ScopesFit, KeyScoped, Ours
  <2>6. ASSUME NEW n \in Traces \ DOMAIN StoredTraces
        PROVE  LET t == traces[n] IN
               /\ Visible("project", t.project)
               /\ \A kind \in {"agent", "environment"} : t[kind] # Null => t[kind] \in MembersOf(kind, t.project)
               /\ t.key \in DOMAIN StoredKeys =>
                    LET home == StoredKeys[t.key].project IN
                    home # Null /\ Row("project", home) # Null => t.project = home
    <3>1. PICK t : t = traces[n]
      OBVIOUS
    <3>2. TraceScoped(t)
      BY <3>1 DEF ScopesFit
    <3>3. Visible("project", t.project)
      BY <3>2 DEF TraceScoped, Ours
    <3>4. \A kind \in {"agent", "environment"} : t[kind] # Null => t[kind] \in MembersOf(kind, t.project)
      BY <3>2 DEF TraceScoped, MembersOf
    <3>5. t.key \in DOMAIN StoredKeys =>
            LET home == StoredKeys[t.key].project IN
            home # Null /\ Row("project", home) # Null => t.project = home
      BY <2>2, <3>2, RowFacts DEF TraceScoped, HomeFits, CatalogOK, Kind
    <3> QED
      BY <3>1, <3>3, <3>4, <3>5
  <2> QED
    BY <2>1, <2>2, <2>3, <2>4, <2>5, <2>6 DEF TracesStayInScope, CatalogOK
<1> QED
  BY <1>1, AlwaysPricesFit, AlwaysTablesFit, AlwaysCatalogFit, AlwaysEvaluationsFit, AlwaysScopesFit,
     AlwaysShapeFit, PTL


-----------------------------------------------------------------------------
(* The history of agents *)

Column(op) == IF op = "bump" THEN "version" ELSE "status"

(* Of an agent, entry by entry, what the property asks for.                *)
Chained(id, op) ==
  LET told == EntriesOf(op, <<"agent", id>>) IN
  /\ \A m, n \in told :
       m < n /\ (\A k \in told : k <= m \/ k >= n) => log[n].note.before = log[m].note.after
  /\ Row("agent", id) # Null =>
       \A n \in told :
         (\A k \in told : k <= n) => log[n].note.after[Column(op)] = Row("agent", id)[Column(op)]

Ordered == \A m, n \in Entries : m < n => log[m].at <= log[n].at

(* An entry tells one column, of an agent there is or was.                 *)
ToldFits ==
  \A n \in Entries, op \in {"bump", "status"} : \A id :
    log[n].event = op /\ log[n].about = <<"agent", id>> =>
      /\ id \in DOMAIN catalog["agent"]
      /\ log[n].note.after = [f \in {Column(op)} |-> log[n].note.after[f]]

(* The row a request loaded, alone in progress, is as it was.              *)
RowsFresh ==
  \A h \in Handler :
    pc[h] \in Working /\ req[h].op \in {"edit", "bump", "status"} =>
      work[h].row = Row(req[h].kind, req[h].id) /\ work[h].row # Null

HistoryFits ==
  /\ Ordered /\ ToldFits
  /\ Quiet => /\ RowsFresh
              /\ \A id \in DOMAIN catalog["agent"], op \in {"bump", "status"} : Chained(id, op)

LEMMA NextOrdered ==
  ASSUME LogOK, LogKeeps, Ordered, now \in Nat \ {0}
  PROVE  Ordered'
<1> SUFFICES ASSUME NEW m \in Entries', NEW n \in Entries', m < n PROVE log'[m].at <= log'[n].at
  BY DEF Ordered
<1>1. DOMAIN log = 1 .. Len(log) /\ Len(log) \in Nat /\ DOMAIN log' \subseteq Nat /\ DOMAIN log' = 1 .. Len(log')
  BY SeqFacts DEF LogOK, LogKeeps
<1>2. m \in DOMAIN log' /\ n \in DOMAIN log' /\ log'[m] # Null /\ log'[n] # Null
  BY DEF Entries
<1>3. CASE n \in DOMAIN log
  <2>1. m \in DOMAIN log
    BY <1>1, <1>2, <1>3
  <2>2. m \in Entries /\ n \in Entries /\ log'[m] = log[m] /\ log'[n] = log[n]
    BY <1>2, <1>3, <2>1 DEF LogKeeps, Entries
  <2> QED
    BY <2>2 DEF Ordered
<1>4. CASE n \notin DOMAIN log
  <2>1. log'[n].at = now
    BY <1>2, <1>4 DEF LogKeeps
  <2>2. CASE m \notin DOMAIN log
    <3>1. log'[m].at = now
      BY <1>2, <2>2 DEF LogKeeps
    <3> QED
      BY <2>1, <3>1
  <2>3. CASE m \in DOMAIN log
    <3>1. m \in Entries /\ log'[m] = log[m]
      BY <1>2, <2>3 DEF LogKeeps, Entries
    <3>2. log[m].at \in 1 .. now
      BY <3>1 DEF LogOK
    <3> QED
      BY <2>1, <3>1, <3>2
  <2> QED
    BY <2>2, <2>3
<1> QED
  BY <1>3, <1>4

(* The entries that stay are the last ones.                                *)
ToldStays(id, op) ==
  LET told  == EntriesOf(op, <<"agent", id>>)
      told1 == EntriesOf(op, <<"agent", id>>)'
  IN
  /\ \A n \in told1 : n \in told /\ log'[n] = log[n]
  /\ \A m \in told1, k \in told : m < k => k \in told1

LEMMA ChainStays ==
  ASSUME LogOK, NEW id, NEW op, Chained(id, op), ToldStays(id, op),
         \/ Row("agent", id)' = Null
         \/ Row("agent", id) # Null /\ Row("agent", id)'[Column(op)] = Row("agent", id)[Column(op)]
  PROVE  Chained(id, op)'
<1> DEFINE told == EntriesOf(op, <<"agent", id>>)
           told1 == EntriesOf(op, <<"agent", id>>)'
<1>1. told \subseteq Nat
  BY SeqFacts DEF LogOK, EntriesOf, Entries
<1>2. /\ \A n \in told1 : n \in told /\ log'[n] = log[n]
      /\ \A m \in told1, k \in told : m < k => k \in told1
  BY DEF ToldStays
<1>3. /\ \A m, n \in told :
           m < n /\ (\A k \in told : k <= m \/ k >= n) => log[n].note.before = log[m].note.after
      /\ Row("agent", id) # Null =>
           \A n \in told :
             (\A k \in told : k <= n) => log[n].note.after[Column(op)] = Row("agent", id)[Column(op)]
  BY DEF Chained
<1> HIDE DEF told, told1
<1>4. ASSUME NEW m \in told1, NEW n \in told1, m < n, \A k \in told1 : k <= m \/ k >= n
      PROVE  log'[n].note.before = log'[m].note.after
  <2>1. m \in told /\ n \in told /\ log'[m] = log[m] /\ log'[n] = log[n]
    BY <1>2
  <2>2. ASSUME NEW k \in told PROVE k <= m \/ k >= n
    <3>1. k \in Nat /\ m \in Nat
      BY <1>1, <2>1
    <3>2. m < k => k \in told1
      BY <1>2
    <3> QED
      BY <1>4, <3>1, <3>2
  <2> QED
    BY <1>3, <1>4, <2>1, <2>2
<1>5. ASSUME Row("agent", id)' # Null, NEW n \in told1, \A k \in told1 : k <= n
      PROVE  log'[n].note.after[Column(op)] = Row("agent", id)'[Column(op)]
  <2>1. n \in told /\ log'[n] = log[n]
    BY <1>2
  <2>2. \A k \in told : k <= n
    BY <1>1, <1>2, <1>5, <2>1
  <2> QED
    BY <1>3, <1>5, <2>1, <2>2
<1> QED
  BY <1>4, <1>5 DEF Chained, told1

(* Nothing but bump and status adds to what is told, and retention takes   *)
(* away what is oldest.                                                    *)
LEMMA OthersTellNothing ==
  ASSUME TablesFit, LogOK, Ordered, HandlersFit, LogSteps, \A h \in Handler : ~ Tells(h),
         NEW id, NEW op \in {"bump", "status"}
  PROVE  ToldStays(id, op)
<1> DEFINE told == EntriesOf(op, <<"agent", id>>)
           told1 == EntriesOf(op, <<"agent", id>>)'
<1>1. told1 = {n \in DOMAIN log' : log'[n] # Null /\ log'[n].event = op /\ log'[n].about = <<"agent", id>>}
      /\ told = {n \in DOMAIN log : log[n] # Null /\ log[n].event = op /\ log[n].about = <<"agent", id>>}
  BY DEF EntriesOf, Entries
<1> HIDE DEF told, told1
<1>2. ASSUME \A n \in DOMAIN log : n \in DOMAIN log' /\ log'[n] = log[n],
             \A n \in DOMAIN log' \ DOMAIN log : log'[n].event \notin ReadEvents
      PROVE  ToldStays(id, op)
  <2>1. \A n \in told1 : n \in told /\ log'[n] = log[n]
    BY <1>1, <1>2 DEF ReadEvents
  <2>2. told \subseteq told1
    BY <1>1, <1>2
  <2> QED
    BY <2>1, <2>2 DEF ToldStays, told, told1
<1>3. CASE OtherLog
  BY <1>2, <1>3 DEF OtherLog, Extended
<1>4. ASSUME NEW h \in Handler, RunRetention(h) PROVE ToldStays(id, op)
  <2> DEFINE days == work[h].days.audit
             executed == work[h].executed
  <2>1. /\ DOMAIN log' = DOMAIN log \cup {Len(log) + 1}
        /\ log'[Len(log) + 1] = Entry("retention.executed", Null, RetentionNote(h))
        /\ \A n \in DOMAIN log :
             log'[n] = IF n \in Entries /\ Old(log[n].at, days, executed) THEN Null ELSE log[n]
    BY <1>4, RetentionLog
  <2>2. Entry("retention.executed", Null, RetentionNote(h)).event = "retention.executed"
    BY DEF Entry
  <2>3. days \in Int \cup {Null} /\ executed \in Nat
    <3>1. pc[h] = "commit" /\ req[h].op = "retention"
      BY <1>4 DEF RunRetention
    <3> QED
      BY <3>1 DEF TablesFit, PrivacySession, Working, RetentionPolicy, Days
  <2> HIDE DEF days, executed
  <2>4. \A n \in told1 : n \in told /\ log'[n] = log[n]
    BY <1>1, <2>1, <2>2
  <2>5. ASSUME NEW m \in told1, NEW k \in told, m < k PROVE k \in told1
    <3>1. m \in Entries /\ k \in Entries /\ k \in DOMAIN log /\ log'[m] = log[m] /\ log[m] # Null
      BY <1>1, <2>4, <2>5 DEF Entries
    <3>2. log[m].at <= log[k].at /\ log[m].at \in 1 .. now /\ log[k].at \in 1 .. now /\ now \in Nat
      BY <2>5, <3>1 DEF Ordered, LogOK, TablesFit
    <3>3. ~ Old(log[m].at, days, executed)
      BY <2>1, <3>1 DEF Entries
    <3>4. ~ Old(log[k].at, days, executed)
      BY <2>3, <3>2, <3>3 DEF Old, Limited
    <3>5. log'[k] = log[k] /\ k \in DOMAIN log'
      BY <2>1, <3>1, <3>4
    <3> QED
      BY <1>1, <3>5
  <2> QED
    BY <2>4, <2>5 DEF ToldStays, told, told1
<1> QED
  BY <1>3, <1>4 DEF LogSteps

(* What a request assigns, by the column.                                  *)
LEMMA AssignedColumns ==
  ASSUME NEW q, NEW row \in CatalogRow
  PROVE  /\ q.op = "edit" => Assigned(q, row) = q.fields
         /\ q.op \in {"bump", "status"} =>
              /\ DOMAIN Assigned(q, row) = {Column(q.op)}
              /\ Assigned(q, row) = [f \in {Column(q.op)} |-> Assigned(q, row)[f]]
<1>1. CASE q.op = "bump"
  <2>1. PICK v : v = IF q.version = Null THEN Bump(row.version) ELSE q.version
    OBVIOUS
  <2>2. Assigned(q, row) = [version |-> v]
    BY <1>1, <2>1 DEF Assigned
  <2>3. DOMAIN [version |-> v] = {"version"} /\ [version |-> v] = [f \in {"version"} |-> [version |-> v][f]]
    OBVIOUS
  <2> QED
    BY <1>1, <2>2, <2>3 DEF Column
<1>2. CASE q.op = "status"
  <2>1. Assigned(q, row) = [status |-> q.status]
    BY <1>2 DEF Assigned
  <2>2. PICK v : v = q.status
    OBVIOUS
  <2>3. DOMAIN [status |-> v] = {"status"} /\ [status |-> v] = [f \in {"status"} |-> [status |-> v][f]]
    OBVIOUS
  <2> QED
    BY <1>2, <2>1, <2>2, <2>3 DEF Column
<1>3. CASE q.op = "edit"
  BY <1>3 DEF Assigned
<1> QED
  BY <1>1, <1>2, <1>3

LEMMA CatalogColumns ==
  ASSUME NEW row \in CatalogRow
  PROVE  DOMAIN row = {"parent", "slug", "title", "version", "status"}
BY DEF CatalogRow

LEMMA ColumnsStay ==
  ASSUME HandlersFit, CatalogFit, [Next]_vars, \A h \in Handler : ~ Tells(h),
         NEW id \in DOMAIN catalog["agent"], NEW op \in {"bump", "status"}
  PROVE  \/ Row("agent", id)' = Null
         \/ Row("agent", id) # Null /\ Row("agent", id)'[Column(op)] = Row("agent", id)[Column(op)]
<1>1. CatalogFit' /\ CatalogKept /\ CatalogOK
  BY CatalogChanges DEF CatalogFit
<1>2. id \in DOMAIN catalog'["agent"] /\ "agent" \in Kind
  BY <1>1 DEF CatalogKept, Kind
<1>3. Row("agent", id) = catalog["agent"][id] /\ Row("agent", id)' = catalog'["agent"][id]
  BY <1>2 DEF Row
<1>4. ASSUME catalog'["agent"][id] \in {catalog["agent"][id], Null}
      PROVE  \/ Row("agent", id)' = Null
             \/ Row("agent", id) # Null /\ Row("agent", id)'[Column(op)] = Row("agent", id)[Column(op)]
  BY <1>3, <1>4
<1>5. ASSUME NEW h \in Handler, ProjectsServe(h), catalog' # catalog
      PROVE  \/ Row("agent", id)' = Null
             \/ Row("agent", id) # Null /\ Row("agent", id)'[Column(op)] = Row("agent", id)[Column(op)]
  <2> DEFINE q == req[h]
  <2>1. CASE CreateCommit(h)
    <3>1. PICK row : row = NewRow(q)
      OBVIOUS
    <3>2. /\ q.kind \in Kind /\ row \in CatalogRow /\ ParentExists(q.kind, row.parent)
          /\ catalog' = [catalog EXCEPT ![q.kind] = Append(catalog[q.kind], row)]
      BY <1>5, <2>1, <3>1, CreateAppends
    <3>3. \A k \in Kind : \A n \in DOMAIN catalog[k] : n \in DOMAIN catalog'[k] /\ catalog'[k][n] = catalog[k][n]
      BY <1>1, <3>2, AppendedRow
    <3> QED
      BY <1>2, <1>4, <3>3
  <2>2. CASE ChangeCommit(h)
    <3> DEFINE fields == Changed(Assigned(q, work[h].row), work[h].row)
               row == Set(Row(q.kind, q.id), fields)
    <3>1. /\ q.kind \in Kind /\ Row(q.kind, q.id) # Null /\ row \in CatalogRow
          /\ row.parent = Row(q.kind, q.id).parent
          /\ catalog' = [catalog EXCEPT ![q.kind][q.id] = row]
      BY <1>5, <2>2, ChangeSets
    <3>2. /\ log' = Append(log, Entry(q.op, <<q.kind, q.id>>, Told(q, work[h].row)))
          /\ q.op \in {"edit", "bump", "status"} /\ pc[h] = "commit"
      BY <1>5, <2>2 DEF ChangeCommit
    <3>3. q.op = "edit"
      BY <2>2, <3>2 DEF Tells
    <3>4. \A f \in DOMAIN fields : f \in {"slug", "title"}
      <4>1. q \in Requests /\ work[h].row \in CatalogRow
        BY <3>2 DEF HandlersFit, CatalogFit, ProjectSession, Working
      <4>2. \A f \in DOMAIN q.fields : f \in {"slug", "title"}
        BY <3>3, <4>1, ProjectsAssumption
      <4>3. Assigned(q, work[h].row) = q.fields
        BY <3>3, <4>1, AssignedColumns
      <4> QED
        BY <4>2, <4>3 DEF Changed
    <3> HIDE DEF fields
    <3>5. Row(q.kind, q.id) \in CatalogRow
      BY <1>1, <3>1, RowFacts DEF CatalogOK
    <3>6. row[Column(op)] = Row(q.kind, q.id)[Column(op)]
      <4>1. Column(op) \in {"version", "status"}
        BY DEF Column
      <4>2. Column(op) \in DOMAIN Row(q.kind, q.id) /\ Column(op) \notin DOMAIN fields
        BY <3>4, <3>5, <4>1, CatalogColumns
      <4> QED
        BY <4>2 DEF Set
    <3> HIDE DEF row
    <3>7. PICK kind, x, new : kind = q.kind /\ x = q.id /\ new = row
      OBVIOUS
    <3>8. /\ x \in DOMAIN catalog[kind] /\ catalog'[kind][x] = new
          /\ \A k \in Kind : \A n \in DOMAIN catalog[k] :
               <<k, n>> # <<kind, x>> => catalog'[k][n] = catalog[k][n]
      <4>1. /\ kind \in Kind /\ Row(kind, x) # Null /\ new \in CatalogRow /\ new.parent = Row(kind, x).parent
            /\ catalog' = [catalog EXCEPT ![kind][x] = new]
        BY <3>1, <3>7
      <4>2. Edited(kind, x, new)
        BY <1>1, <4>1, EditedRow
      <4> QED
        BY <4>2 DEF Edited
    <3>9. CASE <<"agent", id>> = <<kind, x>>
      <4>1. kind = "agent" /\ x = id
        BY <3>9
      <4> QED
        BY <1>3, <3>1, <3>6, <3>7, <3>8, <4>1
    <3>10. CASE <<"agent", id>> # <<kind, x>>
      BY <1>2, <1>4, <3>8, <3>10
    <3> QED
      BY <3>9, <3>10
  <2>3. CASE CreateLoad(h) \/ ChangeLoad(h)
    BY <1>5, <2>3 DEF CreateLoad, ChangeLoad
  <2> QED
    BY <1>5, <2>1, <2>2, <2>3 DEF ProjectsServe
<1>6. ASSUME NEW h \in Handler, DeletionsServe(h), workload' = workload, catalog' # catalog
      PROVE  \/ Row("agent", id)' = Null
             \/ Row("agent", id) # Null /\ Row("agent", id)'[Column(op)] = Row("agent", id)[Column(op)]
  <2>1. Drops(h) /\ req[h].kind \in Kind
    BY <1>6, DeletionTables, DeletionsMoves, KindOf DEF HandlersFit, Moves, Busy
  <2>2. catalog' = CatalogWithout(req[h].kind, req[h].id)
    BY <2>1 DEF Drops
  <2>3. \A k \in Kind : \A n \in DOMAIN catalog[k] :
          catalog'[k][n] = IF n \in Goes(req[h].kind, req[h].id, k) THEN Null ELSE catalog[k][n]
    BY <1>1, <2>1, <2>2, DroppedRows
  <2> QED
    BY <1>2, <1>4, <2>3
<1>7. CASE catalog' = catalog
  BY <1>4, <1>7
<1> QED
  BY <1>5, <1>6, <1>7, CatalogSteps

(* A commit that tells of a row writes what it tells.                      *)
LEMMA TellsWrites ==
  ASSUME HandlersFit, CatalogFit, RowsFresh, NEW h \in Handler, Tells(h)
  PROVE  LET q   == req[h]
             row == Row(q.kind, q.id)
         IN
         /\ q \in Requests /\ q.op \in {"bump", "status"} /\ q.kind \in Kind /\ q.id \in DOMAIN catalog[q.kind]
         /\ row \in CatalogRow
         /\ log' = Append(log, Entry(q.op, <<q.kind, q.id>>, Told(q, row)))
         /\ catalog'[q.kind][q.id] = Set(row, Assigned(q, row))
         /\ \A k \in Kind : DOMAIN catalog'[k] = DOMAIN catalog[k]
         /\ \A k \in Kind : \A n \in DOMAIN catalog[k] :
              <<k, n>> # <<q.kind, q.id>> => catalog'[k][n] = catalog[k][n]
<1> DEFINE q == req[h]
           row == Row(q.kind, q.id)
           fields == Changed(Assigned(q, row), row)
           new == Set(row, Assigned(q, row))
<1>1. pc[h] = "commit" /\ q.op \in {"bump", "status"} /\ ChangeCommit(h)
  BY DEF Tells, ChangeCommit
<1>2. q \in Requests /\ work[h].row = row /\ row # Null
  BY <1>1 DEF HandlersFit, RowsFresh, Working
<1>3. q.kind \in Kind
  BY <1>1, <1>2, KindOf
<1>4. row \in CatalogRow /\ q.id \in DOMAIN catalog[q.kind] /\ CatalogOK /\ row = catalog[q.kind][q.id]
  BY <1>2, <1>3, RowFacts DEF CatalogFit, CatalogOK
<1>5. "slug" \notin DOMAIN fields
  <2>1. DOMAIN Assigned(q, row) = {Column(q.op)}
    BY <1>1, <1>4, AssignedColumns
  <2> QED
    BY <2>1 DEF Changed, Column
<1>6. log' = Append(log, Entry(q.op, <<q.kind, q.id>>, Told(q, row)))
  BY <1>2 DEF Tells
<1>7. catalog' = [catalog EXCEPT ![q.kind][q.id] = Set(@, fields)]
  BY <1>1, <1>2, <1>5 DEF ChangeCommit
<1>8. Set(row, fields) = new
  BY SetChanged
<1>9. new \in CatalogRow /\ new.parent = row.parent
  <2>1. Assignable(Assigned(q, row))
    BY <1>1, <1>2, <1>4, AssignedFits
  <2> QED
    BY <1>4, <2>1, SetCatalogRow
<1>10. catalog' = [catalog EXCEPT ![q.kind][q.id] = new]
  BY <1>4, <1>7, <1>8
<1> HIDE DEF new
<1>11. /\ catalog'[q.kind][q.id] = new
       /\ \A k \in Kind : DOMAIN catalog'[k] = DOMAIN catalog[k]
       /\ \A k \in Kind : \A n \in DOMAIN catalog[k] :
            <<k, n>> # <<q.kind, q.id>> => catalog'[k][n] = catalog[k][n]
  <2>1. PICK kind, x, value : kind = q.kind /\ x = q.id /\ value = new
    OBVIOUS
  <2>2. /\ CatalogOK /\ kind \in Kind /\ Row(kind, x) # Null /\ value \in CatalogRow
        /\ value.parent = Row(kind, x).parent /\ catalog' = [catalog EXCEPT ![kind][x] = value]
    BY <1>2, <1>3, <1>4, <1>9, <1>10, <2>1
  <2>3. /\ catalog'[kind][x] = value
        /\ \A k \in Kind : DOMAIN catalog'[k] = DOMAIN catalog[k]
        /\ \A k \in Kind : \A n \in DOMAIN catalog[k] :
             <<k, n>> # <<kind, x>> => catalog'[k][n] = catalog[k][n]
    <3>1. Edited(kind, x, value)
      BY <2>2, EditedRow
    <3> QED
      BY <3>1 DEF Edited
  <2> QED
    BY <2>1, <2>3
<1> QED
  BY <1>1, <1>2, <1>3, <1>4, <1>6, <1>11 DEF new

(* The entry it adds comes after all there are.                            *)
LEMMA TellsChain ==
  ASSUME HandlersFit, CatalogFit, RowsFresh, LogOK, ToldFits, now \in Nat \ {0}, NEW h \in Handler, Tells(h),
         NEW id, NEW op, req[h].kind = "agent", req[h].id = id, req[h].op = op, Chained(id, op)
  PROVE  Chained(id, op)'
<1> DEFINE q == req[h]
           row == Row("agent", id)
           e == Entry(op, <<"agent", id>>, Told(q, row))
           N == Len(log) + 1
           told == EntriesOf(op, <<"agent", id>>)
           told1 == EntriesOf(op, <<"agent", id>>)'
<1>1. /\ q \in Requests /\ op \in {"bump", "status"} /\ id \in DOMAIN catalog["agent"] /\ row \in CatalogRow
      /\ log' = Append(log, e) /\ catalog'["agent"][id] = Set(row, Assigned(q, row))
      /\ DOMAIN catalog'["agent"] = DOMAIN catalog["agent"]
  BY TellsWrites DEF Kind
<1>2. PICK fields : fields = Assigned(q, row)
  OBVIOUS
<1>3. DOMAIN fields = {Column(op)} /\ fields = [f \in {Column(op)} |-> fields[f]] /\ Assignable(fields)
  <2>1. DOMAIN Assigned(q, row) = {Column(op)}
    BY <1>1, AssignedColumns
  <2>2. Assigned(q, row) = [f \in {Column(op)} |-> Assigned(q, row)[f]]
    BY <1>1, AssignedColumns
  <2>3. Assignable(Assigned(q, row))
    BY <1>1, AssignedFits
  <2> QED
    BY <1>2, <2>1, <2>2, <2>3
<1>4. e.event = op /\ e.about = <<"agent", id>> /\ e.note.after = fields
      /\ e.note.before = [f \in {Column(op)} |-> row[f]]
  <2>1. Told(q, row) = [before |-> Picked(row, fields), after |-> fields]
    BY <1>1, <1>2 DEF Told
  <2>2. Picked(row, fields) = [f \in {Column(op)} |-> row[f]]
    BY <1>3 DEF Picked
  <2>3. e.event = op /\ e.about = <<"agent", id>> /\ e.note = Told(q, row)
    BY DEF Entry
  <2> QED
    BY <2>1, <2>2, <2>3
<1>5. e # Null
  <2>1. row[Column(op)] \in (IF op = "bump" THEN Version ELSE AgentStatus)
    BY <1>1 DEF CatalogRow, Column
  <2>2. fields[Column(op)] \in (IF op = "bump" THEN Version ELSE AgentStatus)
    BY <1>1, <1>3 DEF Assignable, Column
  <2> DEFINE Values == [{"version"} -> Version] \cup [{"status"} -> AgentStatus]
  <2>3. e.note.before \in Values
    <3>1. PICK v : v = row[Column(op)]
      OBVIOUS
    <3>2. e.note.before = [f \in {Column(op)} |-> v]
      BY <1>4, <3>1
    <3>3. v \in (IF op = "bump" THEN Version ELSE AgentStatus)
      BY <2>1, <3>1
    <3> HIDE DEF e, row
    <3> QED
      BY <3>2, <3>3 DEF Column
  <2>4. fields \in Values
    BY <1>1, <1>3, <2>2 DEF Column
  <2>5. id \in Nat
    BY <1>1 DEF CatalogFit, CatalogOK, Kind
  <2> HIDE DEF Values
  <2>6. Told(q, row) = [before |-> e.note.before, after |-> fields]
    BY <1>1, <1>2, <1>4 DEF Told, Entry
  <2>7. Told(q, row) \in [before : Values, after : Values]
    BY <2>3, <2>4, <2>6
  <2>8. PICK note : note = Told(q, row)
    OBVIOUS
  <2>9. e = [event |-> op, about |-> <<"agent", id>>, note |-> note, at |-> now]
    BY <2>8 DEF Entry
  <2>10. e \in [event : {"bump", "status"}, about : Kind \X Nat, note : [before : Values, after : Values], at : Nat]
    BY <1>1, <2>5, <2>7, <2>8, <2>9 DEF Kind
  <2> QED
    BY <2>10, ProjectsAssumption DEF ToldEntry, Values
<1>6. PICK entry : entry = e
  OBVIOUS
<1>7. /\ DOMAIN log' = DOMAIN log \cup {N} /\ N \notin DOMAIN log /\ log'[N] = entry
      /\ \A n \in DOMAIN log : log'[n] = log[n]
  BY <1>1, <1>6, Logged
<1>8. DOMAIN log = 1 .. Len(log) /\ Len(log) \in Nat
  BY SeqFacts DEF LogOK
<1>9. told1 = {n \in DOMAIN log' : log'[n] # Null /\ log'[n].event = op /\ log'[n].about = <<"agent", id>>}
      /\ told = {n \in DOMAIN log : log[n] # Null /\ log[n].event = op /\ log[n].about = <<"agent", id>>}
  BY DEF EntriesOf, Entries
<1>10. told1 = told \cup {N}
  <2>1. entry # Null /\ entry.event = op /\ entry.about = <<"agent", id>>
    BY <1>4, <1>5, <1>6
  <2> HIDE DEF told, told1, N
  <2> QED
    BY <1>7, <1>9, <2>1
<1>11. told \subseteq DOMAIN log
  BY <1>9
<1>12. /\ \A m, n \in told :
           m < n /\ (\A k \in told : k <= m \/ k >= n) => log[n].note.before = log[m].note.after
       /\ \A n \in told : (\A k \in told : k <= n) => log[n].note.after[Column(op)] = row[Column(op)]
  <2>1. row # Null
    BY <1>1, ProjectsAssumption
  <2> QED
    BY <2>1 DEF Chained
<1>13. ASSUME NEW n \in told PROVE log[n].note.after = [f \in {Column(op)} |-> log[n].note.after[f]]
  <2>1. n \in Entries /\ log[n].event = op /\ log[n].about = <<"agent", id>>
    BY <1>13 DEF EntriesOf
  <2>2. op \in {"bump", "status"}
    BY <1>1
  <2> QED
    BY <2>1, <2>2 DEF ToldFits
<1>14. Row("agent", id)' = Set(row, fields)
  BY <1>1, <1>2 DEF Row
<1>15. Row("agent", id)'[Column(op)] = fields[Column(op)]
  <2>1. Column(op) \in DOMAIN row
    BY <1>1, CatalogColumns DEF Column
  <2> QED
    BY <1>3, <1>14, <2>1 DEF Set
<1>16. entry.note.after = fields /\ entry.note.before = [f \in {Column(op)} |-> row[f]]
  BY <1>4, <1>6
<1> HIDE DEF told, told1, e, q, row
<1>17. ASSUME NEW m \in told1, NEW n \in told1, m < n, \A k \in told1 : k <= m \/ k >= n
       PROVE  log'[n].note.before = log'[m].note.after
  <2>1. CASE n \in told
    <3>1. m \in told
      BY <1>8, <1>10, <1>11, <1>17, <2>1
    <3>2. log'[m] = log[m] /\ log'[n] = log[n]
      BY <1>7, <1>11, <2>1, <3>1
    <3> QED
      BY <1>10, <1>12, <1>17, <2>1, <3>1, <3>2
  <2>2. CASE n = N
    <3>1. m \in told /\ m \in DOMAIN log
      BY <1>8, <1>10, <1>11, <1>17, <2>2
    <3>2. ASSUME NEW k \in told PROVE k <= m
      <4>1. k \in 1 .. Len(log) /\ k \in told1
        BY <1>8, <1>10, <1>11, <3>2
      <4>2. k <= m \/ k >= N
        BY <1>17, <2>2, <4>1
      <4> QED
        BY <1>8, <4>1, <4>2
    <3>3. log[m].note.after[Column(op)] = row[Column(op)]
      BY <1>12, <3>1, <3>2
    <3>4. log'[m] = log[m] /\ log'[n] = entry
      BY <1>7, <2>2, <3>1
    <3>5. PICK after : after = log[m].note.after
      OBVIOUS
    <3>6. after = [f \in {Column(op)} |-> after[f]] /\ after[Column(op)] = row[Column(op)]
      BY <1>13, <3>1, <3>3, <3>5
    <3>7. after = [f \in {Column(op)} |-> row[f]]
      BY <3>6
    <3> QED
      BY <1>16, <3>4, <3>5, <3>7
  <2> QED
    BY <1>10, <1>17, <2>1, <2>2
<1>18. ASSUME NEW n \in told1, \A k \in told1 : k <= n
       PROVE  log'[n].note.after[Column(op)] = Row("agent", id)'[Column(op)]
  <2>1. n = N
    <3>1. N \in told1 /\ n \in told \cup {N}
      BY <1>10
    <3>2. N <= n
      BY <1>18, <3>1
    <3>3. n \notin told
      BY <1>8, <1>11, <3>2
    <3> QED
      BY <3>1, <3>3
  <2> QED
    BY <1>7, <1>15, <1>16, <2>1
<1> QED
  BY <1>17, <1>18 DEF Chained, told1

(* Other columns, and other rows, are as they were.                        *)
LEMMA TellsOthers ==
  ASSUME HandlersFit, CatalogFit, RowsFresh, LogOK, NEW h \in Handler, Tells(h),
         NEW id \in DOMAIN catalog["agent"], NEW op \in {"bump", "status"},
         req[h].kind # "agent" \/ req[h].id # id \/ req[h].op # op
  PROVE  /\ ToldStays(id, op)
         /\ \/ Row("agent", id)' = Null
            \/ Row("agent", id) # Null /\ Row("agent", id)'[Column(op)] = Row("agent", id)[Column(op)]
<1> DEFINE q == req[h]
           row == Row(q.kind, q.id)
           e == Entry(q.op, <<q.kind, q.id>>, Told(q, row))
           told == EntriesOf(op, <<"agent", id>>)
           told1 == EntriesOf(op, <<"agent", id>>)'
<1>1. /\ q \in Requests /\ q.op \in {"bump", "status"} /\ q.kind \in Kind /\ q.id \in DOMAIN catalog[q.kind]
      /\ row \in CatalogRow
      /\ log' = Append(log, e)
      /\ catalog'[q.kind][q.id] = Set(row, Assigned(q, row))
      /\ \A k \in Kind : DOMAIN catalog'[k] = DOMAIN catalog[k]
      /\ \A k \in Kind : \A n \in DOMAIN catalog[k] :
           <<k, n>> # <<q.kind, q.id>> => catalog'[k][n] = catalog[k][n]
  BY TellsWrites
<1>2. told1 = {n \in DOMAIN log' : log'[n] # Null /\ log'[n].event = op /\ log'[n].about = <<"agent", id>>}
      /\ told = {n \in DOMAIN log : log[n] # Null /\ log[n].event = op /\ log[n].about = <<"agent", id>>}
  BY DEF EntriesOf, Entries
<1>3. e.event # op \/ e.about # <<"agent", id>>
  <2>1. e.event = q.op /\ e.about = <<q.kind, q.id>>
    BY DEF Entry
  <2> QED
    BY <2>1
<1>4. PICK entry : entry = e
  OBVIOUS
<1>5. /\ DOMAIN log' = DOMAIN log \cup {Len(log) + 1} /\ log'[Len(log) + 1] = entry
      /\ \A n \in DOMAIN log : log'[n] = log[n]
  BY <1>1, <1>4, Logged
<1>6. ToldStays(id, op)
  <2>1. entry.event # op \/ entry.about # <<"agent", id>>
    BY <1>3, <1>4
  <2> HIDE DEF told, told1
  <2>2. \A n \in told1 : n \in told /\ log'[n] = log[n]
    BY <1>2, <1>5, <2>1
  <2>3. told \subseteq told1
    BY <1>2, <1>5
  <2> QED
    BY <2>2, <2>3 DEF ToldStays, told, told1
<1>7. id \in DOMAIN catalog'["agent"]
  BY <1>1 DEF Kind
<1>8. Row("agent", id) = catalog["agent"][id] /\ Row("agent", id)' = catalog'["agent"][id]
  BY <1>7 DEF Row
<1>9. CASE <<"agent", id>> # <<q.kind, q.id>>
  BY <1>1, <1>6, <1>8, <1>9 DEF Kind
<1>10. CASE q.kind = "agent" /\ q.id = id
  <2>1. PICK fields : fields = Assigned(q, row)
    OBVIOUS
  <2>2. DOMAIN fields = {Column(q.op)}
    BY <1>1, <2>1, AssignedColumns
  <2>3. Column(op) \notin DOMAIN fields /\ Column(op) \in DOMAIN row
    BY <1>1, <1>10, <2>2, CatalogColumns DEF Column
  <2>4. Set(row, fields)[Column(op)] = row[Column(op)]
    BY <2>3 DEF Set
  <2>5. Row("agent", id)' = Set(row, fields) /\ row = Row("agent", id) /\ row # Null
    BY <1>1, <1>8, <1>10, <2>1, ProjectsAssumption
  <2> QED
    BY <1>6, <2>4, <2>5
<1> QED
  BY <1>9, <1>10

LEMMA NextToldFits ==
  ASSUME HandlersFit, CatalogFit, CatalogKept, LogOK, ToldFits, LogSteps, LogKeeps
  PROVE  ToldFits'
<1> SUFFICES ASSUME NEW n \in Entries', NEW op \in {"bump", "status"}, NEW id,
                    log'[n].event = op, log'[n].about = <<"agent", id>>
             PROVE  /\ id \in DOMAIN catalog'["agent"]
                    /\ log'[n].note.after = [f \in {Column(op)} |-> log'[n].note.after[f]]
  BY DEF ToldFits
<1>1. DOMAIN catalog["agent"] \subseteq DOMAIN catalog'["agent"]
  BY DomainsStay DEF Kind
<1>2. CASE n \in DOMAIN log
  <2>1. n \in Entries /\ log'[n] = log[n]
    BY <1>2 DEF LogKeeps, Entries
  <2> QED
    BY <1>1, <2>1 DEF ToldFits
<1>3. CASE n \notin DOMAIN log
  <2>1. n \in DOMAIN log' /\ op \in ReadEvents
    BY DEF Entries, ReadEvents
  <2>2. CASE OtherLog
    BY <1>3, <2>1, <2>2 DEF OtherLog, Extended
  <2>3. ASSUME NEW event, NEW about, NEW note, log' = Append(log, Entry(event, about, note))
        PROVE  event = op /\ about = <<"agent", id>> /\ log'[n].note = note
    <3>1. n = Len(log) + 1 /\ log'[n] = Entry(event, about, note)
      BY <1>3, <2>1, <2>3, Logged
    <3> QED
      BY <3>1 DEF Entry
  <2>4. ASSUME NEW h \in Handler, RunRetention(h) PROVE FALSE
    <3>1. n = Len(log) + 1 /\ log'[n] = Entry("retention.executed", Null, RetentionNote(h))
      BY <1>3, <2>1, <2>4, RetentionLog
    <3> QED
      BY <3>1 DEF Entry
  <2>6. ASSUME NEW h \in Handler, Tells(h)
        PROVE  /\ id \in DOMAIN catalog'["agent"]
               /\ log'[n].note.after = [f \in {Column(op)} |-> log'[n].note.after[f]]
    <3> DEFINE q == req[h]
    <3>1. pc[h] = "commit" /\ q.op \in {"bump", "status"}
      BY <2>6 DEF Tells, ChangeCommit
    <3>2. work[h].row \in CatalogRow /\ q.id \in DOMAIN catalog[q.kind]
      BY <3>1 DEF CatalogFit, ProjectSession, Working
    <3>3. PICK note : note = Told(q, work[h].row)
      OBVIOUS
    <3>4. log' = Append(log, Entry(q.op, <<q.kind, q.id>>, note))
      BY <2>6, <3>3 DEF Tells
    <3>5. q.op = op /\ <<q.kind, q.id>> = <<"agent", id>> /\ log'[n].note = note
      BY <2>3, <3>4
    <3>6. q.kind = "agent" /\ q.id = id
      BY <3>5
    <3>7. PICK fields : fields = Assigned(q, work[h].row)
      OBVIOUS
    <3>8. note.after = fields
      BY <3>1, <3>3, <3>7 DEF Told
    <3>9. fields = [f \in {Column(op)} |-> fields[f]]
      BY <3>1, <3>2, <3>5, <3>7, AssignedColumns
    <3> QED
      BY <1>1, <3>2, <3>5, <3>6, <3>8, <3>9
  <2> QED
    BY <2>2, <2>4, <2>6 DEF LogSteps
<1> QED
  BY <1>2, <1>3

LEMMA NextRowsFresh ==
  ASSUME HandlersFit, OneAtATime, CatalogFit, RowsFresh, Quiet', [Next]_vars
  PROVE  RowsFresh'
<1> SUFFICES ASSUME NEW g \in Handler, pc'[g] \in Working, req'[g].op \in {"edit", "bump", "status"}
             PROVE  (work[g].row = Row(req[g].kind, req[g].id) /\ work[g].row # Null)'
  BY DEF RowsFresh
<1>1. CASE catalog' = catalog /\ Untouched(CatalogOps)
  <2>1. pc'[g] = pc[g] /\ req'[g] = req[g] /\ work'[g] = work[g]
    BY <1>1 DEF Untouched, CatalogOps, ProjectOps
  <2> QED
    BY <1>1, <2>1 DEF RowsFresh, Row
<1>2. ASSUME NEW h \in Handler, Moves(h), workload' = workload, g # h PROVE FALSE
  <2>1. pc'[g] = pc[g] /\ ~ Busy(g)
    BY <1>2, MovesOne, QuietSteps
  <2> QED
    BY <2>1 DEF Busy, Working
<1>3. ASSUME NEW h \in Handler, DeletionsServe(h), workload' = workload PROVE FALSE
  <2>1. Moves(h) /\ req[h].op = "drop" /\ req'[h] = req[h]
    BY <1>3, DeletionsMoves, MovesOne
  <2> QED
    BY <1>2, <1>3, <2>1
<1>4. ASSUME NEW h \in Handler, ProjectsServe(h), workload' = workload
      PROVE  (work[g].row = Row(req[g].kind, req[g].id) /\ work[g].row # Null)'
  <2>1. Moves(h) /\ g = h /\ req'[h] = req[h]
    BY <1>2, <1>4, ProjectsMoves, MovesOne
  <2>2. CASE ChangeLoad(h)
    <3>1. /\ Visible(req[h].kind, req[h].id) /\ catalog' = catalog
          /\ work' = [work EXCEPT ![h] = [row |-> Row(req[h].kind, req[h].id)]]
      BY <2>1, <2>2 DEF ChangeLoad, Continue, Respond, HandlersFit, Working
    <3>2. work'[h].row = Row(req[h].kind, req[h].id) /\ Row(req[h].kind, req[h].id) # Null
      BY <3>1 DEF HandlersFit, Visible
    <3> QED
      BY <2>1, <3>1, <3>2 DEF Row
  <2>3. CASE CreateLoad(h)
    BY <2>1, <2>3 DEF CreateLoad
  <2>4. CASE CreateCommit(h) \/ ChangeCommit(h)
    <3>1. pc'[h] = "done"
      BY <2>4 DEF CreateCommit, ChangeCommit, Respond, HandlersFit
    <3> QED
      BY <2>1, <3>1 DEF Working
  <2> QED
    BY <1>4, <2>2, <2>3, <2>4 DEF ProjectsServe
<1> QED
  BY <1>1, <1>3, <1>4, CatalogSteps

LEMMA HistorySteps ==
  ASSUME HandlersFit, OneAtATime, PricesFit, TablesFit, CatalogFit, EvaluationsFit, ShapeFit, HistoryFits, [Next]_vars
  PROVE  HistoryFits'
<1>1. LogSteps /\ LogKeeps /\ LogOK /\ now \in Nat \ {0} /\ CatalogFit' /\ CatalogKept
  BY ShapeSteps, CatalogChanges DEF ShapeFit, TablesFit
<1>2. Ordered'
  BY <1>1, NextOrdered DEF HistoryFits
<1>3. ToldFits' /\ ToldFits
  BY <1>1, NextToldFits DEF HistoryFits
<1>4. ASSUME Quiet'
      PROVE  RowsFresh' /\ \A id \in DOMAIN catalog'["agent"], op \in {"bump", "status"} : Chained(id, op)'
  <2>1. Quiet /\ RowsFresh /\ RowsFresh'
    BY <1>4, QuietSteps, NextRowsFresh DEF HistoryFits
  <2> SUFFICES ASSUME NEW id \in DOMAIN catalog'["agent"], NEW op \in {"bump", "status"} PROVE Chained(id, op)'
    BY <2>1
  <2>2. CASE id \in DOMAIN catalog["agent"]
    <3>1. Chained(id, op)
      BY <2>1, <2>2 DEF HistoryFits
    <3>2. CASE \A h \in Handler : ~ Tells(h)
      <4>1. ToldStays(id, op)
        BY <1>1, <3>2, OthersTellNothing DEF HistoryFits
      <4>2. \/ Row("agent", id)' = Null
            \/ Row("agent", id) # Null /\ Row("agent", id)'[Column(op)] = Row("agent", id)[Column(op)]
        BY <2>2, <3>2, ColumnsStay
      <4> QED
        BY <1>1, <3>1, <4>1, <4>2, ChainStays
    <3>3. CASE \E h \in Handler : Tells(h)
      <4>1. PICK h \in Handler : Tells(h)
        BY <3>3
      <4>2. CASE req[h].kind = "agent" /\ req[h].id = id /\ req[h].op = op
        BY <1>1, <1>3, <2>1, <3>1, <4>1, <4>2, TellsChain
      <4>3. CASE req[h].kind # "agent" \/ req[h].id # id \/ req[h].op # op
        <5>1. /\ ToldStays(id, op)
              /\ \/ Row("agent", id)' = Null
                 \/ Row("agent", id) # Null /\ Row("agent", id)'[Column(op)] = Row("agent", id)[Column(op)]
          BY <1>1, <2>1, <2>2, <4>1, <4>3, TellsOthers
        <5> QED
          BY <1>1, <3>1, <5>1, ChainStays
      <4> QED
        BY <4>2, <4>3
    <3> QED
      BY <3>2, <3>3
  <2>3. CASE id \notin DOMAIN catalog["agent"]
    <3>1. \A n \in Entries' : ~ (log'[n].event = op /\ log'[n].about = <<"agent", id>>)
      <4>1. \A n \in Entries : ~ (log[n].event = op /\ log[n].about = <<"agent", id>>)
        BY <1>3, <2>3 DEF ToldFits
      <4>2. CASE \E h \in Handler : Tells(h)
        <5>1. PICK h \in Handler : Tells(h)
          BY <4>2
        <5>2. \A k \in Kind : DOMAIN catalog'[k] = DOMAIN catalog[k]
          BY <2>1, <5>1, TellsWrites
        <5> QED
          BY <2>3, <5>2 DEF Kind
      <4>3. CASE \A h \in Handler : ~ Tells(h)
        <5>1. ToldStays(id, op)
          BY <1>1, <4>3, OthersTellNothing DEF HistoryFits
        <5> QED
          BY <4>1, <5>1 DEF ToldStays, EntriesOf
      <4> QED
        BY <4>2, <4>3
    <3>2. EntriesOf(op, <<"agent", id>>)' = {}
      BY <3>1 DEF EntriesOf
    <3> QED
      BY <3>2 DEF Chained
  <2> QED
    BY <2>2, <2>3
<1> QED
  BY <1>2, <1>3, <1>4 DEF HistoryFits

LEMMA AlwaysHistoryFits == Spec => []HistoryFits
<1>1. Init => HistoryFits
  <2> SUFFICES ASSUME Init PROVE HistoryFits
    OBVIOUS
  <2>1. log = << >> /\ pc = [h \in Handler |-> "idle"]
    BY DEF Init, HandlersInit
  <2>2. Entries = {}
    BY <2>1 DEF Entries
  <2>3. Ordered /\ ToldFits /\ \A id, op : Chained(id, op)
    BY <2>2 DEF Ordered, ToldFits, Chained, EntriesOf
  <2>4. RowsFresh
    BY <2>1 DEF RowsFresh, Working
  <2> QED
    BY <2>3, <2>4 DEF HistoryFits
<1>2. HandlersFit /\ OneAtATime /\ PricesFit /\ TablesFit /\ CatalogFit /\ EvaluationsFit /\ ShapeFit /\ HistoryFits
        /\ [Next]_vars => HistoryFits'
  BY HistorySteps
<1> QED
  BY <1>1, <1>2, AlwaysHandlersFit, AlwaysOneAtATime, AlwaysPricesFit, AlwaysTablesFit, AlwaysCatalogFit,
     AlwaysEvaluationsFit, AlwaysShapeFit, PTL DEF Spec

(* AgentsTellTheirHistory: the entries of bump_agent_version and           *)
(* update_agent_status are one chain up to what the agent has now, if the  *)
(* requests do not overlap, and retention only cuts its old end.           *)
THEOREM HistoriesAreChains == Spec => []AgentsTellTheirHistory
<1>1. HistoryFits => AgentsTellTheirHistory
  BY DEF HistoryFits, AgentsTellTheirHistory, Chained, Column
<1> QED
  BY <1>1, AlwaysHistoryFits, PTL

-----------------------------------------------------------------------------
(* What is lost *)

(* An entry on retention is about rows that were in the tables.            *)
NotesFit ==
  \A k \in Entries : log[k].event = "retention.executed" => log[k].note.upto \in 0 .. Len(traces)

TraceKept(n) == n \in Traces /\ traces'[n].at = traces[n].at

TraceExpires(h, n) == RunRetention(h) /\ Expired(traces[n].at, work[h].days.traces, work[h].executed)

(* The row goes with the project or the agent that is deleted.             *)
TraceDropped(n) ==
  \E kind \in {"project", "agent"} :
    log' = Append(log, Entry("deleted", <<kind, traces[n][kind]>>, Null))

LEMMA OldIsExpired ==
  \A at, days, executed : Old(at, days, executed) <=> Expired(at, days, executed)
BY DEF Old, Expired

LEMMA DropChanges ==
  ASSUME HandlersFit, TablesFit, CatalogFit, NEW h \in Handler, DeletionsServe(h), workload' = workload,
         traces' # traces
  PROVE  /\ Traces' \subseteq Traces
         /\ \A n \in Traces : IF traces'[n] = Null THEN TraceDropped(n) ELSE TraceKept(n)
<1>1. TracesOK /\ Drops(h)
  BY DeletionTables DEF TablesFit
<1>2. PICK kind \in Kind : kind = req[h].kind
  BY DeletionsMoves, KindOf DEF HandlersFit, Moves, Busy
<1>3. PICK id, loaded : id = req[h].id /\ traces' = TracesWithout(kind, id, loaded)
  BY <1>1, <1>2 DEF Drops
<1>4. log' = Append(log, Entry("deleted", <<kind, id>>, Null))
  <2>1. Drop(h) /\ traces' # traces
    BY <1>1 DEF Drops
  <2> QED
    BY <1>2, <1>3, <2>1 DEF Drop
<1>5. DOMAIN traces' = DOMAIN traces
  BY <1>3 DEF TracesWithout
<1>6. Traces' \subseteq Traces
  BY <1>3, <1>5 DEF TracesWithout, TracesOf, Traces
<1>7. ASSUME NEW n \in Traces
      PROVE  IF traces'[n] = Null THEN TraceDropped(n) ELSE TraceKept(n)
  <2>1. PICK t \in TraceRow : t = traces[n]
    BY <1>1, <1>7 DEF TracesOK, Traces
  <2>2. t # Null
    BY <1>7, <2>1 DEF Traces
  <2>3. CASE traces'[n] = t
    BY <1>7, <2>1, <2>2, <2>3 DEF TraceKept
  <2>4. CASE traces'[n] = Null /\ t[kind] = id /\ kind \in {"project", "agent"}
    BY <1>4, <2>1, <2>4 DEF TraceDropped
  <2>5. CASE traces'[n] = [t EXCEPT ![kind] = Null]
    <3>1. [t EXCEPT ![kind] = Null] \in TraceRow /\ [t EXCEPT ![kind] = Null].at = t.at
      BY <1>2, <2>1 DEF TraceRow, Kind
    <3>2. traces'[n] # Null
      BY <2>5, <3>1, PrivacyAssumption
    <3> QED
      BY <1>7, <2>1, <2>5, <3>1, <3>2 DEF TraceKept
  <2> QED
    BY <1>3, <1>7, <2>1, <2>3, <2>4, <2>5 DEF TracesWithout, TracesOf, Traces
<1> QED
  BY <1>6, <1>7

(* A row keeps its place and its time; it goes by retention or by a        *)
(* deletion, and what is new comes after it.                               *)
LEMMA TraceChanges ==
  ASSUME HandlersFit, TablesFit, CatalogFit, [Next]_vars
  PROVE  /\ \A n \in Traces' : TraceKept(n) \/ n > Len(traces)
         /\ \A n \in Traces :
              traces'[n] = Null => TraceDropped(n) \/ \E h \in Handler : TraceExpires(h, n)
<1>1. TracesOK /\ DOMAIN traces = 1 .. Len(traces) /\ Len(traces) \in Nat
  BY AnySeq, SeqFacts DEF TablesFit, TracesOK
<1> DEFINE Goal == /\ \A n \in Traces' : TraceKept(n) \/ n > Len(traces)
                   /\ \A n \in Traces :
                        traces'[n] = Null => TraceDropped(n) \/ \E h \in Handler : TraceExpires(h, n)
<1>2. CASE traces' = traces
  BY <1>2 DEF Traces, TraceKept
<1>3. ASSUME NEW h \in Handler, PrivacyServe(h), traces' # traces PROVE Goal
  <2>1. RunRetention(h)
    BY <1>3 DEF PrivacyServe, PolicyLoad, PolicyCommit, RetentionLoad, CreateWish, WishLoad,
       WishCommit, Export, Anonymize, privacy
  <2>2. traces' = [n \in DOMAIN traces |->
                     IF n \in Traces /\ Old(traces[n].at, work[h].days.traces, work[h].executed)
                     THEN Null ELSE traces[n]]
    BY <2>1 DEF RunRetention
  <2>3. ASSUME NEW n \in Traces' PROVE TraceKept(n)
    BY <2>2, <2>3 DEF Traces, TraceKept
  <2>4. ASSUME NEW n \in Traces, traces'[n] = Null PROVE TraceExpires(h, n)
    <3>1. Old(traces[n].at, work[h].days.traces, work[h].executed)
      BY <2>2, <2>4 DEF Traces
    <3> QED
      BY <2>1, <3>1, OldIsExpired DEF TraceExpires
  <2> QED
    BY <2>3, <2>4
<1>4. ASSUME NEW h \in Handler, KeysServe(h), workload' = workload, traces' # traces PROVE Goal
  <2>1. Stores(h)
    <3>1. StoreTrace(h)
      BY <1>4 DEF KeysServe, NewKeyLoad, CreateKey, KeyLoad, Revoke, Delete, Resolve, TouchKey, Admit, privacy
    <3>2. traces' = TracesWith(h)
      BY <1>4, <3>1 DEF StoreTrace
    <3>3. traces' = Append(traces, NewTrace(req[h], work[h].project, work[h].at))
      BY <1>4, <3>2 DEF TracesWith
    <3>4. IsSeq(traces)
      BY <1>1, AnySeq DEF TracesOK
    <3>5. Len(traces') = Len(traces) + 1
      BY <3>3, <3>4, AppendAny, SeqFacts
    <3>6. Len(traces') = Len(traces) \/ Stores(h)
      BY <1>4, KeyTables
    <3>7. PICK k \in Nat : k = Len(traces)
      BY <1>1
    <3>8. k + 1 # k
      OBVIOUS
    <3> QED
      BY <3>5, <3>6, <3>7, <3>8
  <2>2. /\ DOMAIN traces' = DOMAIN traces \cup {Len(traces) + 1}
        /\ \A n \in DOMAIN traces : traces'[n] = traces[n]
    BY <2>1 DEF Stores
  <2> QED
    BY <1>1, <2>2 DEF Traces, TraceKept
<1>5. ASSUME NEW h \in Handler, DeletionsServe(h), workload' = workload, traces' # traces PROVE Goal
  <2>1. /\ Traces' \subseteq Traces
        /\ \A n \in Traces : IF traces'[n] = Null THEN TraceDropped(n) ELSE TraceKept(n)
    BY <1>5, DropChanges
  <2> QED
    BY <2>1 DEF Traces
<1> QED
  BY <1>2, <1>3, <1>4, <1>5, ScopeSteps

(* The same of the log, where nothing but retention takes entries away.    *)
LEMMA LogChanges ==
  ASSUME LogOK, LogSteps, LogKeeps
  PROVE  /\ \A k \in Entries' : IF k \in DOMAIN log THEN k \in Entries /\ log'[k] = log[k]
                                                 ELSE k > Len(log)
         /\ \A k \in Entries' : k \notin DOMAIN log /\ log'[k].event = "retention.executed" =>
              \E h \in Handler : RunRetention(h) /\ log'[k].note = RetentionNote(h)
         /\ \A d \in Entries : log'[d] = Null =>
              \E h \in Handler : RunRetention(h) /\ Old(log[d].at, work[h].days.audit, work[h].executed)
<1>1. DOMAIN log = 1 .. Len(log) /\ Len(log) \in Nat /\ DOMAIN log' = 1 .. Len(log') /\ Len(log') \in Nat
  BY SeqFacts DEF LogOK, LogKeeps
<1>2. ASSUME NEW k \in Entries'
      PROVE  IF k \in DOMAIN log THEN k \in Entries /\ log'[k] = log[k] ELSE k > Len(log)
  BY <1>1, <1>2 DEF LogKeeps, Entries
<1>3. ASSUME NEW k \in Entries', k \notin DOMAIN log, log'[k].event = "retention.executed"
      PROVE  \E h \in Handler : RunRetention(h) /\ log'[k].note = RetentionNote(h)
  <2>1. k \in DOMAIN log'
    BY <1>3 DEF Entries
  <2>2. ~ OtherLog
    BY <1>3, <2>1 DEF OtherLog, Extended, ReadEvents
  <2>3. ASSUME NEW h \in Handler, Tells(h) PROVE FALSE
    <3>1. PICK op, about, note : op \in {"bump", "status"} /\ log' = Append(log, Entry(op, about, note))
      BY <2>3 DEF Tells
    <3>2. log'[k] = Entry(op, about, note)
      BY <1>3, <2>1, <3>1, Logged
    <3>3. Entry(op, about, note).event = op
      BY DEF Entry
    <3> QED
      BY <1>3, <3>1, <3>2, <3>3
  <2>4. ASSUME NEW h \in Handler, RunRetention(h) PROVE log'[k].note = RetentionNote(h)
    <3>1. log'[k] = Entry("retention.executed", Null, RetentionNote(h))
      BY <1>3, <2>1, <2>4, RetentionLog
    <3> QED
      BY <3>1 DEF Entry
  <2> QED
    BY <2>2, <2>3, <2>4 DEF LogSteps
<1>4. ASSUME NEW d \in Entries, log'[d] = Null
      PROVE  \E h \in Handler : RunRetention(h) /\ Old(log[d].at, work[h].days.audit, work[h].executed)
  <2>1. d \in DOMAIN log /\ log[d] # Null
    BY <1>4 DEF Entries
  <2>2. ~ OtherLog
    BY <1>4, <2>1 DEF OtherLog, Extended
  <2>3. ASSUME NEW h \in Handler, Tells(h) PROVE FALSE
    BY <1>4, <2>1, <2>3, Logged DEF Tells
  <2>4. ASSUME NEW h \in Handler, RunRetention(h)
        PROVE  Old(log[d].at, work[h].days.audit, work[h].executed)
    BY <1>4, <2>1, <2>4, RetentionLog
  <2> QED
    BY <2>2, <2>3, <2>4 DEF LogSteps
<1> QED
  BY <1>2, <1>3, <1>4

(* What retention said it did stays done: nothing comes back, and what is  *)
(* new is not what an entry was about.                                     *)
RetentionFits == NotesFit /\ RetentionIsDone

LEMMA RetentionSteps ==
  ASSUME HandlersFit, PricesFit, TablesFit, CatalogFit, EvaluationsFit, ShapeFit, RetentionFits, [Next]_vars
  PROVE  RetentionFits'
<1>1. LogOK /\ LogSteps /\ LogKeeps
  BY ShapeSteps DEF ShapeFit
<1>2. /\ Len(traces) \in Nat /\ Len(traces') \in Nat /\ Len(traces) <= Len(traces')
      /\ DOMAIN traces = 1 .. Len(traces) /\ DOMAIN log \subseteq Nat /\ DOMAIN log' \subseteq Nat
      /\ DOMAIN traces' = 1 .. Len(traces') /\ DOMAIN log = 1 .. Len(log) /\ Len(log) \in Nat
  <2>1. TracesOK /\ TracesOK' /\ (Len(traces') = Len(traces) \/ Len(traces') = Len(traces) + 1)
    BY TableSteps DEF TablesFit, Stores
  <2> QED
    BY <1>1, <2>1, SeqFacts, AnySeq DEF TracesOK, LogOK, LogKeeps
<1> SUFFICES ASSUME NEW k \in Entries', log'[k].event = "retention.executed", NEW note, note = log'[k].note
             PROVE  /\ note.upto \in 0 .. Len(traces')
                    /\ \A n \in Traces' :
                         n <= note.upto => ~ Expired(traces'[n].at, note.days.traces, note.executed)
                    /\ \A d \in Entries' : d < k => ~ Expired(log'[d].at, note.days.audit, note.executed)
  BY DEF RetentionFits, NotesFit, RetentionIsDone
<1>3. CASE k \in DOMAIN log
  <2>1. k \in Entries /\ log'[k] = log[k]
    BY <1>1, <1>3, LogChanges
  <2>2. note.upto \in 0 .. Len(traces)
    BY <2>1 DEF RetentionFits, NotesFit
  <2>3. /\ \A n \in Traces : n <= note.upto => ~ Expired(traces[n].at, note.days.traces, note.executed)
        /\ \A d \in Entries : d < k => ~ Expired(log[d].at, note.days.audit, note.executed)
    BY <2>1 DEF RetentionFits, RetentionIsDone
  <2>4. ASSUME NEW n \in Traces', n <= note.upto
        PROVE  ~ Expired(traces'[n].at, note.days.traces, note.executed)
    <3>1. n \in Nat
      BY <1>2, <2>4 DEF Traces
    <3>2. TraceKept(n)
      BY <1>2, <2>2, <2>4, <3>1, TraceChanges
    <3> QED
      BY <2>3, <2>4, <3>2 DEF TraceKept
  <2>5. ASSUME NEW d \in Entries', d < k PROVE ~ Expired(log'[d].at, note.days.audit, note.executed)
    <3>1. d \in DOMAIN log
      BY <1>2, <1>3, <2>5 DEF Entries
    <3>2. d \in Entries /\ log'[d] = log[d]
      BY <1>1, <2>5, <3>1, LogChanges
    <3> QED
      BY <2>3, <2>5, <3>2
  <2> QED
    BY <1>2, <2>2, <2>4, <2>5
<1>4. CASE k \notin DOMAIN log
  <2>1. PICK h \in Handler : RunRetention(h) /\ note = RetentionNote(h)
    BY <1>1, <1>4, LogChanges
  <2>2. PICK days, executed : days = work[h].days /\ executed = work[h].executed
    OBVIOUS
  <2>3. note.upto = Len(traces) /\ note.days = days /\ note.executed = executed
    BY <2>1, <2>2 DEF RetentionNote
  <2>4. /\ DOMAIN log' = DOMAIN log \cup {Len(log) + 1}
        /\ \A d \in DOMAIN log :
             log'[d] = IF d \in Entries /\ Old(log[d].at, days.audit, executed) THEN Null ELSE log[d]
        /\ traces' = [n \in DOMAIN traces |->
                        IF n \in Traces /\ Old(traces[n].at, days.traces, executed) THEN Null ELSE traces[n]]
    BY <1>1, <2>1, <2>2, RetentionLog
  <2>5. ASSUME NEW n \in Traces' PROVE ~ Expired(traces'[n].at, days.traces, executed)
    <3>1. n \in Traces /\ traces'[n] = traces[n] /\ ~ Old(traces[n].at, days.traces, executed)
      BY <2>4, <2>5 DEF Traces
    <3> QED
      BY <3>1, OldIsExpired
  <2>6. ASSUME NEW d \in Entries', d < k PROVE ~ Expired(log'[d].at, days.audit, executed)
    <3>1. k = Len(log) + 1 /\ d \in DOMAIN log
      BY <1>2, <1>4, <2>4, <2>6 DEF Entries
    <3>2. log'[d] = log[d] /\ ~ Old(log[d].at, days.audit, executed)
      BY <2>4, <2>6, <3>1 DEF Entries
    <3> QED
      BY <3>2, OldIsExpired
  <2> QED
    BY <1>2, <2>3, <2>5, <2>6
<1> QED
  BY <1>3, <1>4

(* An entry that was added is the last one, of this step.                  *)
LEMMA LastEntry ==
  ASSUME LogOK, LogKeeps, NEW e, NEW event, NEW about, NEW note,
         e = Entry(event, about, note), DOMAIN log' = DOMAIN log \cup {Len(log) + 1}, log'[Len(log) + 1] = e
  PROVE  /\ Len(log') = Len(log) + 1 /\ log'[Len(log')] = e
         /\ e.event = event /\ e.about = about /\ e.note = note
<1>1. Len(log') = Len(log) + 1
  BY SeqFacts DEF LogOK, LogKeeps
<1> QED
  BY <1>1 DEF Entry

LEMMA LossesAreTold ==
  ASSUME HandlersFit, TablesFit, CatalogFit, LogOK, LogSteps, LogKeeps, [Next]_vars
  PROVE  LET e == log'[Len(log')] IN
         /\ \A n \in Traces : traces'[n] = Null => Len(log') = Len(log) + 1 /\ LossIsTold(traces[n], e)
         /\ \A d \in Entries : log'[d] = Null =>
              /\ Len(log') = Len(log) + 1 /\ e.event = "retention.executed"
              /\ Expired(log[d].at, e.note.days.audit, e.note.executed)
<1>1. PICK e : e = log'[Len(log')]
  OBVIOUS
<1>2. ASSUME NEW h \in Handler, RunRetention(h)
      PROVE  /\ Len(log') = Len(log) + 1 /\ e.event = "retention.executed"
             /\ e.note.days = work[h].days /\ e.note.executed = work[h].executed
  <2>1. PICK note : note = RetentionNote(h)
    OBVIOUS
  <2>2. PICK f : f = Entry("retention.executed", Null, note)
    OBVIOUS
  <2>3. DOMAIN log' = DOMAIN log \cup {Len(log) + 1} /\ log'[Len(log) + 1] = f
    BY <1>2, <2>1, <2>2, RetentionLog
  <2>4. Len(log') = Len(log) + 1 /\ log'[Len(log')] = f /\ f.event = "retention.executed" /\ f.note = note
    BY <2>2, <2>3, LastEntry
  <2> QED
    BY <1>1, <2>1, <2>4 DEF RetentionNote
<1>3. ASSUME NEW n \in Traces, TraceDropped(n) PROVE Len(log') = Len(log) + 1 /\ LossIsTold(traces[n], e)
  <2>1. PICK kind \in {"project", "agent"} :
          log' = Append(log, Entry("deleted", <<kind, traces[n][kind]>>, Null))
    BY <1>3 DEF TraceDropped
  <2>2. Len(log') = Len(log) + 1 /\ e.event = "deleted" /\ e.about = <<kind, traces[n][kind]>>
    BY <1>1, <2>1, Logged, LastEntry
  <2> QED
    BY <2>1, <2>2 DEF LossIsTold
<1>4. ASSUME NEW n \in Traces, NEW h \in Handler, TraceExpires(h, n)
      PROVE  Len(log') = Len(log) + 1 /\ LossIsTold(traces[n], e)
  BY <1>2, <1>4 DEF TraceExpires, LossIsTold
<1>5. ASSUME NEW d \in Entries, log'[d] = Null
      PROVE  /\ Len(log') = Len(log) + 1 /\ e.event = "retention.executed"
             /\ Expired(log[d].at, e.note.days.audit, e.note.executed)
  <2>1. PICK h \in Handler : RunRetention(h) /\ Old(log[d].at, work[h].days.audit, work[h].executed)
    BY <1>5, LogChanges
  <2> QED
    BY <1>2, <2>1, OldIsExpired
<1> QED
  BY <1>1, <1>3, <1>4, <1>5, TraceChanges

(* RecordsGoInTime: for any policy, days and clock, and however requests   *)
(* overlap, run_retention and the deletions take away no record that is    *)
(* not over its term or of the row that is deleted, the last entry of the  *)
(* log says so, and what retention took away does not come back.           *)
THEOREM RetentionIsKept == Spec => RecordsGoInTime
<1>1. Init => RetentionFits
  <2> SUFFICES ASSUME Init PROVE Entries = {}
    BY DEF RetentionFits, NotesFit, RetentionIsDone
  <2> QED
    BY DEF Init, Entries
<1>2. HandlersFit /\ PricesFit /\ TablesFit /\ CatalogFit /\ EvaluationsFit /\ ShapeFit /\ RetentionFits
        /\ [Next]_vars => RetentionFits'
  BY RetentionSteps
<1>3. HandlersFit /\ PricesFit /\ TablesFit /\ CatalogFit /\ EvaluationsFit /\ ShapeFit /\ RetentionFits'
        /\ [Next]_vars
        => LET e == log'[Len(log')] IN
           /\ RetentionIsDone'
           /\ \A n \in Traces : traces'[n] = Null => Len(log') = Len(log) + 1 /\ LossIsTold(traces[n], e)
           /\ \A d \in Entries : log'[d] = Null =>
                /\ Len(log') = Len(log) + 1 /\ e.event = "retention.executed"
                /\ Expired(log[d].at, e.note.days.audit, e.note.executed)
  BY ShapeSteps, LossesAreTold DEF RetentionFits, ShapeFit
<1> QED
  BY <1>1, <1>2, <1>3, AlwaysHandlersFit, AlwaysPricesFit, AlwaysTablesFit, AlwaysCatalogFit,
     AlwaysEvaluationsFit, AlwaysShapeFit, PTL DEF Spec, RecordsGoInTime
=============================================================================
