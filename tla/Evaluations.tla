------------------------------ MODULE Evaluations ------------------------------
(***************************************************************************)
(* Evaluation datasets, runs, comparison and review: services/evaluation   *)
(* and api/v1/evaluations, over prices, projects and evaluators.  One      *)
(* request creates a run, asks the provider about every case and commits,  *)
(* so a run in progress lives in the session of its request.               *)
(***************************************************************************)
EXTENDS Pricing, Projects, Evaluators

CONSTANTS
  StoredDatasets,
  StoredCases,
  Configured,      (* providers that have their credentials                 *)
  Answers          (* what a provider may come back with                    *)

VARIABLES
  datasets, cases, runs, results,   (* tables; a row's id is its place      *)
  compared                          (* the comparison each request answered *)

evaluations == <<datasets, cases, runs, results, compared>>

DefaultEvaluators == <<[name |-> "exact_match"], [name |-> "json_structure", keys |-> {}]>>

(* The configured evaluators, or the default ones. *)
EvaluatorsOf(q) == IF q.evaluators = Null THEN DefaultEvaluators ELSE q.evaluators

(* A run that is created; what is counted comes with its execution.        *)
NewRun(q) ==
  [dataset |-> q.dataset, agent |-> q.agent, provider |-> q.provider, status |-> "PENDING",
   config |-> EvaluatorsOf(q),
   total |-> Null, executed |-> Null, errors |-> Null, unpriced |-> Null,
   passed |-> Null, pass_rate |-> Null, score |-> Null, cost |-> Null]

(* The audit entries on reviews. *)
ReviewEntry ==
  [event : {"result.reviewed"}, about : Nat, note : {"approved", "rejected", "needs_review"}, at : Nat]

Dataset == [project : Nat \cup {Null}]

(* NULL is no number, fraction or row.  The tools of a case and the lists *)
(* of an evaluator are finite, costs and tokens are not negative.          *)
ASSUME EvaluationsAssumption ==
  /\ Null \notin Int \cup (Int \X Int) \cup ReviewEntry \cup Dataset
  /\ \A n \in DOMAIN StoredCases : IsFiniteSet(StoredCases[n].tools)
  /\ \A answer \in Answers["mock"] : answer.kind = "output" => answer.cost \in Nat
  /\ \A answer \in Answers["openai"] : answer.kind = "output" => answer.tokens \in Nat \cup {Null}
  /\ StoredDatasets \in Seq(Dataset) /\ StoredCases \in Seq(ToSet(StoredCases))
  /\ \A n \in DOMAIN StoredDatasets :
       LET project == StoredDatasets[n].project IN
       project # Null => /\ project \in DOMAIN StoredCatalog.project
                         /\ StoredCatalog.project[project].parent = Organization
  /\ \A q \in Requests :
       /\ q.op = "dataset" => q.project \in Nat \cup {Null}
       /\ q.op = "case" => IsFiniteSet(q.tools)
       /\ q.op = "run" =>
            /\ q.agent \in Nat \cup {Null} /\ EvaluatorsOf(q) \in Seq(ToSet(EvaluatorsOf(q)))
            /\ \A cfg \in ToSet(EvaluatorsOf(q)) :
                 \A f \in DOMAIN cfg \cap {"fields", "words", "keys"} : IsFiniteSet(cfg[f])

-----------------------------------------------------------------------------
(* A dataset that is deleted turns Null, and what is of it is gone with it: *)
(* its cases, its runs and their results stay in the model, out of reach.  *)

HasDataset(id) == id \in DOMAIN datasets /\ datasets[id] # Null

HasRun(id) == id \in DOMAIN runs /\ HasDataset(runs[id].dataset)

HasResult(id) == id \in DOMAIN results /\ HasRun(results[id].run)

-----------------------------------------------------------------------------
(* create_dataset and add_case *)

DatasetLoad(h) ==
  LET project == req[h].project IN
  /\ pc[h] = "load" /\ req[h].op = "dataset"
  /\ IF project = Null \/ Visible("project", project)
     THEN Continue(h, "commit", Null) ELSE Respond(h, 422, Null)
  /\ UNCHANGED <<evaluations, pricing, ledger>>

CreateDataset(h) ==
  LET project == req[h].project IN
  /\ pc[h] = "commit" /\ req[h].op = "dataset"
  /\ IF project # Null /\ Row("project", project) = Null
     THEN Respond(h, 500, Null) /\ UNCHANGED <<datasets, log>>
     ELSE /\ datasets' = Append(datasets, [project |-> project])
          /\ log' = Append(log, Entry("dataset.created", Len(datasets'), Null))
          /\ Respond(h, 201, Len(datasets'))
  /\ UNCHANGED <<cases, runs, results, compared, pricing, now>>

AddCase(h) ==
  LET q == req[h] IN
  /\ pc[h] = "load" /\ q.op = "case"
  /\ IF ~ HasDataset(q.dataset) THEN Respond(h, 404, Null) /\ UNCHANGED cases
     ELSE /\ cases' = Append(cases, [dataset |-> q.dataset, expected |-> q.expected, tools |-> q.tools])
          /\ Respond(h, 201, Len(cases'))
  /\ UNCHANGED <<datasets, runs, results, compared, pricing, ledger>>

-----------------------------------------------------------------------------
(* create_run, then execute_run, of the same request *)

Evaluating(h, label) == pc[h] = label /\ req[h].op = "run"

(* _validate_run_config *)
ValidRun(q) ==
  /\ q.provider \in {"mock", "openai"}
  /\ q.provider = "openai" => q.model # Null /\ q.consent
  /\ \A k \in DOMAIN EvaluatorsOf(q) : ValidConfig(EvaluatorsOf(q)[k])

AgentFits(q) ==
  \/ q.agent = Null
  \/ /\ Visible("agent", q.agent)
     /\ datasets[q.dataset].project \in {Null, Row("agent", q.agent).parent}

(* A run with the cases it still has to do, and what those done came to.   *)
Executing(run, todo) ==
  [run |-> run, todo |-> todo, results |-> << >>, scores |-> << >>, passed |-> 0, cost |-> 0]

CreateRun(h) ==
  LET q == req[h] IN
  /\ Evaluating(h, "load")
  /\ IF HasDataset(q.dataset) /\ AgentFits(q) /\ ValidRun(q)
     THEN Continue(h, "scan", Executing(NewRun(q), << >>))
     ELSE Respond(h, 422, Null)
  /\ UNCHANGED <<evaluations, pricing, ledger>>

CasesOf(dataset) == SetToSeq({c \in DOMAIN cases : cases[c].dataset = dataset})

(* _fail_run: the counts stay as they are, no total is written. *)
FailRun(h) == Continue(h, "commit", [work[h] EXCEPT !.run.status = "FAILED"])

(* The cases that exist now are the cases of the run. *)
StartRun(h) ==
  LET q == req[h] IN
  /\ Evaluating(h, "scan")
  /\ IF q.provider \notin Configured THEN FailRun(h)
     ELSE LET todo == CasesOf(q.dataset) IN
          Continue(h, "check",
            Executing([work[h].run EXCEPT !.status = "RUNNING", !.total = Len(todo),
                         !.executed = 0, !.errors = 0, !.unpriced = 0], todo))
  /\ UNCHANGED <<evaluations, pricing, ledger>>

(* What a case costs: the prices of now, for a model of OpenAI. *)
CostOf(q, answer) ==
  IF q.provider = "mock" THEN {[status |-> "MOCK", cost |-> answer.cost, row |-> Null]}
  ELSE LET rows == GetPricing(q.model, now) IN
       IF answer.tokens = Null \/ rows = {}
       THEN {[status |-> "UNPRICED", cost |-> Null, row |-> Null]}
       ELSE {[status |-> "PRICED", cost |-> pricing[i].price * answer.tokens, row |-> i] : i \in rows}

ErrorResult(c) ==
  [run |-> Null, case |-> c, passed |-> FALSE, score |-> Null, status |-> "ERROR", cost |-> Null,
   row |-> Null, review |-> Null]

JudgedResult(q, c, answer, bill) ==
  LET verdict == RunEvaluators(EvaluatorsOf(q), cases[c], bill @@ answer) IN
  [run |-> Null, case |-> c, passed |-> verdict.passed, score |-> verdict.score,
   status |-> bill.status, cost |-> bill.cost, row |-> bill.row, review |-> Null]

(* Bug variant of Counted: a case without a price counts as an error too.  *)
CountedTwice(run, result) ==
  [run EXCEPT !.executed = @ + 1,
              !.errors   = @ + IF result.status \in {"ERROR", "UNPRICED"} THEN 1 ELSE 0,
              !.unpriced = @ + IF result.status = "UNPRICED" THEN 1 ELSE 0]

Counted(run, result) ==
  [run EXCEPT !.executed = @ + 1,
              !.errors   = @ + IF result.status = "ERROR" THEN 1 ELSE 0,
              !.unpriced = @ + IF result.status = "UNPRICED" THEN 1 ELSE 0]

KnownCost(result) == IF result.cost = Null THEN 0 ELSE result.cost

Adds(h, result) ==
  LET w == work[h] IN
  Continue(h, "check",
    [run     |-> Counted(w.run, result),
     todo    |-> Tail(w.todo),
     results |-> Append(w.results, result),
     scores  |-> IF result.status = "ERROR" THEN w.scores ELSE Append(w.scores, result.score),
     passed  |-> w.passed + IF result.passed THEN 1 ELSE 0,
     cost    |-> w.cost + KnownCost(result)])

(* The provider answers for the next case.  An error is that of the case,  *)
(* unless it shows that no case can succeed.                               *)
RunCase(h) ==
  LET q == req[h]
      c == Head(work[h].todo)
  IN
  /\ Evaluating(h, "check") /\ work[h].todo # << >>
  /\ \E answer \in Answers[q.provider] :
       \/ answer.kind = "fatal" /\ FailRun(h)
       \/ answer.kind = "error" /\ Adds(h, ErrorResult(c))
       \/ /\ answer.kind = "output"
          /\ \E bill \in CostOf(q, answer) : Adds(h, JudgedResult(q, c, answer, bill))
  /\ UNCHANGED <<evaluations, pricing, ledger>>

CompleteRun(h) ==
  LET w == work[h] IN
  /\ Evaluating(h, "check") /\ w.todo = << >>
  /\ Continue(h, "commit",
       [w EXCEPT !.run.status    = "COMPLETED",
                 !.run.passed    = w.passed,
                 !.run.pass_rate = IF w.run.total = 0 THEN Null ELSE <<w.passed, w.run.total>>,
                 !.run.score     = IF w.scores = << >> THEN Null ELSE Mean(w.scores),
                 !.run.cost      = w.cost])
  /\ UNCHANGED <<evaluations, pricing, ledger>>

(* The commit: the run with its results, and the entries it wrote. *)
StoreRun(h) ==
  LET run    == work[h].run
      id     == Len(runs) + 1
      began  == IF run.total = Null THEN << >> ELSE <<Entry("run.started", id, run.total)>>
  IN
  /\ Evaluating(h, "commit")
  /\ runs' = Append(runs, run)
  /\ results' = results \o [k \in DOMAIN work[h].results |-> [work[h].results[k] EXCEPT !.run = id]]
  /\ log' = log \o <<Entry("run.created", id, Null)>> \o began
                \o <<Entry("run.ended", id, run.status)>>
  /\ Respond(h, 201, id)
  /\ UNCHANGED <<datasets, cases, compared, pricing, now>>

-----------------------------------------------------------------------------
(* compare_runs: two runs, read one after the other *)

ResultsOf(id) == {n \in DOMAIN results : results[n].run = id}

Snapshot(id) ==
  IF ~ HasRun(id) THEN Null
  ELSE [run  |-> runs[id],
        pass |-> [c \in {results[n].case : n \in ResultsOf(id)} |->
                    \E n \in ResultsOf(id) : results[n].case = c /\ results[n].passed]]

CompareFirst(h) ==
  /\ pc[h] = "load" /\ req[h].op = "compare"
  /\ Continue(h, "check", [first |-> Snapshot(req[h].a)])
  /\ UNCHANGED <<evaluations, pricing, ledger>>

OrZero(fraction) == IF fraction = Null THEN <<0, 1>> ELSE fraction

Minus(a, b) == Plus(a, <<- b[1], b[2]>>)

(* Bug variant of Comparison: a case that only one run has counts as failed. *)
ComparisonUnshared(a, b) ==
  LET all      == DOMAIN a.pass \cup DOMAIN b.pass
      In(s, c) == c \in DOMAIN s.pass /\ s.pass[c]
  IN
  [shared    |-> DOMAIN a.pass \cap DOMAIN b.pass,
   improved  |-> {c \in all : ~ In(a, c) /\ In(b, c)},
   regressed |-> {c \in all : In(a, c) /\ ~ In(b, c)},
   both_pass |-> Cardinality({c \in all : In(a, c) /\ In(b, c)}),
   both_fail |-> Cardinality({c \in all : ~ In(a, c) /\ ~ In(b, c)}),
   delta     |-> Minus(OrZero(b.run.pass_rate), OrZero(a.run.pass_rate)),
   complete  |-> {a.run.unpriced, b.run.unpriced} \subseteq {0, Null}]

Comparison(a, b) ==
  LET shared == DOMAIN a.pass \cap DOMAIN b.pass IN
  [shared    |-> shared,
   improved  |-> {c \in shared : ~ a.pass[c] /\ b.pass[c]},
   regressed |-> {c \in shared : a.pass[c] /\ ~ b.pass[c]},
   both_pass |-> Cardinality({c \in shared : a.pass[c] /\ b.pass[c]}),
   both_fail |-> Cardinality({c \in shared : ~ a.pass[c] /\ ~ b.pass[c]}),
   delta     |-> Minus(OrZero(b.run.pass_rate), OrZero(a.run.pass_rate)),
   complete  |-> {a.run.unpriced, b.run.unpriced} \subseteq {0, Null}]

CompareRuns(h) ==
  LET a == work[h].first
      b == Snapshot(req[h].b)
  IN
  /\ pc[h] = "check" /\ req[h].op = "compare"
  /\ IF Null \in {a, b} THEN Respond(h, 404, Null) /\ UNCHANGED compared
     ELSE IF a.run.dataset # b.run.dataset THEN Respond(h, 422, Null) /\ UNCHANGED compared
     ELSE /\ compared' = [compared EXCEPT ![h] = Comparison(a, b)]
          /\ Respond(h, 200, Null)
  /\ UNCHANGED <<datasets, cases, runs, results, pricing, ledger>>

-----------------------------------------------------------------------------
(* human_review: any review replaces the one before *)

ReviewLoad(h) ==
  LET q == req[h] IN
  /\ pc[h] = "load" /\ q.op = "review"
  /\ IF q.status \notin {"approved", "rejected", "needs_review"} THEN Respond(h, 422, Null)
     ELSE IF ~ HasResult(q.result) THEN Respond(h, 404, Null)
     ELSE Continue(h, "commit", [before |-> results[q.result].review])
  /\ UNCHANGED <<evaluations, pricing, ledger>>

(* A status equal to the one loaded is not written, the time always is: a *)
(* result that is gone is an error.                                        *)
ReviewCommit(h) ==
  LET q == req[h] IN
  /\ pc[h] = "commit" /\ q.op = "review"
  /\ IF ~ HasResult(q.result) THEN Respond(h, 500, Null) /\ UNCHANGED <<results, log>>
     ELSE /\ results' = [results EXCEPT ![q.result].review =
                           IF q.status # work[h].before THEN q.status ELSE @]
          /\ log' = Append(log, Entry("result.reviewed", q.result, q.status))
          /\ Respond(h, 200, q.result)
  /\ UNCHANGED <<datasets, cases, runs, compared, pricing, now>>

EvaluationsServe(h) ==
  \/ DatasetLoad(h) \/ CreateDataset(h) \/ AddCase(h)
  \/ CreateRun(h) \/ StartRun(h) \/ RunCase(h) \/ CompleteRun(h) \/ StoreRun(h)
  \/ CompareFirst(h) \/ CompareRuns(h)
  \/ ReviewLoad(h) \/ ReviewCommit(h)
=============================================================================
