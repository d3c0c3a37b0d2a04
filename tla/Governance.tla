------------------------------ MODULE Governance ------------------------------
(***************************************************************************)
(* What an organisation decides about its telemetry: projects and agents,  *)
(* prices, evaluations, API keys, retention and the rights of data         *)
(* subjects.  The parts meet in the projects, in the traces, in the prices *)
(* and in the audit log.                                                   *)
(***************************************************************************)
EXTENDS Deletions

CONSTANT Workloads    (* a behaviour draws its requests from one of these,  *)
                      (* and its clock stops at the bound it names          *)

VARIABLE workload

ASSUME GovernanceAssumption ==
  \A w \in Workloads : w.requests \subseteq Requests /\ w.until \in Nat

vars == <<handlers, ledger, pricing, evaluations, privacy, keys, catalog, workload>>

Init ==
  /\ HandlersInit
  /\ log = << >> /\ now = 1
  /\ pricing = StoredPricing
  /\ datasets = StoredDatasets /\ cases = StoredCases
  /\ runs = << >> /\ results = << >>
  /\ compared = [h \in Handler |-> Null]
  /\ traces = StoredTraces /\ policy = StoredPolicy /\ wishes = << >>
  /\ keys = StoredKeys /\ catalog = StoredCatalog
  /\ workload \in Workloads

Arrive(h, q) ==
  /\ Receive(h, q)
  /\ UNCHANGED <<ledger, pricing, evaluations, privacy, keys, catalog, workload>>

(* A transaction that is rolled back leaves no mark on its key. *)
Abort(h) ==
  /\ Die(h)
  /\ UNCHANGED <<ledger, pricing, evaluations, privacy, keys, catalog, workload>>

Tick ==
  TimePasses(workload.until) /\ UNCHANGED <<handlers, pricing, evaluations, privacy, keys, catalog, workload>>

Next ==
  \/ \E h \in Handler, q \in workload.requests : Arrive(h, q)
  \/ \E h \in Handler :
       PricingServe(h) /\ UNCHANGED <<evaluations, privacy, keys, catalog, workload>>
  \/ \E h \in Handler :
       EvaluationsServe(h) /\ UNCHANGED <<privacy, keys, catalog, workload>>
  \/ \E h \in Handler :
       PrivacyServe(h) /\ UNCHANGED <<pricing, evaluations, keys, catalog, workload>>
  \/ \E h \in Handler :
       KeysServe(h) /\ UNCHANGED <<pricing, evaluations, catalog, workload>>
  \/ \E h \in Handler :
       ProjectsServe(h) /\ UNCHANGED <<pricing, evaluations, privacy, keys, workload>>
  \/ \E h \in Handler : DeletionsServe(h) /\ UNCHANGED workload
  \/ \E h \in Handler : Abort(h)
  \/ Tick

Spec == Init /\ [][Next]_vars

-----------------------------------------------------------------------------
(* Properties *)

EntriesOf(event, about) == {n \in Entries : log[n].event = event /\ log[n].about = about}

SumOfCosts(rows) == MapThenSumSet(LAMBDA n : KnownCost(results[n]), rows)

(* Answers, prices, wishes and the log keep their shape. *)
GovernanceTypeOK ==
  /\ resp \in [Handler -> Answer \cup {Null}]
  /\ \A n \in Entries : log[n].at \in 1 .. now
  /\ pricing \in Seq(PricingRow)
  /\ \A w \in ToSet(wishes) : w.type \in WishType /\ w.status \in WishStatus

(* Nothing refers to a row that was deleted while it was being written,    *)
(* and an agent or an environment of a trace is of the project its trace   *)
(* is in.  A key that was made for a project writes to no other, as long   *)
(* as there is that project: delete_project may leave the key to the       *)
(* organisation.  Tables keep their shape.                                 *)
TracesStayInScope ==
  /\ GovernanceTypeOK
  /\ \A kind \in {"agent", "environment"} : \A n \in Rows(kind) :
       Row("project", catalog[kind][n].parent) # Null
  /\ \A d \in ToSet(datasets) : d # Null /\ d.project # Null => Visible("project", d.project)
  /\ \A run \in ToSet(runs) : run.agent # Null => Visible("agent", run.agent)
  /\ \A id \in DOMAIN keys :
       keys[id] # Null /\ keys[id].project # Null => Visible("project", keys[id].project)
  /\ \A n \in Traces \ DOMAIN StoredTraces :
       LET t == traces[n] IN
       /\ Visible("project", t.project)
       /\ \A kind \in {"agent", "environment"} : t[kind] # Null => t[kind] \in MembersOf(kind, t.project)
       /\ t.key \in DOMAIN StoredKeys =>
            LET home == StoredKeys[t.key].project IN
            home # Null /\ Row("project", home) # Null => t.project = home

(* The audit log tells the versions and the states of an agent in one      *)
(* unbroken chain up to what the agent has now, unless requests overlapped.*)
AgentsTellTheirHistory ==
  Quiet =>
    \A id \in DOMAIN catalog.agent, op \in {"bump", "status"} :
      LET told   == EntriesOf(op, <<"agent", id>>)
          column == IF op = "bump" THEN "version" ELSE "status"
      IN
      /\ \A m, n \in told :
           m < n /\ (\A k \in told : k <= m \/ k >= n) => log[n].note.before = log[m].note.after
      /\ Row("agent", id) # Null =>
           \A n \in told :
             (\A k \in told : k <= n) => log[n].note.after[column] = Row("agent", id)[column]

PricesAt(scope, model, at) ==
  {i \in DOMAIN pricing :
     /\ pricing[i].scope = scope /\ pricing[i].model = model /\ pricing[i].active
     /\ Covers(pricing[i], at)}

(* A model has one price at a time, unless the requests that set the       *)
(* prices overlapped: has_pricing_overlap is asked before a row is written.*)
WindowsStayApart ==
  Quiet =>
    /\ \A i \in DOMAIN pricing : pricing[i].active => ~ Inverted(pricing[i])
    /\ \A m \in Model, scope \in {"org", "global"}, at \in 0 .. workload.until :
         Cardinality(PricesAt(scope, m, at)) <= 1

FullScore(result) == result.score # Null /\ result.score[1] = result.score[2]

Strict(run) ==
  \E k \in DOMAIN run.config : run.config[k].name = "expected_tools" /\ run.config[k].strict

(* The summary of a stored run is what its results, one of a case, add up  *)
(* to; a run that failed keeps the counts of the results it had.  A        *)
(* verdict is that of its score, but for a strict list of tools.  The      *)
(* audit log tells how the run ended and, of reviews that do not overlap,  *)
(* what the last one said.                                                 *)
RunsTellResults ==
  /\ \A id \in DOMAIN runs :
       LET run  == runs[id]
           mine == ResultsOf(id)
           In(status) == Cardinality({n \in mine : results[n].status = status})
           passed == Cardinality({n \in mine : results[n].passed})
       IN
       /\ run.status \in {"COMPLETED", "FAILED"}
       /\ IF run.total = Null THEN mine = {}
          ELSE <<run.executed, run.errors, run.unpriced>>
                 = <<Cardinality(mine), In("ERROR"), In("UNPRICED")>>
       /\ run.status = "COMPLETED" =>
            /\ run.total = run.executed /\ run.passed = passed
            /\ passed = run.total /\ passed > 0 => FullScore(run)
            /\ run.cost = SumOfCosts(mine)
       /\ \A m, n \in mine : results[m].case = results[n].case => m = n
       /\ \A n \in mine :
            /\ results[n].passed => FullScore(results[n])
            /\ FullScore(results[n]) => results[n].passed \/ Strict(run)
       /\ \A n \in EntriesOf("run.ended", id) : log[n].note = run.status
  /\ Quiet =>
       \A n \in DOMAIN results :
         LET said == EntriesOf("result.reviewed", n) IN
         said # {} => results[n].review = log[CHOOSE k \in said : \A m \in said : m <= k].note

(* A comparison sorts the cases both runs have into four.  The change of   *)
(* the pass rates that the runs carry is that of the cases, if both        *)
(* completed on the same ones; and a comparison of costs that is called    *)
(* complete misses no price.                                               *)
ComparisonsAgree ==
  \A h \in {h \in Handler : compared[h] # Null} :
    LET c == compared[h]
        a == req[h].a
        b == req[h].b
        n == Cardinality(c.shared)
        improvement == Cardinality(c.improved) - Cardinality(c.regressed)
        Cases(id)   == {results[k].case : k \in ResultsOf(id)}
    IN
    /\ c.improved \cap c.regressed = {} /\ c.improved \cup c.regressed \subseteq c.shared
    /\ n = Cardinality(c.improved \cup c.regressed) + c.both_pass + c.both_fail
    /\ {runs[a].status, runs[b].status} = {"COMPLETED"} /\ Cases(a) = Cases(b) =>
         c.delta[1] * n = improvement * c.delta[2]
    /\ c.complete => \A k \in ResultsOf(a) \cup ResultsOf(b) : results[k].status # "UNPRICED"

Dead(id) == keys[id] = Null \/ keys[id].status # "ACTIVE"

(* A key that was revoked or deleted stays so, whatever requests it had    *)
(* admitted before write of it.  None of them stores a trace for a key     *)
(* that is deleted, and for a revoked one only if it came before.          *)
RevokedKeysAreDead ==
  [][/\ \A id \in DOMAIN keys : Dead(id) => Dead(id)'
     /\ Len(traces') > Len(traces) =>
          LET id == traces'[Len(traces')].key IN
          keys[id] # Null /\ (Dead(id) => overlap)]_<<keys, traces>>

Expired(at, days, executed) == Limited(days) /\ at + days < executed

(* What retention said it executed stays done: no trace and no entry that  *)
(* was in the tables then is over its term.                                *)
RetentionIsDone ==
  \A k \in {k \in Entries : log[k].event = "retention.executed"} :
    LET note == log[k].note IN
    /\ \A n \in Traces : n <= note.upto => ~ Expired(traces[n].at, note.days.traces, note.executed)
    /\ \A d \in Entries : d < k => ~ Expired(log[d].at, note.days.audit, note.executed)

(* The last entry, of the same commit, says why a trace that is lost is:   *)
(* its project or its agent was deleted, or retention found it too old.    *)
LossIsTold(trace, e) ==
  \/ e.event = "deleted" /\ e.about \in {<<"project", trace.project>>, <<"agent", trace.agent>>}
  \/ e.event = "retention.executed" /\ Expired(trace.at, e.note.days.traces, e.note.executed)

(* Nothing goes before its time or unseen, and nothing stays that retention *)
(* said was gone, though run_retention read its policy and its clock in an *)
(* earlier step than it deleted, while telemetry, decisions and deletions, *)
(* which delete what a session of theirs had loaded, came between.         *)
RecordsGoInTime ==
  [][LET e == log'[Len(log')] IN
     /\ RetentionIsDone'
     /\ \A n \in Traces : traces'[n] = Null => Len(log') = Len(log) + 1 /\ LossIsTold(traces[n], e)
     /\ \A d \in Entries : log'[d] = Null =>
          /\ Len(log') = Len(log) + 1 /\ e.event = "retention.executed"
          /\ Expired(log[d].at, e.note.days.audit, e.note.executed)]_<<traces, log>>
=============================================================================
