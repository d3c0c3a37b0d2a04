------------------------------ MODULE Evaluators ------------------------------
(***************************************************************************)
(* The assertions of services/evaluator: each judges the output of a model *)
(* on a case, with a verdict and a score, a fraction <<n, d>>.  An output  *)
(* is its fields, the words its text contains, and what it took.           *)
(***************************************************************************)
EXTENDS Handlers, Integers, FiniteSets, SequencesExt

Verdict(passed) == [passed |-> passed, score |-> IF passed THEN <<1, 1>> ELSE <<0, 1>>]

Part(good, all) == [passed |-> good = all, score |-> <<Cardinality(good), Cardinality(all)>>]

FieldOf(data, name) == IF name \in DOMAIN data THEN data[name] ELSE Null

ExactMatch(cfg, case, out) ==
  IF case.expected = Null THEN Verdict(TRUE)
  ELSE IF "fields" \in DOMAIN cfg
  THEN Part({f \in cfg.fields : FieldOf(case.expected, f) = FieldOf(out.output, f)}, cfg.fields)
  ELSE Verdict(DOMAIN case.expected = DOMAIN out.output
               /\ \A f \in DOMAIN out.output : case.expected[f] = out.output[f])

JsonStructure(cfg, out) ==
  IF cfg.keys = {} THEN Verdict(TRUE) ELSE Part(cfg.keys \cap DOMAIN out.output, cfg.keys)

(* A tool that was not expected fails the case if strict, but not its score. *)
ExpectedTools(cfg, case, out) ==
  IF case.tools = {} THEN Verdict(TRUE)
  ELSE [passed |-> case.tools \subseteq out.tools
                   /\ (cfg.strict => out.tools \subseteq case.tools),
        score  |-> <<Cardinality(case.tools \cap out.tools), Cardinality(case.tools)>>]

(* A price that is not known exceeds every limit. *)
CostLimit(cfg, out) ==
  Verdict(out.status # "UNPRICED" /\ out.cost # Null /\ out.cost <= cfg.max)

Evaluate(cfg, case, out) ==
  CASE cfg.name = "exact_match"     -> ExactMatch(cfg, case, out)
    [] cfg.name = "word_presence"   -> Part(cfg.words \cap out.words, cfg.words)
    [] cfg.name = "json_structure"  -> JsonStructure(cfg, out)
    [] cfg.name = "expected_tools"  -> ExpectedTools(cfg, case, out)
    [] cfg.name = "cost_limit"      -> CostLimit(cfg, out)
    [] cfg.name = "latency_limit"   -> Verdict(out.latency <= cfg.max)
    [] cfg.name = "required_source" -> Verdict(cfg.words \cap out.words # {})

(* The list or the limit that an evaluator does not do without. *)
Needed == [word_presence |-> "words", required_source |-> "words", json_structure |-> "keys",
           cost_limit |-> "max", latency_limit |-> "max"]

(* validate_evaluator_configs: lists of words and fields are not empty, and *)
(* limits not negative.                                                    *)
ValidConfig(cfg) ==
  /\ cfg.name \in DOMAIN Needed \cup {"exact_match", "expected_tools"}
  /\ cfg.name \in DOMAIN Needed => Needed[cfg.name] \in DOMAIN cfg
  /\ {} \notin {cfg[f] : f \in DOMAIN cfg \cap {"fields", "words"}}
  /\ "max" \in DOMAIN cfg => cfg.max >= 0

Plus(a, b) == <<a[1] * b[2] + b[1] * a[2], a[2] * b[2]>>

Mean(fractions) ==
  LET sum == FoldLeft(Plus, <<0, 1>>, fractions) IN <<sum[1], sum[2] * Len(fractions)>>

RunEvaluators(configs, case, out) ==
  LET verdicts == [k \in DOMAIN configs |-> Evaluate(configs[k], case, out)] IN
  IF configs = << >> THEN Verdict(TRUE)
  ELSE [passed |-> \A k \in DOMAIN configs : verdicts[k].passed,
        score  |-> Mean([k \in DOMAIN configs |-> verdicts[k].score])]
=============================================================================
