----------------------------- MODULE MCGovernance -----------------------------
(* One organisation with two projects, an agent in each and one elsewhere, *)
(* and an environment.  A behaviour takes its requests from one of eight   *)
(* workloads.                                                              *)
EXTENDS Governance

CONSTANTS ours, theirs, m1, mail, handle, t1, t2, h1, h2, h3

Stored(parent, slug) ==
  [parent |-> parent, slug |-> slug, title |-> "old", version |-> <<0, 1, 0>>, status |-> "ACTIVE"]

MCName == {"a", "b", "c", "bot", "prod", "test", "old", "new"}

pA == 1
pB == 2
pX == 3

aA == 1
aB == 2
aX == 3

MCCatalog ==
  [project     |-> << Stored(ours, "a"), Stored(ours, "b"), Stored(theirs, "a") >>,
   agent       |-> << Stored(pA, "bot"), Stored(pB, "bot"), Stored(pX, "bot") >>,
   environment |-> << Stored(pA, "prod") >>]

Window(scope, from, to, price) ==
  [scope |-> scope, model |-> m1, from |-> from, to |-> to, active |-> TRUE, price |-> price]

MCPricing == << Window("global", 0, Null, 5), Window("org", 0, 1, 3) >>

MCDatasets == << [project |-> pA] >>

MCCases == << [dataset |-> 1, expected |-> ("k" :> 1), tools |-> {"search"}],
              [dataset |-> 1, expected |-> Null, tools |-> {}] >>

Output(value, tools, cost, tokens) ==
  [kind |-> "output", output |-> ("k" :> value), words |-> {"yes"}, tools |-> tools,
   latency |-> 1, cost |-> cost, tokens |-> tokens]

MCAnswers ==
  [mock   |-> { Output(1, {"search"}, 1, Null), Output(0, {"search", "mail"}, 1, Null),
                [kind |-> "error"] },
   openai |-> { Output(1, {}, Null, 2), Output(0, {}, Null, Null), [kind |-> "fatal"] }]

MCTraces == << [id |-> t1, key |-> 1, project |-> pA, agent |-> aA, environment |-> 1,
                subject |-> mail, at |-> 0, stored |-> 0] >>

MCPolicy == [traces |-> 0, audit |-> 1]

MCKeys ==
  << [project |-> pA, status |-> "ACTIVE", expires |-> Null, used |-> Null],
     [project |-> Null, status |-> "ACTIVE", expires |-> 1, used |-> Null] >>

-----------------------------------------------------------------------------
Price(from, to, active) ==
  [op |-> "price", model |-> m1, from |-> from, to |-> to, active |-> active, price |-> 4]

Reprice(row, fields) == [op |-> "reprice", row |-> row, set |-> fields]

Prices ==
  { Price(1, Null, TRUE), Price(0, 3, TRUE), Price(2, 2, TRUE), Price(1, 2, FALSE),
    Reprice(1, "price" :> 1), Reprice(2, "to" :> 3), Reprice(2, "from" :> 1),
    Reprice(3, "active" :> TRUE) }

Run(dataset, agent, provider, model, consent, evaluators) ==
  [op |-> "run", dataset |-> dataset, agent |-> agent, provider |-> provider, model |-> model,
   consent |-> consent, evaluators |-> evaluators]

Judges ==
  << [name |-> "exact_match", fields |-> {"k", "l"}], [name |-> "word_presence", words |-> {"yes"}],
     [name |-> "json_structure", keys |-> {"k"}], [name |-> "expected_tools", strict |-> TRUE],
     [name |-> "cost_limit", max |-> 6], [name |-> "latency_limit", max |-> 1],
     [name |-> "required_source", words |-> {"yes", "no"}] >>

MockRun == Run(1, aA, "mock", Null, FALSE, Null)

StrictRun == Run(1, Null, "mock", Null, FALSE, Judges)

OpenRun == Run(1, Null, "openai", m1, TRUE, << >>)

AddACase == [op |-> "case", dataset |-> 1, expected |-> Null, tools |-> {}]

Compare(a, b) == [op |-> "compare", a |-> a, b |-> b]

Comparisons == { MockRun, OpenRun, Compare(1, 2) }

Reviews ==
  { StrictRun, AddACase, [op |-> "review", result |-> 1, status |-> "approved"],
    [op |-> "review", result |-> 1, status |-> "rejected"],
    [op |-> "dataset", project |-> pB], [op |-> "dataset", project |-> pX],
    Run(1, aB, "mock", Null, FALSE, Null), Run(2, Null, "mock", Null, FALSE, Null) }

Bills ==
  { OpenRun, Run(1, Null, "openai", Null, TRUE, Null), Price(1, Null, TRUE), Reprice(2, "to" :> 3) }

(* A trace that started before it is sent. *)
Ingest(key, id, project, agent, subject) ==
  [op |-> "ingest", key |-> key, id |-> id, project |-> project, agent |-> agent,
   environment |-> IF agent = aA THEN 1 ELSE Null, subject |-> subject, at |-> 0]

Removed(kind, id, within) == [op |-> "drop", kind |-> kind, id |-> id, within |-> within]

SubjectRequests ==
  { Ingest(1, t2, Null, Null, mail), [op |-> "anonymize", subject |-> mail],
    [op |-> "anonymize", subject |-> Null], [op |-> "export", subject |-> mail],
    [op |-> "policy", fields |-> ("traces" :> 1)], [op |-> "policy", fields |-> ("audit" :> 0)],
    [op |-> "policy", fields |-> ("audit" :> -1)],
    [op |-> "retention"], Removed("agent", aA, Null),
    [op |-> "wish", type |-> "EXPORT", subject |-> mail],
    [op |-> "wish", type |-> "DELETE", subject |-> handle],
    [op |-> "progress", wish |-> 1, status |-> "COMPLETED"],
    [op |-> "progress", wish |-> 1, status |-> "PENDING"] }

KeyRequests ==
  { Ingest(1, t2, Null, Null, handle), Ingest(1, t2, pB, Null, handle), Ingest(1, t2, Null, aB, handle),
    Ingest(2, t2, pB, aB, handle), Ingest(2, t2, Null, Null, handle), Ingest(2, t1, Null, Null, handle),
    [op |-> "key", project |-> pX, expires |-> Null],
    [op |-> "revoke", key |-> 1], [op |-> "delete", key |-> 1] }

Removals ==
  { Removed("project", pA, Null), Removed("agent", aA, Null), Removed("environment", 1, pA),
    Ingest(1, t2, Null, aA, handle), Ingest(1, t2, pB, Null, handle), Ingest(2, t2, pA, aA, handle),
    [op |-> "key", project |-> pA, expires |-> Null], [op |-> "dataset", project |-> pA],
    [op |-> "delete", key |-> 1],
    MockRun, AddACase, [op |-> "review", result |-> 1, status |-> "approved"] }

Create(kind, parent, slug) ==
  [op |-> "create", kind |-> kind, parent |-> parent, slug |-> slug, title |-> "new"]

NewVersion(version) ==
  [op |-> "bump", kind |-> "agent", id |-> aA, within |-> Null, version |-> version]

NewStatus(status) ==
  [op |-> "status", kind |-> "agent", id |-> aA, within |-> Null, status |-> status]

Edit(kind, id, within, fields) ==
  [op |-> "edit", kind |-> kind, id |-> id, within |-> within, fields |-> fields]

Changes ==
  { NewVersion(Null), NewVersion(<<1, Null>>), NewStatus("PAUSED"), NewStatus("ACTIVE"),
    Create("project", ours, "c"), Create("agent", pB, "bot"), Create("environment", pA, "test"),
    Edit("environment", 1, pA, "slug" :> "test"), Edit("environment", 1, pB, "title" :> "new"),
    Edit("project", pA, Null, "title" :> "new"), Removed("project", pA, Null) }

Until(n, requests) == [requests |-> requests, until |-> n]

(* Time matters to prices, to retention and to keys that expire. *)
MCWorkloads ==
  { Until(3, Prices), Until(1, Comparisons), Until(1, Reviews), Until(3, Bills),
    Until(3, SubjectRequests), Until(3, KeyRequests), Until(1, Removals), Until(1, Changes) }

MCRequests == UNION {w.requests : w \in MCWorkloads}

Interchangeable == Permutations(Handler)
=============================================================================
