---------------------------- MODULE MCApprovals ----------------------------
(* A small instance of Approvals: one trace of one agent with two spans, a *)
(* tool that needs approval, and requests for one approval that compete.   *)
EXTENDS Approvals, TLC

CONSTANTS t1, s1, s2, r1, h1, h2, h3, ann

MCTrace     == {t1}
MCSpan      == {s1, s2}
MCSpanTrace == [s \in MCSpan |-> t1]
MCTool      == {"wire", "mail", ""}
MCHost      == <<"api", "bank", "com">>
MCTarget    == {[host |-> MCHost, path |-> "/pay", secret |-> TRUE]}
MCContext   == {"amount"}

Open ==
  [blockedTools |-> {}, allowedTools |-> {}, approvalTools |-> {},
   blockedDomains |-> {}, allowedDomains |-> {}, maxTokens |-> Unlimited,
   maxCost |-> Unlimited, masks |-> FALSE]

NeedsApproval == [Open EXCEPT !.approvalTools = {"wire"}, !.maxTokens = 1]
BlocksDomain  == [NeedsApproval EXCEPT !.blockedDomains = {<<"bank", "com">>}, !.masks = TRUE]

MCPolicyChoice == {NeedsApproval, BlocksDomain, NoPolicy}

Check(r, s, tool, target, context) ==
  [op |-> "check", rid |-> r, trace |-> t1, span |-> s, tool |-> tool,
   target |-> target, context |-> context]

Record(r, s, tool, status) ==
  [op |-> "record", rid |-> r, span |-> s, tool |-> tool, target |-> NoTarget,
   status |-> status]

MCRequests ==
  {Check(r1, s1, "wire", u, "amount") : u \in MCTarget}
  \cup {Check(r1, Null, "mail", NoTarget, Null)}
  \cup {Record(r1, s, "wire", "SUCCESS") : s \in MCSpan}
  \cup {Record(Null, s1, "wire", "ERROR"), Record(r1, s1, "mail", "SUCCESS"),
        Record(r1, s1, "wire", "BLOCKED"), Record(Null, Null, "mail", "SUCCESS")}

MCModelCall == {[tokens |-> 2, cost |-> 1, priced |-> TRUE]}

Interchangeable == Permutations({h1, h2, h3})
=============================================================================
