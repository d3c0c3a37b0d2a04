----------------------------- MODULE MCToolRun -----------------------------
(* A small instance of ToolRun: one invocation of a tool that may need     *)
(* approval, each HTTP request of it tried at most twice.                  *)
EXTENDS ToolRun, TLC

CONSTANTS t1, s1, r1, run1

MCTrace     == {t1}
MCSpan      == {s1}
MCSpanTrace == [s \in MCSpan |-> t1]
MCTool      == {"wire", ""}
MCTarget    == {[host |-> <<"bank", "com">>, path |-> "/pay", secret |-> TRUE]}

NeedsApproval ==
  [blockedTools |-> {}, allowedTools |-> {}, approvalTools |-> {"wire"},
   blockedDomains |-> {}, allowedDomains |-> {}, maxTokens |-> Unlimited,
   maxCost |-> Unlimited, masks |-> FALSE]

Blocks == [NeedsApproval EXCEPT !.blockedTools = {"wire"}]

MCPolicyChoice == {NeedsApproval, Blocks, NoPolicy}

MCBody ==
  [c \in {run1} |->
    [op |-> "check", rid |-> r1, trace |-> t1, span |-> s1, tool |-> "wire",
     target |-> CHOOSE u \in MCTarget : TRUE, context |-> Null]]

(* The organisation starts out with the policy that asks for approval.     *)
AskingSpec == RunSpec /\ policy = NeedsApproval

MCRid == [c \in {run1} |-> r1]

MCRequests == {MCBody[run1]} \cup Reports(run1)

MCHandler == 1 .. Slot
=============================================================================
