------------------------------- MODULE Policy -------------------------------
(***************************************************************************)
(* The deterministic decisions of backend/app/services/policy.py: what an  *)
(* agent policy says of a tool, of a target domain and of the usage of a   *)
(* trace, and the preflight that ranks the three.  The module has no       *)
(* state: check-tool, the revalidation of an approved execution and the    *)
(* findings of telemetry all use these operators.                          *)
(*                                                                         *)
(* Names of tools are taken after strip().lower(), which every comparison  *)
(* of the code applies to both sides.  A host is the sequence of its       *)
(* labels, <<"api", "example", "com">>.                                    *)
(***************************************************************************)
EXTENDS Integers, Sequences

CONSTANTS
  Tool,        (* canonical tool names                                      *)
  BlankTool,   (* the name that is empty once stripped; in no policy list   *)
  NoPolicy,    (* no active policy applies to the agent of the trace        *)
  NoTarget,    (* the request names no target URL                           *)
  Malformed,   (* the host of a target URL or of a rule that does not parse *)
  Unlimited    (* a limit column that is NULL                               *)

Decision == {"ALLOW", "BLOCK", "REQUIRE_APPROVAL"}

Reason ==
  { "NO_ACTIVE_POLICY", "INVALID_TOOL_NAME", "TOOL_BLOCKED", "TOOL_NOT_ALLOWED",
    "TOOL_REQUIRES_APPROVAL", "POLICY_ALLOWED", "INVALID_TARGET_URL",
    "DOMAIN_BLOCKED", "DOMAIN_NOT_ALLOWED", "DOMAIN_ALLOWED", "DOMAIN_NOT_CHECKED",
    "TRACE_TOKEN_LIMIT_EXCEEDED", "TRACE_COST_LIMIT_EXCEEDED" }

(* Model usage of a trace: tokens, priced cost, and calls without a price. *)
Usage == [tokens : Nat, cost : Nat, unpriced : Nat]

NoUsage == [tokens |-> 0, cost |-> 0, unpriced |-> 0]

Outcome(decision, reason) == [decision |-> decision, reason |-> reason]

-----------------------------------------------------------------------------
(* Tools *)

EvaluateTool(policy, tool) ==
  IF policy = NoPolicy                              THEN Outcome("ALLOW", "NO_ACTIVE_POLICY")
  ELSE IF tool = BlankTool                          THEN Outcome("BLOCK", "INVALID_TOOL_NAME")
  ELSE IF tool \in policy.blockedTools              THEN Outcome("BLOCK", "TOOL_BLOCKED")
  ELSE IF policy.allowedTools # {} /\ tool \notin policy.allowedTools
                                                    THEN Outcome("BLOCK", "TOOL_NOT_ALLOWED")
  ELSE IF tool \in policy.approvalTools             THEN Outcome("REQUIRE_APPROVAL", "TOOL_REQUIRES_APPROVAL")
  ELSE Outcome("ALLOW", "POLICY_ALLOWED")

-----------------------------------------------------------------------------
(* Domains *)

(* _domain: one leading "www" is dropped, unless it is the whole host. *)
Canonical(host) ==
  IF host # Malformed /\ Len(host) > 1 /\ host[1] = "www" THEN Tail(host) ELSE host

(* The host itself, or one of its subdomains. *)
DomainMatches(host, rule) ==
  LET r == Canonical(rule) IN
  /\ rule # Malformed
  /\ Len(r) <= Len(host)
  /\ SubSeq(host, Len(host) - Len(r) + 1, Len(host)) = r

EvaluateDomain(policy, target) ==
  IF policy = NoPolicy \/ target = NoTarget         THEN Outcome("ALLOW", "DOMAIN_NOT_CHECKED")
  ELSE IF target.host = Malformed                   THEN Outcome("BLOCK", "INVALID_TARGET_URL")
  ELSE LET host == Canonical(target.host) IN
       IF \E r \in policy.blockedDomains : DomainMatches(host, r)
                                                    THEN Outcome("BLOCK", "DOMAIN_BLOCKED")
       ELSE IF policy.allowedDomains # {} /\ ~ \E r \in policy.allowedDomains : DomainMatches(host, r)
                                                    THEN Outcome("BLOCK", "DOMAIN_NOT_ALLOWED")
       ELSE Outcome("ALLOW", "DOMAIN_ALLOWED")

(* Bug variant of SanitizeTarget: query and user information are kept.     *)
SanitizeTargetHost(target) ==
  IF target = NoTarget \/ target.host = Malformed THEN NoTarget
  ELSE [target EXCEPT !.host = Canonical(target.host)]

(* What a reviewer is shown and an approval stores: no user information,   *)
(* query or fragment, and nothing at all of a URL that does not parse.     *)
SanitizeTarget(target) ==
  IF target = NoTarget \/ target.host = Malformed THEN NoTarget
  ELSE [host |-> Canonical(target.host), path |-> target.path, secret |-> FALSE]

-----------------------------------------------------------------------------
(* Usage limits of a trace *)

TokenState(policy, usage) ==
  IF policy = NoPolicy \/ policy.maxTokens = Unlimited THEN "NOT_CONFIGURED"
  ELSE IF usage.tokens > policy.maxTokens THEN "EXCEEDED" ELSE "OK"

(* The priced cost decides; calls without a price only make it unknown. *)
CostState(policy, usage) ==
  IF policy = NoPolicy \/ policy.maxCost = Unlimited THEN "NOT_CONFIGURED"
  ELSE IF usage.cost > policy.maxCost THEN "EXCEEDED"
  ELSE IF usage.unpriced > 0 THEN "UNKNOWN" ELSE "OK"

-----------------------------------------------------------------------------
(* evaluate_tool_preflight: any block wins, then approval, then allow. *)
Preflight(policy, usage, tool, target) ==
  LET byTool   == EvaluateTool(policy, tool)
      byDomain == EvaluateDomain(policy, target)
  IN  IF byTool.decision = "BLOCK"                      THEN byTool
      ELSE IF byDomain.decision = "BLOCK"               THEN byDomain
      ELSE IF TokenState(policy, usage) = "EXCEEDED"    THEN Outcome("BLOCK", "TRACE_TOKEN_LIMIT_EXCEEDED")
      ELSE IF CostState(policy, usage) = "EXCEEDED"     THEN Outcome("BLOCK", "TRACE_COST_LIMIT_EXCEEDED")
      ELSE byTool

=============================================================================
