----------------------------- MODULE RoutingRules -----------------------------
(* The routing policy as the loader accepts it and the eliminatory constraints   *)
(* of domain/constraints.py, as pure operators.                                  *)
(* A document is [groups, profile, staged, rule]: the declared model groups,     *)
(* their profiles, the staged ones, and the rule of each declared workload.      *)
(* Costs are in micro-dollars and rates in micro-dollars per token, which the    *)
(* Decimals of the code represent exactly.                                       *)
EXTENDS Integers, Sequences

Targets(doc) == {doc.rule[w].group : w \in DOMAIN doc.rule}

(* Definitions named Slip_... are faults the code does not have: each is the     *)
(* next definition of the code with one plausible mistake, and substituting it   *)
(* must break a property.                                                        *)

(* References are not checked.                                                   *)
Slip_DanglingReference(doc) ==
    /\ doc.groups # {} /\ DOMAIN doc.rule # {}
    /\ doc.groups \ Targets(doc) \subseteq doc.staged

(* _RoutingPolicyConfig: non-empty catalogs and _require_referential_integrity.  *)
Accepted(doc) ==
    /\ doc.groups # {} /\ DOMAIN doc.rule # {}
    /\ Targets(doc) \subseteq doc.groups
    /\ doc.groups \ Targets(doc) \subseteq doc.staged

-------------------------------------------------------------------------------
(* CONSTRAINTS, in the order of the tuple.                                       *)
Constraints ==
    <<"data_classification_not_authorized", "risk_level_not_authorized",
      "structured_output_unsupported", "tool_calling_unsupported",
      "context_window_exceeded", "cost_ceiling_exceeded", "latency_ceiling_exceeded",
      "model_group_unavailable", "agent_not_allowed">>

EstimatedCost(request, profile) ==
    request.input * profile.inputRate + request.output * profile.outputRate

(* Whether the constraint with this reason code rejects the profile.             *)
Rejects(code, request, profile, rule) ==
    CASE code = "data_classification_not_authorized" -> request.class \notin profile.classes
      [] code = "risk_level_not_authorized"          -> request.risk \notin profile.risks
      [] code = "structured_output_unsupported"      -> request.structured /\ ~profile.structured
      [] code = "tool_calling_unsupported"           -> rule.tools /\ ~profile.tools
      [] code = "context_window_exceeded"            -> request.input + request.output > profile.window
      [] code = "cost_ceiling_exceeded"              -> EstimatedCost(request, profile) > request.cost
      [] code = "latency_ceiling_exceeded"           -> profile.latency > request.latency
      [] code = "model_group_unavailable"            -> ~profile.available
      [] code = "agent_not_allowed"                  -> profile.agents # {} /\ request.agent \notin profile.agents

Failures(request, profile, rule) ==
    {i \in 1..Len(Constraints) : Rejects(Constraints[i], request, profile, rule)}

(* The loop stops at the first constraint that fails.                            *)
FirstFailure(request, profile, rule) ==
    LET failures == Failures(request, profile, rule)
    IN IF failures = {} THEN "none"
       ELSE Constraints[CHOOSE i \in failures : \A j \in failures : i <= j]
===============================================================================
