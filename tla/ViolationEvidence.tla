--------------------------- MODULE ViolationEvidence --------------------------
(* The evidence of one POST /route denial (ADR-0013): what the handler leaves on  *)
(* request.state as it advances, what the RuntimeAuthorizationError carries, and  *)
(* the RuntimeViolationEvent that _handle_runtime_authorization_error builds of   *)
(* both.  The event validates itself: one it refuses is a 500 answer and no       *)
(* evidence.                                                                      *)
EXTENDS Integers, Sequences

CONSTANTS
    Identifiers, \* kinds of workflow_id, task_id and agent_name: "plain", "blank"
    Correlations, \* kinds of X-Correlation-Id: "absent", "oversized", "plain", "edged"
                  \* (with a blank at an edge that the HTTP parser keeps), "blank"
    GroupLengths \* lengths of the model groups the policy declares

(* PolicyIdentifier admits 128 characters.                                        *)
ASSUME EvidenceAssumption ==
    /\ Identifiers \subseteq {"plain", "blank"}
    /\ Correlations \subseteq {"absent", "oversized", "plain", "edged", "blank"}
    /\ GroupLengths \subseteq 1..128

(* The steps of the handler and of verify that raise a RuntimeAuthorizationError, *)
(* in order, and the codes each may carry.                                        *)
Stages == <<"envelope", "identity", "key", "signature", "binding", "provenance",
            "control", "consume", "model">>
Codes(stage) ==
    CASE stage = "envelope"   -> {"runtime_authorization_required"}
      [] stage = "identity"   -> {"issuer_mismatch", "audience_mismatch", "issued_in_future",
                                  "not_yet_valid", "expired"}
      [] stage = "key"        -> {"unknown_key", "key_revoked", "key_not_valid_for_issue_time",
                                  "key_verification_window_closed"}
      [] stage = "signature"  -> {"invalid_signature"}
      [] stage = "binding"    -> {"request_cost_precision_unsupported",
                                  "request_binding_mismatch", "agent_binding_mismatch"}
      [] stage = "provenance" -> {"governance_policy_mismatch"}
      [] stage = "control"    -> {"runtime_control_unavailable", "kill_switch_engaged",
                                  "runtime_authorization_revoked"}
      [] stage = "consume"    -> {"replay_detected", "replay_store_full",
                                  "replay_store_unavailable"}
      [] stage = "model"      -> {"selected_model_group_not_authorized",
                                  "selected_model_data_class_not_authorized"}
AllCodes == UNION {Codes(Stages[i]) : i \in 1..Len(Stages)}

VARIABLES
    required,   \* RUNTIME_AUTHORIZATION_REQUIRED
    present,    \* the body carries an authorization
    identifier, \* kind of the request's identifiers
    correlation, \* kind of the correlation header
    group,      \* length of the group the policy maps the workload to
    stage,      \* the stage reached; beyond the last one the call is routed
    stateVerified, \* runtime_violation_authorization_verified
    stateGroup, \* runtime_violation_selected_model_group is set
    denial,     \* [code, verified] of the RuntimeAuthorizationError raised
    answer,     \* 0, or the HTTP status
    event       \* [category, state, group, id] of the envelope returned

call == <<required, present, identifier, correlation, group>>
evidenceVars == <<call, stage, stateVerified, stateGroup, denial, answer, event>>

Categories == {"authorization", "replay", "request_binding", "governance_provenance",
               "model_scope"}
NoDenial == [code |-> "none", verified |-> FALSE]
NoEvent == [category |-> "none", state |-> "none", group |-> FALSE, id |-> "none"]

EvidenceTypeOK ==
    /\ required \in BOOLEAN /\ present \in BOOLEAN
    /\ identifier \in Identifiers /\ correlation \in Correlations
    /\ group \in GroupLengths
    /\ stage \in 1..Len(Stages) + 1
    /\ stateVerified \in BOOLEAN /\ stateGroup \in BOOLEAN
    /\ denial.code \in AllCodes \cup {"none", "runtime_authorization_not_configured"}
    /\ answer \in {0, 200, 400, 401, 403, 413, 422, 429, 500}
    /\ event \in [category : Categories \cup {"none"}, group : BOOLEAN,
                  state : {"none", "absent", "present", "verified"},
                  id : {"none", "plain", "stripped", "generated", "unbound-request"}]
    /\ (answer = 403) = (event # NoEvent)

EvidenceInit ==
    /\ required \in BOOLEAN /\ present \in BOOLEAN
    /\ identifier \in Identifiers /\ correlation \in Correlations
    /\ group \in GroupLengths
    /\ stage = 1
    /\ stateVerified = FALSE /\ stateGroup = FALSE
    /\ denial = NoDenial
    /\ answer = 0
    /\ event = NoEvent

-------------------------------------------------------------------------------
(* route and verify.                                                              *)

Running == answer = 0 /\ denial = NoDenial

Deny(code, verified) ==
    /\ denial' = [code |-> code, verified |-> verified]
    /\ UNCHANGED <<call, stage, stateVerified, stateGroup, answer, event>>

(* An authorization in a deployment that has authorization disabled.              *)
RefuseUnconfigured ==
    /\ Running /\ stage = 1 /\ ~required /\ present
    /\ Deny("runtime_authorization_not_configured", FALSE)

(* Only the control denial is raised with authorization_verified=True.  Blank     *)
(* identifiers never equal those that were signed, so they do not pass binding.   *)
Raise ==
    /\ Running /\ required
    /\ stage <= Len(Stages)
    /\ Stages[stage] = "envelope" <=> ~present
    /\ Stages[stage] = "model" => stateGroup
    /\ \E code \in Codes(Stages[stage]) : Deny(code, Stages[stage] = "control")

(* A stage passes; after consume verify returns and the handler sets the flag.    *)
Pass ==
    /\ Running /\ required /\ present
    /\ stage < Len(Stages)
    /\ Stages[stage] = "binding" => identifier = "plain"
    /\ stage' = stage + 1
    /\ stateVerified' = (stateVerified \/ Stages[stage] = "consume")
    /\ UNCHANGED <<call, stateGroup, denial, answer, event>>

AtRouting ==
    \/ required /\ present /\ stage = Len(Stages)
    \/ ~required /\ ~present /\ stage = 1

(* use_case.route refuses: 422 or 500, which is no authorization denial.          *)
RefuseRouting ==
    /\ Running /\ AtRouting /\ ~stateGroup
    /\ answer' \in {422, 500}
    /\ UNCHANGED <<call, stage, stateVerified, stateGroup, denial, event>>

(* The decision is made; the group is noted before it is checked.                 *)
SelectGroup ==
    /\ Running /\ AtRouting /\ ~stateGroup
    /\ IF required
       THEN stateGroup' = TRUE /\ UNCHANGED <<stage, answer>>
       ELSE answer' = 200 /\ UNCHANGED <<stage, stateGroup>>
    /\ UNCHANGED <<call, stateVerified, denial, event>>

(* require_selected_model: Governance can sign groups of 2 to 100 characters.     *)
Authorize ==
    /\ Running /\ AtRouting /\ stateGroup
    /\ group \in 2..100
    /\ stage' = stage + 1
    /\ answer' = 200
    /\ UNCHANGED <<call, stateVerified, stateGroup, denial, event>>

-------------------------------------------------------------------------------
(* The exception handler.                                                         *)

(* Definitions named Slip_... are faults the code does not have: each is the      *)
(* next definition of the code with one plausible mistake, and substituting it    *)
(* must break a property.                                                         *)

(* Model-scope codes left to the default category.                                *)
Slip_ModelUnlisted(code) ==
    CASE code \in Codes("consume")     -> "replay"
      [] code \in Codes("binding")     -> "request_binding"
      [] code \in Codes("provenance")  -> "governance_provenance"
      [] OTHER                         -> "authorization"

violation_category(code) ==
    CASE code \in Codes("consume")     -> "replay"
      [] code \in Codes("binding")     -> "request_binding"
      [] code \in Codes("provenance")  -> "governance_provenance"
      [] code \in Codes("model")       -> "model_scope"
      [] OTHER                         -> "authorization"

(* _bind_correlation_id: the caller's header as it came, or an id generated; a    *)
(* blank header is not empty.                                                     *)
CorrelationId ==
    IF correlation \in {"plain", "edged", "blank"} THEN correlation ELSE "generated"

(* str_strip_whitespace of the contract: blanks of Unicode, U+00A0 among them, go *)
(* from both edges.                                                               *)
strip(id) ==
    CASE id = "edged" -> "stripped"
      [] id = "blank" -> "empty"
      [] OTHER        -> id

(* The id is looked up where the middleware does not leave it.                    *)
Slip_UnboundEvent ==
    [category |-> violation_category(denial.code),
     state |-> IF ~present THEN "absent"
               ELSE IF stateVerified \/ denial.verified THEN "verified" ELSE "present",
     group |-> stateGroup,
     id |-> "unbound-request"]

Event ==
    [category |-> violation_category(denial.code),
     state |-> IF ~present THEN "absent"
               ELSE IF stateVerified \/ denial.verified THEN "verified" ELSE "present",
     group |-> stateGroup,
     id |-> strip(CorrelationId)]

(* The validators of the contract, after str_strip_whitespace.                    *)
Valid(e) ==
    /\ identifier = "plain" /\ e.id # "empty"
    /\ e.group => group <= 100
    /\ e.category # "authorization" => e.state # "absent"
    /\ IF e.category = "model_scope"
       THEN e.state = "verified" /\ e.group
       ELSE ~e.group

Report ==
    /\ answer = 0 /\ denial # NoDenial
    /\ IF Valid(Event)
       THEN answer' = 403 /\ event' = Event
       ELSE answer' = 500 /\ UNCHANGED event
    /\ UNCHANGED <<call, stage, stateVerified, stateGroup, denial>>

Closed == answer # 0 /\ UNCHANGED evidenceVars

EvidenceNext ==
    \/ RefuseUnconfigured \/ Raise \/ Pass
    \/ RefuseRouting \/ SelectGroup \/ Authorize
    \/ Report
    \/ Closed

EvidenceSpec == EvidenceInit /\ [][EvidenceNext]_evidenceVars

-------------------------------------------------------------------------------
(* Properties.                                                                    *)

(* With no blank identifier and groups of at most 100 characters, the flags and    *)
(* the group that the handler leaves behind always agree with the validators of   *)
(* the event: no denial loses its evidence to the contract's cross-field checks.  *)
DenialIsEnveloped ==
    denial # NoDenial /\ answer # 0 => answer = 403

-------------------------------------------------------------------------------
(* docs/adr/0013: "Every RuntimeAuthorizationError on /route returns a versioned  *)
(* RuntimeViolationEnvelope".                                                     *)
EveryDenialHasEnvelope ==
    denial # NoDenial /\ answer # 0 => event # NoEvent
===============================================================================
