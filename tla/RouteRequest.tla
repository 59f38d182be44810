------------------------------ MODULE RouteRequest -------------------------------
(* One POST /route call from its headers to its answer: the correlation and the     *)
(* admission middleware, the parser, the handler, and the exception handlers, with  *)
(* what each counts.  The stages of the authorization and its evidence are          *)
(* ViolationEvidence's; the bytes of the body are BodyAdmission's.                  *)
EXTENDS ViolationEvidence

VARIABLES
    api_key,    \* missing, wrong, right, or not of ASCII characters
    configured, \* API_KEYS has a key for the agent
    at,         \* where the call is, up to the authorization
    echo,       \* the X-Correlation-Id of the answer
    counted     \* the metrics incremented for the call

outer == <<api_key, configured, at, echo>>
callVars == <<evidenceVars, outer, counted>>

Places == {"arrived", "admitted", "delivered", "handled", "throttled", "authenticated"}
Labels == {"per_ip_allowed", "per_ip_blocked", "per_agent_allowed", "per_agent_blocked",
           "verified", "denied", "legacy_dev", "violation", "decision", "rejection",
           "duration"}

CallTypeOK ==
    /\ EvidenceTypeOK
    /\ api_key \in {"missing", "wrong", "right", "not_ascii"}
    /\ configured \in BOOLEAN
    /\ at \in Places
    /\ echo \in {"none", "plain", "edged", "blank", "generated"}
    /\ counted \subseteq Labels

CallInit ==
    /\ EvidenceInit
    /\ api_key \in {"missing", "wrong", "right", "not_ascii"}
    /\ configured \in BOOLEAN
    /\ at = "arrived"
    /\ echo = "none"
    /\ counted = {}

Count(labels) == counted' = counted \cup labels

-------------------------------------------------------------------------------
(* From the socket to the authorization.                                            *)

inner == <<call, stage, stateVerified, stateGroup, denial, event>>

(* An answer of a handler or of the middleware passes through _bind_correlation_id. *)
Answer(status) ==
    /\ answer' = status
    /\ echo' = CorrelationId
    /\ UNCHANGED <<inner, api_key, configured, at>>

(* An exception nobody handles is answered outside of it.                           *)
Crash ==
    /\ answer' = 500
    /\ UNCHANGED <<inner, outer>>

Proceed(place) ==
    /\ at' = place
    /\ UNCHANGED <<inner, answer, api_key, configured, echo>>

ThrottleIp ==
    /\ answer = 0 /\ at = "arrived"
    /\ \/ Count({"per_ip_allowed"}) /\ Proceed("admitted")
       \/ Count({"per_ip_blocked"}) /\ Answer(429)

(* The declared length, then the bytes; an upload cut short fails in the parser.    *)
AdmitBody ==
    /\ answer = 0 /\ at = "admitted"
    /\ Proceed("delivered") \/ Answer(400) \/ Answer(413)
    /\ UNCHANGED counted

(* The body is one of two closed shapes, or the call is refused; to_domain_request  *)
(* and the state for the exception handler follow.                                  *)
ParseBody ==
    /\ answer = 0 /\ at = "delivered"
    /\ Proceed("handled") \/ Answer(422)
    /\ UNCHANGED counted

(* Definitions named Slip_... are faults the code does not have: each is the next   *)
(* definition of the code with one plausible mistake, and substituting it must      *)
(* break a property.                                                                *)

(* The limiter is asked once the key has been seen to be good.                      *)
Slip_AuthenticateFirst ==
    /\ answer = 0 /\ at = "handled"
    /\ \/ api_key = "right" /\ configured /\ (\/ Count({"per_agent_allowed"}) /\ Proceed("throttled")
                                              \/ Count({"per_agent_blocked"}) /\ Answer(429))
       \/ ~(api_key = "right" /\ configured) /\ Answer(401) /\ UNCHANGED counted

ThrottleAgent ==
    /\ answer = 0 /\ at = "handled"
    /\ \/ Count({"per_agent_allowed"}) /\ Proceed("throttled")
       \/ Count({"per_agent_blocked"}) /\ Answer(429)

(* secrets.compare_digest raises a TypeError on strings outside of ASCII.           *)
_authenticate ==
    /\ answer = 0 /\ at = "throttled"
    /\ CASE configured /\ api_key = "right"     -> Proceed("authenticated")
         [] configured /\ api_key = "not_ascii" -> Crash
         [] OTHER                               -> Answer(401)
    /\ UNCHANGED counted

-------------------------------------------------------------------------------
(* From the authorization to the answer.                                            *)

Authenticated == at = "authenticated"
Stay == UNCHANGED <<api_key, configured, at>>
EchoIfAnswered == echo' = IF answer' = 0 THEN echo ELSE CorrelationId

PassStage ==
    /\ Authenticated /\ Pass
    /\ Count(IF stateVerified' # stateVerified THEN {"verified"} ELSE {})
    /\ UNCHANGED outer

Deny403 ==
    /\ Authenticated /\ (RefuseUnconfigured \/ Raise)
    /\ UNCHANGED <<outer, counted>>

(* Counted when an authorization is not required and none came.                     *)
Legacy == IF required THEN {} ELSE {"legacy_dev"}

Refuse ==
    /\ Authenticated /\ RefuseRouting
    /\ Count(Legacy \cup {"rejection", "duration"})
    /\ EchoIfAnswered /\ Stay

(* The decision is counted before the group has been checked.                       *)
Slip_CountBeforeScope ==
    /\ Authenticated /\ SelectGroup
    /\ Count(Legacy \cup {"duration", "decision"})
    /\ EchoIfAnswered /\ Stay

Select ==
    /\ Authenticated /\ SelectGroup
    /\ Count(Legacy \cup {"duration"} \cup IF answer' = 200 THEN {"decision"} ELSE {})
    /\ EchoIfAnswered /\ Stay

Conclude ==
    /\ Authenticated /\ Authorize
    /\ Count({"decision"})
    /\ EchoIfAnswered /\ Stay

(* _handle_runtime_authorization_error: an event that does not validate raises in   *)
(* the handler itself.                                                              *)
Handle ==
    /\ Authenticated /\ Report
    /\ Count({"denied"} \cup IF answer' = 403 THEN {"violation"} ELSE {})
    /\ echo' = IF answer' = 403 THEN CorrelationId ELSE echo
    /\ Stay

Answered == answer # 0 /\ UNCHANGED callVars

CallNext ==
    \/ ThrottleIp \/ AdmitBody \/ ParseBody \/ ThrottleAgent \/ _authenticate
    \/ PassStage \/ Deny403 \/ Refuse \/ Select \/ Conclude \/ Handle
    \/ Answered

CallSpec == CallInit /\ [][CallNext]_callVars

-------------------------------------------------------------------------------
(* Properties.                                                                      *)

(* Nothing about an authorization or a route is done, told or counted before both   *)
(* limiters admitted the call, and nothing but a 401 or a crash is met by a caller  *)
(* without the agent's key; a refused key has been counted by both tiers too        *)
(* (docstring of entrypoints/http.py).                                              *)
ThrottledThenAuthenticated ==
    /\ answer \in {401, 500} => {"per_ip_allowed", "per_agent_allowed"} \subseteq counted
    /\ \/ stage > 1 \/ denial # NoDenial \/ answer \in {200, 403}
       \/ counted \cap {"rejection", "duration", "legacy_dev", "decision"} # {}
       => /\ {"per_ip_allowed", "per_agent_allowed"} \subseteq counted
          /\ configured /\ api_key = "right"

(* Every answer that does not come of an exception nobody handles carries the id    *)
(* of the call, the caller's header if it was usable, and the event of a denial     *)
(* carries the same id, less the blanks that the contract takes off its edges.      *)
EvidenceJoinsAnswer ==
    answer # 0 =>
        /\ echo = (IF answer = 500 /\ echo = "none" THEN "none" ELSE CorrelationId)
        /\ event # NoEvent => event.id = strip(echo)

(* The metrics tell the answers apart: each call that was decided, rejected, denied *)
(* or blocked is counted as that, and as nothing else.                              *)
MetricsMatchAnswer ==
    answer # 0 =>
        /\ answer = 200 <=> "decision" \in counted
        /\ answer = 429 <=> counted \cap {"per_ip_blocked", "per_agent_blocked"} # {}
        /\ answer = 403 <=> "violation" \in counted
        /\ denial # NoDenial <=> "denied" \in counted
        /\ "rejection" \in counted => counted \cap {"decision", "denied", "violation"} = {}
        /\ "verified" \in counted => "legacy_dev" \notin counted
===============================================================================
