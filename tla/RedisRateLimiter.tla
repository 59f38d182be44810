--------------------------- MODULE RedisRateLimiter ---------------------------
(* RedisRateLimiter of adapters/redis_rate_limiter.py, shared by all replicas:  *)
(* each call of allow sends one EVAL of the counting script and waits for it.   *)
(* Redis runs a script atomically, at any time after it was sent, even when the *)
(* client has given up; the client may send it again by itself.                 *)
EXTENDS Integers, Sequences, FiniteSets

CONSTANTS
    Calls,       \* calls of allow, on any replica
    Keys,
    MaxRequests,
    Window,      \* window_ms, in ticks: max(1, round(window_seconds * 1000))
    MaxResends,  \* times the Redis client sends a command again by itself
    Strays,      \* counter values a key may be found with, without a TTL
    MaxTime      \* bound: the clock stops here

ASSUME RedisLimiterAssumption ==
    /\ MaxRequests \in Nat \ {0}
    /\ Window \in Nat \ {0}
    /\ MaxResends \in Nat /\ MaxTime \in Nat
    /\ Strays \subseteq Nat \ {0}

None == -1   \* no TTL

VARIABLES
    time,
    counter,  \* counter[k]: the Redis value, 0 when the key is absent
    expiry,   \* expiry[k]: when Redis deletes it, None without a TTL
    phase,    \* phase[c]: idle, waiting, or done
    key,      \* key[c]: the key the call is about
    sends,    \* sends[c]: commands the client sent again
    pending,  \* <<c, n>>: attempt n of call c, sent and not executed
    reply,    \* reply[c]: the count Redis returned, None until then
    answer,   \* answer[c]: what allow returned
    log,      \* history: every execution of the script, as in FixedWindow
    stray     \* history: the keys found with a count and no TTL

vars == <<time, counter, expiry, phase, key, sends, pending, reply, answer, log, stray>>
redis == <<counter, expiry, log, stray>>

TypeOK ==
    /\ time \in 0..MaxTime
    /\ counter \in [Keys -> Nat]
    /\ expiry \in [Keys -> Nat \cup {None}]
    /\ phase \in [Calls -> {"idle", "waiting", "done"}]
    /\ key \in [Calls -> Keys]
    /\ sends \in [Calls -> 0..MaxResends]
    /\ pending \subseteq Calls \X (0..MaxResends)
    /\ reply \in [Calls -> Nat \cup {None}]
    /\ answer \in [Calls -> {"none", "allowed", "blocked", "failed_open"}]
    /\ log \in Seq([key : Keys, at : Nat, ok : BOOLEAN])
    /\ stray \subseteq Keys

(* A key may be found without a TTL: left by an older release, or persisted by  *)
(* hand.  The script repairs it.                                                *)
Init ==
    /\ time = 0
    /\ counter \in [Keys -> {0} \cup Strays]
    /\ expiry = [k \in Keys |-> None]
    /\ phase = [c \in Calls |-> "idle"]
    /\ key \in [Calls -> Keys]
    /\ sends = [c \in Calls |-> 0]
    /\ pending = {}
    /\ reply = [c \in Calls |-> None]
    /\ answer = [c \in Calls |-> "none"]
    /\ log = <<>>
    /\ stray = {k \in Keys : counter[k] > 0}

-------------------------------------------------------------------------------
(* Definitions named Slip_... are faults the code does not have: each is the    *)
(* next definition of the code with one plausible mistake, and substituting it  *)
(* must break a property.                                                       *)

(* The TTL is set only when the key is created.                                 *)
Slip_NoRepair(k) == counter[k] = 0

(* Every execution sets the TTL again.                                          *)
Slip_Renew(k) == TRUE

(* count == 1 or PTTL < 0: this execution sets the TTL.                         *)
SetsTtl(k) == counter[k] = 0 \/ expiry[k] = None

(* One request too many.                                                        *)
Slip_AdmitsOneMore(n) == n <= MaxRequests + 1

(* count <= self._max_requests                                                  *)
Admits(n) == n <= MaxRequests

Send(c) ==
    /\ phase[c] = "idle"
    /\ phase' = [phase EXCEPT ![c] = "waiting"]
    /\ pending' = pending \cup {<<c, 0>>}
    /\ UNCHANGED <<time, redis, key, sends, reply, answer>>

(* Redis runs the script for attempt n of call c.                               *)
Execute(c, n) ==
    LET k == key[c] IN
    /\ <<c, n>> \in pending
    /\ pending' = pending \ {<<c, n>>}
    /\ counter' = [counter EXCEPT ![k] = @ + 1]
    /\ expiry' = IF SetsTtl(k) THEN [expiry EXCEPT ![k] = time + Window] ELSE expiry
    /\ log' = Append(log, [key |-> k, at |-> time, ok |-> Admits(counter[k] + 1)])
    /\ reply' = IF phase[c] = "waiting" /\ n = sends[c]
                THEN [reply EXCEPT ![c] = counter[k] + 1]
                ELSE reply
    /\ UNCHANGED <<time, phase, key, sends, answer, stray>>

Receive(c) ==
    /\ phase[c] = "waiting" /\ reply[c] # None
    /\ phase' = [phase EXCEPT ![c] = "done"]
    /\ answer' = [answer EXCEPT ![c] = IF Admits(reply[c]) THEN "allowed" ELSE "blocked"]
    /\ UNCHANGED <<time, redis, key, sends, pending, reply>>

(* A backend failure blocks the call.                                           *)
Slip_FailClosed(c) ==
    /\ phase[c] = "waiting"
    /\ phase' = [phase EXCEPT ![c] = "done"]
    /\ answer' = [answer EXCEPT ![c] = "blocked"]
    /\ UNCHANGED <<time, redis, key, sends, pending, reply>>

(* A connection error or a timeout: the client sends again, or allow counts the *)
(* failure and returns True.                                                    *)
Fail(c) ==
    /\ phase[c] = "waiting"
    /\ \/ /\ sends[c] < MaxResends
          /\ sends' = [sends EXCEPT ![c] = @ + 1]
          /\ pending' = pending \cup {<<c, sends[c] + 1>>}
          /\ reply' = [reply EXCEPT ![c] = None]
          /\ UNCHANGED <<phase, answer>>
       \/ /\ phase' = [phase EXCEPT ![c] = "done"]
          /\ answer' = [answer EXCEPT ![c] = "failed_open"]
          /\ UNCHANGED <<sends, pending, reply>>
    /\ UNCHANGED <<time, redis, key>>

(* The clock moves, and Redis deletes the keys whose TTL has passed.            *)
Tick ==
    LET expires(k) == expiry[k] # None /\ expiry[k] <= time + 1 IN
    /\ time < MaxTime
    /\ time' = time + 1
    /\ counter' = [k \in Keys |-> IF expires(k) THEN 0 ELSE counter[k]]
    /\ expiry' = [k \in Keys |-> IF expires(k) THEN None ELSE expiry[k]]
    /\ UNCHANGED <<phase, key, sends, pending, reply, answer, log, stray>>

Finished ==
    /\ \A c \in Calls : phase[c] = "done"
    /\ UNCHANGED vars

Next ==
    \/ \E c \in Calls : Send(c) \/ Receive(c) \/ Fail(c)
    \/ \E p \in pending : Execute(p[1], p[2])
    \/ Tick
    \/ Finished

Spec == Init /\ [][Next]_vars

-------------------------------------------------------------------------------
Promise == INSTANCE FixedWindow WITH
    Capacity <- Cardinality(Keys),
    used <- counter,
    opened <- [k \in Keys |-> IF expiry[k] = None THEN -1 ELSE expiry[k] - Window]

(* The executions of the script are a fixed-window limiter that forgets no key, *)
(* however the calls overlap, fail and are sent again: ADR-0008's claim that    *)
(* the two backends have the same semantics.                                    *)
ImplementsFixedWindow == Promise!WindowSpec

(* In any stretch of window_ms a key is admitted fewer than 2 * max_requests    *)
(* times over all replicas, across the boundary of two windows: no call the     *)
(* client gave up or sent again, and no repair of a counter, opens a third.     *)
(* Callers that were answered without a reply, failed open, are not counted.    *)
AtMostTwoWindows == Promise!AtMostTwoWindows

(* A counter the script has touched is never without a TTL, and the TTL never   *)
(* reaches further than one window: no key can block its caller for good, the   *)
(* hazard the comment on _INCR_AND_EXPIRE_SCRIPT is about.                      *)
CounterAlwaysExpires ==
    \A k \in Keys :
        /\ counter[k] > 0 /\ expiry[k] = None => \A i \in 1..Len(log) : log[i].key # k
        /\ expiry[k] # None => counter[k] > 0 /\ expiry[k] \in time + 1 .. time + Window

(* A call is blocked only because Redis counted it beyond the limit within a    *)
(* window: a failing backend never blocks, and neither does a count that        *)
(* expired.  Only a key found with a count and no TTL can block a caller that   *)
(* made too few requests, and at most for one window from the execution that    *)
(* repaired it.                                                                 *)
BlockedIsCounted ==
    \A c \in Calls : answer[c] = "blocked" =>
        \E i \in 1..Len(log) :
            /\ log[i].key = key[c] /\ ~log[i].ok
            /\ \/ Cardinality({j \in 1..i : log[j].key = key[c]
                                 /\ log[j].at > log[i].at - Window}) > MaxRequests
               \/ /\ key[c] \in stray
                  /\ \E j \in 1..i : /\ log[j].key = key[c]
                                     /\ \A h \in 1..j - 1 : log[h].key # key[c]
                                     /\ log[j].at > log[i].at - Window
===============================================================================
