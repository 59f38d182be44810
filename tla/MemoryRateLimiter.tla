-------------------------- MODULE MemoryRateLimiter ---------------------------
(* InMemoryRateLimiter of adapters/rate_limiter.py: one call of allow is one    *)
(* step, since it awaits nothing.  time is the injected monotonic time source.  *)
EXTENDS Integers, Sequences, FiniteSets

CONSTANTS
    Keys, MaxRequests, Window,
    MaxTrackedKeys, \* entries the OrderedDict may hold
    MaxCalls,       \* bound: calls of allow
    MaxTime         \* bound: the clock stops here

ASSUME MemoryLimiterAssumption ==
    /\ MaxRequests \in Nat \ {0}
    /\ Window \in Nat \ {0}
    /\ MaxTrackedKeys \in Nat \ {0}
    /\ MaxCalls \in Nat /\ MaxTime \in Nat

VARIABLES
    time,
    order,   \* the OrderedDict's keys, least recently touched first
    start,   \* start[k], count[k]: the entry of a tracked key
    count,
    log      \* history: every call, as in FixedWindow

vars == <<time, order, start, count, log>>

Tracked == {order[i] : i \in 1..Len(order)}

TypeOK ==
    /\ time \in 0..MaxTime
    /\ order \in Seq(Keys) /\ Len(order) = Cardinality(Tracked)
    /\ Len(order) <= MaxTrackedKeys
    /\ start \in [Keys -> Nat]
    /\ count \in [Keys -> Nat]
    /\ log \in Seq([key : Keys, at : Nat, ok : BOOLEAN])

Init ==
    /\ time = 0
    /\ order = <<>>
    /\ start = [k \in Keys |-> 0]
    /\ count = [k \in Keys |-> 0]
    /\ log = <<>>

(* Definitions named Slip_... are faults the code does not have: each is the    *)
(* next definition of the code with one plausible mistake, and substituting it  *)
(* must break a property.                                                       *)

(* The window is over one tick too early.                                       *)
Slip_ElapsedEarly(k) == k \notin Tracked \/ time - start[k] >= Window - 1

(* windows.get(key, (now, 0)), then the elapsed test: a fresh window starts.    *)
StartsWindow(k) == k \notin Tracked \/ time - start[k] >= Window

(* Every call restarts the window of its key.                                   *)
Slip_SlidingStart(k) == time

WindowStart(k) == IF StartsWindow(k) THEN time ELSE start[k]

(* No move_to_end: eviction by age of insertion.                                *)
Slip_KeepPlace(k) == IF k \in Tracked THEN order ELSE Append(order, k)

(* Assignment, which adds a new key at the end, and move_to_end.                *)
Touched(k) ==
    IF k \notin Tracked THEN Append(order, k)
    ELSE LET p == CHOOSE i \in 1..Len(order) : order[i] = k IN
         [i \in 1..Len(order) |-> IF i < p THEN order[i]
                                  ELSE IF i < Len(order) THEN order[i + 1] ELSE k]

(* Nothing is ever dropped.                                                     *)
Slip_NoEviction(o) == o

(* popitem(last=False) when one entry too many is held.                         *)
Evicted(o) == IF Len(o) > MaxTrackedKeys THEN Tail(o) ELSE o

(* count <= self._max_requests                                                  *)
Admits(n) == n <= MaxRequests

Allow(k) ==
    LET n == IF StartsWindow(k) THEN 1 ELSE count[k] + 1 IN
    /\ Len(log) < MaxCalls
    /\ start' = [start EXCEPT ![k] = WindowStart(k)]
    /\ count' = [count EXCEPT ![k] = n]
    /\ order' = Evicted(Touched(k))
    /\ log' = Append(log, [key |-> k, at |-> time, ok |-> Admits(n)])
    /\ UNCHANGED time

Tick ==
    /\ time < MaxTime
    /\ time' = time + 1
    /\ UNCHANGED <<order, start, count, log>>

Finished == Len(log) = MaxCalls /\ time = MaxTime /\ UNCHANGED vars

Next == Tick \/ Finished \/ \E k \in Keys : Allow(k)

Spec == Init /\ [][Next]_vars

-------------------------------------------------------------------------------
Open(k) == k \in Tracked /\ time - start[k] < Window

Promise == INSTANCE FixedWindow WITH
    Capacity <- MaxTrackedKeys,
    Strays <- {},
    used <- [k \in Keys |-> IF Open(k) THEN count[k] ELSE 0],
    opened <- [k \in Keys |-> IF Open(k) THEN start[k] ELSE -1]

(* The limiter is a fixed-window limiter that forgets a key only after it was   *)
(* called with max_tracked_keys others: eviction takes the least recently       *)
(* touched entry, and nothing else ever resets a count.                         *)
ImplementsFixedWindow == Promise!WindowSpec

(* A key is admitted fewer than 2 * max_requests times in any stretch of        *)
(* window_seconds, across the boundary of two windows, unless max_tracked_keys  *)
(* other keys call in that stretch.                                             *)
AtMostTwoWindows == Promise!AtMostTwoWindows

(* Even when keys are evicted: a call is refused only if its key was admitted   *)
(* max_requests times within the window before it.  Evictions and refused calls *)
(* never keep a caller out.                                                     *)
RefusalEarned == Promise!RefusalEarned
===============================================================================
