------------------------ MODULE RedisRateLimiterProofs -------------------------
(* Proofs about the Redis rate limiter: for any number of calls, keys, resends    *)
(* and stray counters, no key is left without a TTL, no call is blocked that was  *)
(* not counted, and the executions of the script are a fixed-window limiter.      *)
EXTENDS RedisRateLimiter, FiniteSetTheorems, TLAPS

LogEntries == [key : Keys, at : Nat, ok : BOOLEAN]

-------------------------------------------------------------------------------
(* The log.                                                                       *)

LEMMA AppendLog ==
    ASSUME NEW l \in Seq(LogEntries), NEW e \in LogEntries
    PROVE  /\ Append(l, e) \in Seq(LogEntries)
           /\ Len(Append(l, e)) = Len(l) + 1 /\ Len(l) \in Nat
           /\ \A i \in 1..Len(l) : i \in 1..Len(l) + 1 /\ Append(l, e)[i] = l[i]
           /\ Append(l, e)[Len(l) + 1] = e
OBVIOUS

-------------------------------------------------------------------------------
(* Types.                                                                         *)

LEMMA Parameters ==
    /\ MaxRequests \in Nat \ {0} /\ Window \in Nat \ {0}
    /\ MaxResends \in Nat /\ MaxTime \in Nat /\ Strays \subseteq Nat \ {0}
BY RedisLimiterAssumption

LEMMA TypeInit == Init => TypeOK
<1> SUFFICES ASSUME Init PROVE TypeOK
  OBVIOUS
<1>1. time \in 0..MaxTime /\ counter \in [Keys -> Nat] /\ expiry \in [Keys -> Nat \cup {None}]
  <2>1. {0} \cup Strays \subseteq Nat
    BY Parameters
  <2>2. counter \in [Keys -> {0} \cup Strays]
    BY DEF Init
  <2>3. counter \in [Keys -> Nat]
    BY <2>1, <2>2
  <2> QED BY <2>3, Parameters DEF Init
<1>2. /\ phase \in [Calls -> {"idle", "waiting", "done"}] /\ key \in [Calls -> Keys]
      /\ reply \in [Calls -> Nat \cup {None}]
      /\ answer \in [Calls -> {"none", "allowed", "blocked", "failed_open"}]
      /\ stray \subseteq Keys
  BY DEF Init
<1>3. /\ sends \in [Calls -> 0..MaxResends] /\ pending \subseteq Calls \X (0..MaxResends)
      /\ log \in Seq(LogEntries)
  BY Parameters DEF Init
<1> QED BY <1>1, <1>2, <1>3 DEF TypeOK, LogEntries

LEMMA TypeNext == TypeOK /\ [Next]_vars => TypeOK'
<1> SUFFICES ASSUME TypeOK, [Next]_vars PROVE TypeOK'
  OBVIOUS
<1> USE Parameters DEF TypeOK
<1>1. ASSUME NEW c \in Calls, Send(c) PROVE TypeOK'
  BY <1>1 DEF Send, redis
<1>2. ASSUME NEW c \in Calls, Receive(c) PROVE TypeOK'
  BY <1>2 DEF Receive, redis
<1>3. ASSUME NEW c \in Calls, Fail(c) PROVE TypeOK'
  <2>1. UNCHANGED <<time, counter, expiry, log, key, stray>>
    BY <1>3 DEF Fail, redis
  <2>2. CASE /\ sends[c] < MaxResends
             /\ sends' = [sends EXCEPT ![c] = @ + 1]
             /\ pending' = pending \cup {<<c, sends[c] + 1>>}
             /\ reply' = [reply EXCEPT ![c] = None]
             /\ UNCHANGED <<phase, answer>>
    <3>1. sends[c] + 1 \in 0..MaxResends
      BY <2>2
    <3>2. pending' \subseteq Calls \X (0..MaxResends) /\ sends' \in [Calls -> 0..MaxResends]
      BY <2>2, <3>1
    <3> QED BY <2>1, <2>2, <3>2
  <2>3. CASE /\ phase' = [phase EXCEPT ![c] = "done"]
             /\ answer' = [answer EXCEPT ![c] = "failed_open"]
             /\ UNCHANGED <<sends, pending, reply>>
    BY <2>1, <2>3
  <2> QED BY <1>3, <2>2, <2>3 DEF Fail
<1>4. ASSUME NEW p \in pending, Execute(p[1], p[2]) PROVE TypeOK'
  <2> DEFINE k == key[p[1]]
  <2>1. p[1] \in Calls /\ k \in Keys
    OBVIOUS
  <2>2. counter[k] \in Nat /\ time + Window \in Nat /\ time \in Nat
    BY <2>1
  <2>3. [key |-> k, at |-> time, ok |-> Admits(counter[k] + 1)] \in LogEntries
    BY <2>1, <2>2 DEF LogEntries, Admits
  <2>4. log' \in Seq(LogEntries)
    BY <1>4, <2>3, AppendLog DEF Execute, LogEntries
  <2>5. counter' \in [Keys -> Nat] /\ expiry' \in [Keys -> Nat \cup {None}]
    BY <1>4, <2>1, <2>2 DEF Execute
  <2>6. reply' \in [Calls -> Nat \cup {None}]
    BY <1>4, <2>1, <2>2 DEF Execute
  <2> QED BY <1>4, <2>4, <2>5, <2>6 DEF Execute, LogEntries
<1>5. CASE Tick
  BY <1>5 DEF Tick
<1>6. CASE UNCHANGED vars
  BY <1>6 DEF vars
<1> QED BY <1>1, <1>2, <1>3, <1>4, <1>5, <1>6 DEF Next, Finished

(* Counters, expiries and replies keep their range, whatever Redis and the        *)
(* client do.                                                                     *)
THEOREM TypeCorrect == Spec => []TypeOK
BY TypeInit, TypeNext, PTL DEF Spec

-------------------------------------------------------------------------------
(* The TTL.                                                                       *)

(* How a step moves the counters: an execution, the clock, or not at all.         *)
LEMMA RedisStep ==
    ASSUME [Next]_vars, TypeOK
    PROVE  \/ \E p \in pending : Execute(p[1], p[2])
           \/ Tick
           \/ UNCHANGED <<time, counter, expiry, log, key>>
BY DEF Next, Send, Receive, Fail, Finished, redis, vars

LEMMA ExpiresInit == Init => CounterAlwaysExpires
BY DEF Init, CounterAlwaysExpires

LEMMA ExpiresNext == TypeOK /\ CounterAlwaysExpires /\ [Next]_vars => CounterAlwaysExpires'
<1> SUFFICES ASSUME TypeOK, CounterAlwaysExpires, [Next]_vars PROVE CounterAlwaysExpires'
  OBVIOUS
<1> USE Parameters DEF TypeOK
<1>0. time \in Nat
  OBVIOUS
<1>1. ASSUME NEW p \in pending, Execute(p[1], p[2]) PROVE CounterAlwaysExpires'
  <2>1. PICK k \in Keys : k = key[p[1]]
    OBVIOUS
  <2>2. /\ counter' = [counter EXCEPT ![k] = @ + 1]
        /\ expiry' = IF SetsTtl(k) THEN [expiry EXCEPT ![k] = time + Window] ELSE expiry
        /\ time' = time
    BY <1>1, <2>1 DEF Execute
  <2>3. /\ [key |-> k, at |-> time, ok |-> Admits(counter[k] + 1)] \in LogEntries
        /\ log' = Append(log, [key |-> k, at |-> time, ok |-> Admits(counter[k] + 1)])
    BY <1>0, <1>1, <2>1 DEF Execute, LogEntries, Admits
  <2>4. /\ Len(log') = Len(log) + 1 /\ Len(log) \in Nat
        /\ \A i \in 1..Len(log) : log'[i] = log[i]
        /\ log'[Len(log) + 1].key = k
    BY <2>3, AppendLog DEF LogEntries
  <2>5. ASSUME NEW j \in Keys, j # k
        PROVE  /\ counter'[j] > 0 /\ expiry'[j] = None => \A i \in 1..Len(log') : log'[i].key # j
               /\ expiry'[j] # None => counter'[j] > 0 /\ expiry'[j] \in time' + 1 .. time' + Window
    <3>1. counter'[j] = counter[j] /\ expiry'[j] = expiry[j]
      BY <2>2, <2>5
    <3>2. \A i \in 1..Len(log') : i \in 1..Len(log) \/ i = Len(log) + 1
      BY <2>4
    <3> QED BY <2>2, <2>4, <2>5, <3>1, <3>2 DEF CounterAlwaysExpires
  <2>6. expiry'[k] # None /\ counter'[k] > 0 /\ expiry'[k] \in time' + 1 .. time' + Window
    <3>1. counter'[k] > 0
      BY <2>2
    <3>2. CASE SetsTtl(k)
      BY <1>0, <2>2, <3>1, <3>2 DEF None
    <3>3. CASE ~SetsTtl(k)
      BY <1>0, <2>2, <3>1, <3>3 DEF SetsTtl, CounterAlwaysExpires
    <3> QED BY <3>2, <3>3
  <2> QED BY <2>5, <2>6 DEF CounterAlwaysExpires
<1>2. CASE Tick
  <2> SUFFICES ASSUME NEW k \in Keys
               PROVE  /\ counter'[k] > 0 /\ expiry'[k] = None
                           => \A i \in 1..Len(log') : log'[i].key # k
                      /\ expiry'[k] # None
                           => counter'[k] > 0 /\ expiry'[k] \in time' + 1 .. time' + Window
    BY DEF CounterAlwaysExpires
  <2>1. time' = time + 1 /\ log' = log
    BY <1>2 DEF Tick
  <2>2. CASE expiry[k] # None /\ expiry[k] <= time + 1
    BY <1>2, <2>1, <2>2 DEF Tick, None
  <2>3. CASE ~(expiry[k] # None /\ expiry[k] <= time + 1)
    <3>1. counter'[k] = counter[k] /\ expiry'[k] = expiry[k]
      BY <1>2, <2>3 DEF Tick
    <3> QED BY <1>0, <2>1, <2>3, <3>1 DEF CounterAlwaysExpires, None
  <2> QED BY <2>2, <2>3
<1>3. CASE UNCHANGED <<time, counter, expiry, log, key>>
  BY <1>3 DEF CounterAlwaysExpires
<1> QED BY <1>1, <1>2, <1>3, RedisStep

(* No key blocks its caller for good: a counter that the script touched has a     *)
(* TTL of at most one window, in every interleaving of executions, failures and   *)
(* resends.  The invariant is inductive as it stands.                             *)
THEOREM CountersExpire == Spec => []CounterAlwaysExpires
<1>1. TypeOK /\ CounterAlwaysExpires /\ [Next]_vars => CounterAlwaysExpires'
  BY ExpiresNext
<1> QED BY ExpiresInit, <1>1, TypeCorrect, PTL DEF Spec
-------------------------------------------------------------------------------
(* What the Redis limiter implements.                                             *)

(* A window that is open has a TTL set to one window from its opening.            *)
OpenSinceStart == \A k \in Keys : expiry[k] # None => expiry[k] >= Window

LEMMA OpenSinceStartCorrect == Spec => []OpenSinceStart
<1>1. Init => OpenSinceStart
  BY DEF Init, OpenSinceStart
<1>2. TypeOK /\ OpenSinceStart /\ [Next]_vars => OpenSinceStart'
  <2> SUFFICES ASSUME TypeOK, OpenSinceStart, [Next]_vars PROVE OpenSinceStart'
    OBVIOUS
  <2> USE Parameters DEF TypeOK, OpenSinceStart
  <2>1. ASSUME NEW p \in pending, Execute(p[1], p[2]) PROVE OpenSinceStart'
    <3>1. PICK k \in Keys : k = key[p[1]]
      OBVIOUS
    <3>2. expiry' = IF SetsTtl(k) THEN [expiry EXCEPT ![k] = time + Window] ELSE expiry
      BY <2>1, <3>1 DEF Execute
    <3> QED BY <3>2
  <2>2. CASE Tick
    BY <2>2 DEF Tick
  <2>3. CASE UNCHANGED <<time, counter, expiry, log, key>>
    BY <2>3
  <2> QED BY <2>1, <2>2, <2>3, RedisStep
<1> QED BY <1>1, <1>2, TypeCorrect, PTL DEF Spec

OpenedAt(k) == IF expiry[k] = None THEN -1 ELSE expiry[k] - Window

LEMMA ExecuteIsHit ==
    ASSUME TypeOK, CounterAlwaysExpires, OpenSinceStart, OpenSinceStart', TypeOK',
           NEW p \in pending, Execute(p[1], p[2])
    PROVE  \E k \in Keys : Promise!Hit(k)
<1> USE Parameters DEF TypeOK
<1>1. PICK k \in Keys : k = key[p[1]]
  OBVIOUS
<1>2. /\ counter' = [counter EXCEPT ![k] = @ + 1]
      /\ expiry' = IF SetsTtl(k) THEN [expiry EXCEPT ![k] = time + Window] ELSE expiry
      /\ log' = Append(log, [key |-> k, at |-> time, ok |-> Admits(counter[k] + 1)])
      /\ time' = time
  BY <1>1 DEF Execute
<1>3. Admits(counter[k] + 1) <=> counter[k] < MaxRequests
  BY DEF Admits
<1>4. counter' = [j \in Keys |-> IF j = k THEN counter[j] + 1
                                 ELSE IF j \in {} THEN 0 ELSE counter[j]]
  BY <1>2
<1>5. SetsTtl(k) <=> OpenedAt(k) = -1
  <2>1. CASE expiry[k] = None
    BY <2>1 DEF SetsTtl, OpenedAt
  <2>2. CASE expiry[k] # None
    <3>1. counter[k] > 0 /\ counter[k] \in Nat
      BY <2>2 DEF CounterAlwaysExpires
    <3>2. expiry[k] >= Window /\ expiry[k] \in Nat
      BY <2>2 DEF OpenSinceStart
    <3>3. ~SetsTtl(k)
      BY <2>2, <3>1 DEF SetsTtl
    <3>4. OpenedAt(k) = expiry[k] - Window /\ Window \in Nat
      BY <2>2 DEF OpenedAt
    <3>5. OpenedAt(k) # -1
      BY <3>2, <3>4
    <3> QED
      BY <3>3, <3>5
  <2> QED
    BY <2>1, <2>2
<1>6. \A j \in Keys : OpenedAt(j)' = IF j = k /\ OpenedAt(j) = -1 THEN time
                                     ELSE IF j \in {} THEN -1 ELSE OpenedAt(j)
  <2> SUFFICES ASSUME NEW j \in Keys
               PROVE  OpenedAt(j)' = IF j = k /\ OpenedAt(j) = -1 THEN time ELSE OpenedAt(j)
    OBVIOUS
  <2>1. CASE j = k /\ OpenedAt(j) = -1
    <3>1. expiry'[j] = time + Window /\ time + Window # None
      BY <1>2, <1>5, <2>1 DEF None
    <3> QED BY <2>1, <3>1 DEF OpenedAt
  <2>2. CASE ~(j = k /\ OpenedAt(j) = -1)
    <3>1. expiry'[j] = expiry[j]
      BY <1>2, <1>5, <2>2
    <3> QED BY <2>2, <3>1 DEF OpenedAt
  <2> QED BY <2>1, <2>2
<1>7. [j \in Keys |-> OpenedAt(j)]' = [j \in Keys |-> IF j = k /\ [i \in Keys |-> OpenedAt(i)][j] = -1 THEN time
                                     ELSE IF j \in {} THEN -1 ELSE [i \in Keys |-> OpenedAt(i)][j]]
  BY <1>6
<1>8. {} \in SUBSET {j \in Keys \ {k} : [i \in Keys |-> OpenedAt(i)][j] # -1 /\ Promise!Crowded(j, k)}
  OBVIOUS
<1>9. log' = Append(log, [key |-> k, at |-> time, ok |-> counter[k] < MaxRequests])
  BY <1>2, <1>3
<1>10. /\ counter' = [j \in Keys |-> IF j = k THEN counter[j] + 1
                                    ELSE IF j \in {} THEN 0 ELSE counter[j]]
       /\ log' = Append(log, [key |-> k, at |-> time, ok |-> counter[k] < MaxRequests])
       /\ UNCHANGED time
  BY <1>2, <1>4, <1>9
<1> QED BY <1>7, <1>8, <1>10, Zenon DEF Promise!Hit, Promise!NotOpen, OpenedAt

LEMMA TickIsElapse ==
    ASSUME TypeOK, OpenSinceStart, Tick
    PROVE  Promise!Elapse
<1> USE Parameters DEF TypeOK
<1>1. ASSUME NEW k \in Keys
      PROVE  (expiry[k] # None /\ expiry[k] <= time + 1)
               <=> (OpenedAt(k) # -1 /\ time + 1 - OpenedAt(k) >= Window)
  BY DEF OpenedAt, OpenSinceStart, None
<1>2. counter' = [k \in Keys |-> IF OpenedAt(k) # -1 /\ time + 1 - OpenedAt(k) >= Window
                                 THEN 0 ELSE counter[k]]
  BY <1>1 DEF Tick
<1>3. \A k \in Keys : OpenedAt(k)' = IF OpenedAt(k) # -1 /\ time + 1 - OpenedAt(k) >= Window
                                     THEN -1 ELSE OpenedAt(k)
  BY <1>1 DEF Tick, OpenedAt
<1> QED BY <1>2, <1>3 DEF Tick, Promise!Elapse, Promise!NotOpen, OpenedAt

(* The executions of the counting script are the hits of a fixed-window limiter   *)
(* that never forgets a key: lost, late and duplicated commands count when they   *)
(* run, and nothing else opens, prolongs or closes a window.                      *)
THEOREM RedisImplementsFixedWindow == Spec => ImplementsFixedWindow
<1>1. Init => Promise!WindowInit
  BY DEF Init, Promise!WindowInit, Promise!NotOpen
<1>2. /\ TypeOK /\ TypeOK' /\ CounterAlwaysExpires /\ OpenSinceStart /\ OpenSinceStart'
      /\ [Next]_vars
      => [Promise!Elapse \/ \E k \in Keys : Promise!Hit(k)]_(Promise!window)
  <2> SUFFICES ASSUME TypeOK, TypeOK', CounterAlwaysExpires, OpenSinceStart, OpenSinceStart',
                      [Next]_vars
               PROVE  [Promise!Elapse \/ \E k \in Keys : Promise!Hit(k)]_(Promise!window)
    OBVIOUS
  <2>1. ASSUME NEW p \in pending, Execute(p[1], p[2])
        PROVE  \E k \in Keys : Promise!Hit(k)
    BY <2>1, ExecuteIsHit
  <2>2. CASE Tick
    BY <2>2, TickIsElapse
  <2>3. CASE UNCHANGED <<time, counter, expiry, log, key>>
    BY <2>3 DEF Promise!window
  <2> QED BY <2>1, <2>2, <2>3, RedisStep
<1> QED BY <1>1, <1>2, TypeCorrect, CountersExpire, OpenSinceStartCorrect, PTL
        DEF Spec, ImplementsFixedWindow, Promise!WindowSpec
-------------------------------------------------------------------------------
(* Why a call is blocked.                                                         *)

Since(l, k, t) == {j \in 1..Len(l) : l[j].key = k /\ l[j].at >= t}
FirstSince(l, k, t) == \E j \in Since(l, k, t) : \A h \in 1..j - 1 : l[h].key # k

(* A counter with a TTL holds no more than the executions since its window        *)
(* opened, unless that window was opened by repairing a stray key, and only a     *)
(* stray key has a counter without a TTL.                                         *)
Counted ==
    \A k \in Keys :
        /\ expiry[k] # None =>
             \/ counter[k] <= Cardinality(Since(log, k, expiry[k] - Window))
             \/ k \in stray /\ FirstSince(log, k, expiry[k] - Window)
        /\ expiry[k] = None /\ counter[k] > 0 => k \in stray

(* What BlockedIsCounted asks of the execution that refused.                      *)
Earned(l, i) ==
    \/ Cardinality({j \in 1..i : l[j].key = l[i].key
                                 /\ l[j].at > l[i].at - Window}) > MaxRequests
    \/ /\ l[i].key \in stray
       /\ \E j \in 1..i : /\ l[j].key = l[i].key
                          /\ \A h \in 1..j - 1 : l[h].key # l[i].key
                          /\ l[j].at > l[i].at - Window

RefusalsEarned == \A i \in 1..Len(log) : ~log[i].ok => Earned(log, i)

(* A reply is what the execution it answers logged, and a blocked call had one.   *)
RepliesLogged ==
    \A c \in Calls :
        /\ reply[c] # None => \E i \in 1..Len(log) :
              log[i].key = key[c] /\ (log[i].ok <=> Admits(reply[c]))
        /\ answer[c] = "blocked" => \E i \in 1..Len(log) : log[i].key = key[c] /\ ~log[i].ok

BlockedInv == Counted /\ RefusalsEarned /\ RepliesLogged

LEMMA SinceFinite ==
    ASSUME NEW l \in Seq(LogEntries), NEW k, NEW t
    PROVE  IsFiniteSet(Since(l, k, t)) /\ Cardinality(Since(l, k, t)) \in Nat
<1>1. Len(l) \in Nat
  OBVIOUS
<1>2. IsFiniteSet(1..Len(l))
  BY <1>1, FS_Interval
<1>3. IsFiniteSet(Since(l, k, t))
  BY <1>2, FS_Subset DEF Since
<1> QED BY <1>3, FS_CardinalityType

LEMMA BlockedInit == Init => BlockedInv
BY DEF Init, BlockedInv, Counted, RefusalsEarned, RepliesLogged

(* One more execution: what was true of the log stays true, its own entry joins   *)
(* the window, and if it refuses, the window it falls into says why.              *)
LEMMA ExecuteCounted ==
    ASSUME TypeOK, TypeOK', CounterAlwaysExpires, CounterAlwaysExpires', BlockedInv,
           NEW p \in pending, Execute(p[1], p[2])
    PROVE  BlockedInv'
<1>1. PICK k \in Keys : k = key[p[1]]
  BY DEF TypeOK
<1>t. /\ counter \in [Keys -> Nat] /\ expiry \in [Keys -> Nat \cup {None}]
      /\ counter' \in [Keys -> Nat] /\ expiry' \in [Keys -> Nat \cup {None}]
      /\ counter[k] \in Nat /\ counter'[k] \in Nat
      /\ key \in [Calls -> Keys] /\ reply \in [Calls -> Nat \cup {None}]
      /\ log \in Seq(LogEntries) /\ log' \in Seq(LogEntries)
      /\ time \in Nat /\ Window \in Nat \ {0} /\ MaxRequests \in Nat
      /\ p[1] \in Calls
  BY Parameters DEF TypeOK, LogEntries
<1>n. PICK n \in Nat : n = Len(log)
  BY <1>t
<1>2. /\ counter' = [counter EXCEPT ![k] = @ + 1]
      /\ expiry' = IF SetsTtl(k) THEN [expiry EXCEPT ![k] = time + Window] ELSE expiry
      /\ log' = Append(log, [key |-> k, at |-> time, ok |-> Admits(counter[k] + 1)])
      /\ time' = time /\ key' = key /\ answer' = answer /\ stray' = stray
      /\ \A c \in Calls : c # p[1] => reply'[c] = reply[c]
      /\ reply'[p[1]] = reply[p[1]] \/ reply'[p[1]] = counter[k] + 1
  BY <1>1, <1>t DEF Execute
<1>3. [key |-> k, at |-> time, ok |-> Admits(counter[k] + 1)] \in LogEntries
  BY <1>t DEF LogEntries, Admits
<1>4. /\ Len(log') = n + 1 /\ Len(log) = n
      /\ \A i \in 1..n : i \in 1..n + 1 /\ log'[i] = log[i]
      /\ log'[n + 1].key = k /\ log'[n + 1].at = time
      /\ log'[n + 1].ok <=> Admits(counter[k] + 1)
  BY <1>2, <1>3, <1>n, <1>t, AppendLog
<1>5. \A i \in 1..n + 1 : i \in 1..n \/ i = n + 1
  BY <1>t, <1>4
<1>6. Counted'
  <2>0. ASSUME NEW j \in Keys, expiry'[j] = None, counter'[j] > 0 PROVE j \in stray'
    <3>1. j # k
      BY <1>t, <1>2, <2>0 DEF SetsTtl, None
    <3>2. expiry[j] = None /\ counter[j] > 0
      BY <1>t, <1>2, <2>0, <3>1
    <3> QED BY <1>2, <3>2 DEF BlockedInv, Counted
  <2> SUFFICES ASSUME NEW j \in Keys, expiry'[j] # None
               PROVE  \/ counter'[j] <= Cardinality(Since(log', j, expiry'[j] - Window))
                      \/ j \in stray' /\ FirstSince(log', j, expiry'[j] - Window)
    BY <2>0 DEF Counted
  <2>1. CASE j # k
    <3>1. expiry'[j] = expiry[j] /\ counter'[j] = counter[j]
      BY <1>t, <1>2, <2>1
    <3>2. Since(log', j, expiry'[j] - Window) = Since(log, j, expiry[j] - Window)
      BY <1>t, <1>4, <1>5, <2>1, <3>1 DEF Since
    <3>3. \A i \in Since(log, j, expiry[j] - Window) : \A h \in 1..i - 1 : log'[h] = log[h]
      BY <1>t, <1>4 DEF Since
    <3>4. FirstSince(log, j, expiry[j] - Window) => FirstSince(log', j, expiry'[j] - Window)
      BY <3>2, <3>3 DEF FirstSince
    <3> QED BY <1>2, <3>1, <3>2, <3>4 DEF BlockedInv, Counted
  <2>2. CASE j = k /\ expiry[k] = None
    <3>1. expiry'[k] - Window = time
      BY <1>t, <1>2, <2>2 DEF SetsTtl
    <3>2. n + 1 \in Since(log', k, expiry'[k] - Window)
      BY <1>t, <1>4, <3>1 DEF Since
    <3>3. CASE counter[k] = 0
      <4>1. counter'[k] = 1
        BY <1>t, <1>2, <3>3
      <4>2. /\ IsFiniteSet(Since(log', k, expiry'[k] - Window))
            /\ Cardinality(Since(log', k, expiry'[k] - Window)) \in Nat
        BY <1>t, SinceFinite
      <4>3. Cardinality(Since(log', k, expiry'[k] - Window)) # 0
        BY <3>2, <4>2, FS_EmptySet
      <4> QED BY <1>t, <2>2, <4>1, <4>2, <4>3
    <3>4. CASE counter[k] # 0
      <4>1. \A i \in 1..n : log[i].key # k
        <5>1. counter[k] > 0
          BY <1>t, <3>4
        <5> QED BY <1>n, <2>2, <5>1 DEF CounterAlwaysExpires
      <4>2. \A h \in 1..(n + 1) - 1 : log'[h].key # k
        <5>1. (n + 1) - 1 = n
          OBVIOUS
        <5> QED BY <1>4, <4>1, <5>1
      <4>3. FirstSince(log', k, expiry'[k] - Window)
        BY <1>t, <3>2, <4>2 DEF FirstSince
      <4>4. k \in stray
        BY <1>t, <2>2, <3>4 DEF BlockedInv, Counted
      <4> QED BY <1>2, <2>2, <4>3, <4>4
    <3> QED BY <1>t, <3>3, <3>4
  <2>3. CASE j = k /\ expiry[k] # None
    <3>1. counter[k] > 0 /\ expiry[k] \in time + 1 .. time + Window
      BY <1>t, <2>3 DEF CounterAlwaysExpires
    <3>2. expiry'[k] = expiry[k] /\ counter'[k] = counter[k] + 1
      BY <1>t, <1>2, <2>3, <3>1 DEF SetsTtl
    <3>3. Since(log', k, expiry'[k] - Window) = Since(log, k, expiry[k] - Window) \cup {n + 1}
      <4>1. expiry[k] - Window <= time /\ expiry'[k] = expiry[k]
        BY <1>t, <3>1, <3>2
      <4>2. n + 1 \in 1..n + 1
        BY <1>n
      <4> QED BY <1>4, <1>5, <4>1, <4>2 DEF Since
    <3>4. n + 1 \notin Since(log, k, expiry[k] - Window)
      BY <1>t, <1>4 DEF Since
    <3>5. /\ Cardinality(Since(log', k, expiry'[k] - Window))
               = Cardinality(Since(log, k, expiry[k] - Window)) + 1
          /\ Cardinality(Since(log, k, expiry[k] - Window)) \in Nat
      BY <1>t, <3>3, <3>4, SinceFinite, FS_AddElement
    <3>6. FirstSince(log, k, expiry[k] - Window) => FirstSince(log', k, expiry'[k] - Window)
      <4>1. ASSUME NEW i \in Since(log, k, expiry[k] - Window), NEW h \in 1..i - 1
            PROVE  log'[h] = log[h]
        BY <1>4, <4>1 DEF Since
      <4>2. \A i \in Since(log, k, expiry[k] - Window) : i \in Since(log', k, expiry'[k] - Window)
        BY <3>3
      <4> QED BY <4>1, <4>2 DEF FirstSince
    <3> QED BY <1>t, <1>2, <2>3, <3>2, <3>5, <3>6 DEF BlockedInv, Counted
  <2> QED BY <1>t, <2>1, <2>2, <2>3
<1>7. ~Admits(counter[k] + 1) => Earned(log', n + 1)
  <2> SUFFICES ASSUME ~Admits(counter[k] + 1) PROVE Earned(log', n + 1)
    OBVIOUS
  <2>1. counter'[k] > MaxRequests /\ counter'[k] \in Nat
    BY <1>t, <1>2 DEF Admits
  <2>2. expiry'[k] # None /\ expiry'[k] - Window > time - Window
    <3>n. n + 1 \in 1..Len(log') /\ log'[n + 1].key = k
      BY <1>n, <1>4
    <3>a. /\ counter'[k] > 0 /\ expiry'[k] = None => \A i \in 1..Len(log') : log'[i].key # k
          /\ expiry'[k] # None => expiry'[k] \in time' + 1 .. time' + Window
      BY DEF CounterAlwaysExpires
    <3>p. counter'[k] > 0
      BY <1>t, <2>1
    <3>1. expiry'[k] # None
      BY <3>n, <3>a, <3>p
    <3>2. expiry'[k] \in time + 1 .. time + Window
      BY <1>2, <3>1, <3>a
    <3> QED BY <1>t, <3>1, <3>2
  <2>3. \A i \in Since(log', k, expiry'[k] - Window) :
           i \in {j \in 1..n + 1 : log'[j].key = k /\ log'[j].at > time - Window}
    <3>1. \A i \in 1..n + 1 : log'[i].at \in Nat
      <4> SUFFICES ASSUME NEW i \in 1..n + 1 PROVE log'[i].at \in Nat
        OBVIOUS
      <4>1. log'[i] \in LogEntries
        BY <1>t, <1>4
      <4> QED BY <4>1 DEF LogEntries
    <3> QED BY <1>t, <1>4, <2>2, <3>1 DEF Since
  <2>4. CASE counter'[k] <= Cardinality(Since(log', k, expiry'[k] - Window))
    <3>1. IsFiniteSet(1..n + 1)
      BY <1>t, <1>4, FS_Interval
    <3>2. IsFiniteSet({j \in 1..n + 1 : log'[j].key = k /\ log'[j].at > time - Window})
      BY <1>t, <3>1, FS_Subset
    <3>3. Since(log', k, expiry'[k] - Window)
            \subseteq {j \in 1..n + 1 : log'[j].key = k /\ log'[j].at > time - Window}
      BY <1>t, <2>3
    <3>4. /\ Cardinality(Since(log', k, expiry'[k] - Window))
               <= Cardinality({j \in 1..n + 1 : log'[j].key = k /\ log'[j].at > time - Window})
          /\ Cardinality(Since(log', k, expiry'[k] - Window)) \in Nat
          /\ Cardinality({j \in 1..n + 1 : log'[j].key = k /\ log'[j].at > time - Window}) \in Nat
      BY <1>t, <3>2, <3>3, FS_Subset, FS_CardinalityType
    <3>5. Cardinality({j \in 1..n + 1 : log'[j].key = k /\ log'[j].at > time - Window})
            > MaxRequests
      BY <1>t, <2>1, <2>4, <3>4
    <3> QED BY <1>t, <1>4, <3>5 DEF Earned
  <2>5. CASE k \in stray' /\ FirstSince(log', k, expiry'[k] - Window)
    <3>1. PICK i \in Since(log', k, expiry'[k] - Window) : \A h \in 1..i - 1 : log'[h].key # k
      BY <1>t, <2>5 DEF FirstSince
    <3>2. i \in 1..n + 1 /\ log'[i].key = k /\ log'[i].at > time - Window
      BY <1>t, <2>3, <3>1
    <3>3. k \in stray
      BY <1>2, <2>5
    <3> QED BY <1>4, <3>1, <3>2, <3>3 DEF Earned
  <2> QED BY <1>t, <1>6, <2>2, <2>4, <2>5 DEF Counted
<1>8. \A i \in 1..n : Earned(log, i) => Earned(log', i)
  <2> SUFFICES ASSUME NEW i \in 1..n, Earned(log, i) PROVE Earned(log', i)
    OBVIOUS
  <2>1. \A j \in 1..i : j \in 1..n /\ log'[j] = log[j] /\ \A h \in 1..j - 1 : log'[h] = log[h]
    BY <1>t, <1>4
  <2>2. log'[i] = log[i]
    BY <1>t, <1>4
  <2>3. {j \in 1..i : log'[j].key = log'[i].key /\ log'[j].at > log'[i].at - Window}
        = {j \in 1..i : log[j].key = log[i].key /\ log[j].at > log[i].at - Window}
    BY <1>t, <2>1, <2>2
  <2> QED BY <1>t, <2>1, <2>2, <2>3 DEF Earned
<1>9. RefusalsEarned'
  <2>1. \A i \in 1..n + 1 : ~log'[i].ok => Earned(log', i)
    BY <1>t, <1>4, <1>5, <1>7, <1>8 DEF RefusalsEarned, BlockedInv
  <2>2. \A i \in 1..n + 1 : Earned(log', i) => Earned(log, i)'
    BY <1>2 DEF Earned
  <2> QED BY <1>4, <2>1, <2>2 DEF RefusalsEarned
<1>10. RepliesLogged'
  <2> SUFFICES ASSUME NEW c \in Calls
               PROVE  /\ reply'[c] # None => \E i \in 1..Len(log') :
                           log'[i].key = key'[c] /\ (log'[i].ok <=> Admits(reply'[c]))
                      /\ answer'[c] = "blocked" => \E i \in 1..Len(log') :
                           log'[i].key = key'[c] /\ ~log'[i].ok
    BY DEF RepliesLogged, Admits
  <2>1. /\ reply[c] # None => \E i \in 1..n :
               log'[i].key = key'[c] /\ (log'[i].ok <=> Admits(reply[c]))
        /\ answer[c] = "blocked" => \E i \in 1..n : log'[i].key = key'[c] /\ ~log'[i].ok
    BY <1>t, <1>2, <1>4 DEF RepliesLogged, BlockedInv
  <2>2. CASE reply'[c] = reply[c]
    BY <1>t, <1>2, <1>4, <2>1, <2>2
  <2>3. CASE c = p[1] /\ reply'[c] = counter[k] + 1
    <3>1. n + 1 \in 1..Len(log') /\ log'[n + 1].key = key'[c]
      BY <1>t, <1>1, <1>2, <1>4, <2>3
    <3>2. log'[n + 1].ok <=> Admits(reply'[c])
      BY <1>t, <1>4, <2>3
    <3>3. answer'[c] = "blocked" => \E i \in 1..Len(log') : log'[i].key = key'[c] /\ ~log'[i].ok
      BY <1>t, <1>2, <1>4, <2>1
    <3> QED BY <1>t, <3>1, <3>2, <3>3
  <2> QED BY <1>t, <1>2, <2>2, <2>3
<1> QED BY <1>t, <1>6, <1>9, <1>10 DEF BlockedInv

(* The clock closes windows and touches nothing else.                             *)
LEMMA TickCounted ==
    ASSUME TypeOK, BlockedInv, Tick
    PROVE  BlockedInv'
<1>1. UNCHANGED <<log, reply, answer, key, stray>>
  BY DEF Tick
<1>2. \A k \in Keys :
        /\ expiry'[k] # None => expiry'[k] = expiry[k] /\ counter'[k] = counter[k]
        /\ expiry'[k] = None /\ counter'[k] > 0 => expiry[k] = None /\ counter'[k] = counter[k]
  BY DEF Tick, TypeOK
<1>3. Counted'
  <2>0. ASSUME NEW k \in Keys, expiry'[k] = None, counter'[k] > 0 PROVE k \in stray'
    BY <1>1, <1>2, <2>0 DEF BlockedInv, Counted
  <2> SUFFICES ASSUME NEW k \in Keys, expiry'[k] # None
               PROVE  \/ counter'[k] <= Cardinality(Since(log', k, expiry'[k] - Window))
                      \/ k \in stray' /\ FirstSince(log', k, expiry'[k] - Window)
    BY <2>0 DEF Counted
  <2>1. expiry'[k] = expiry[k] /\ counter'[k] = counter[k] /\ log' = log
    BY <1>1, <1>2
  <2> QED
    BY <1>1, <2>1 DEF BlockedInv, Counted
<1>4. RefusalsEarned'
  BY <1>1 DEF BlockedInv, RefusalsEarned, Earned
<1>5. RepliesLogged'
  BY <1>1 DEF BlockedInv, RepliesLogged, Admits
<1> QED BY <1>3, <1>4, <1>5 DEF BlockedInv

(* The client moves the replies and the answers, and Redis knows nothing of it.   *)
LEMMA ClientCounted ==
    ASSUME TypeOK, BlockedInv, UNCHANGED <<time, counter, expiry, log, key, stray>>,
           \A c \in Calls :
              /\ reply'[c] # None => reply'[c] = reply[c]
              /\ answer'[c] = "blocked" =>
                    answer[c] = "blocked" \/ (reply[c] # None /\ ~Admits(reply[c]))
    PROVE  BlockedInv'
<1>1. Counted' /\ RefusalsEarned'
  <2>1. Counted'
    BY DEF BlockedInv, Counted, Since, FirstSince
  <2>2. RefusalsEarned'
    BY DEF BlockedInv, RefusalsEarned, Earned
  <2> QED BY <2>1, <2>2
<1>2. RepliesLogged'
  BY DEF BlockedInv, RepliesLogged, Admits
<1> QED BY <1>1, <1>2 DEF BlockedInv

LEMMA BlockedNext ==
    /\ TypeOK /\ TypeOK' /\ CounterAlwaysExpires /\ CounterAlwaysExpires' /\ BlockedInv
    /\ [Next]_vars
    => BlockedInv'
<1> SUFFICES ASSUME TypeOK, TypeOK', CounterAlwaysExpires, CounterAlwaysExpires', BlockedInv,
                    [Next]_vars
             PROVE  BlockedInv'
  OBVIOUS
<1>1. ASSUME NEW p \in pending, Execute(p[1], p[2]) PROVE BlockedInv'
  BY <1>1, ExecuteCounted
<1>2. ASSUME NEW c \in Calls, Send(c) PROVE BlockedInv'
  <2>1. UNCHANGED <<time, counter, expiry, log, key, stray, reply, answer>>
    BY <1>2 DEF Send, redis
  <2> QED BY <2>1, ClientCounted
<1>3. ASSUME NEW c \in Calls, Receive(c) PROVE BlockedInv'
  <2>1. UNCHANGED <<time, counter, expiry, log, key, stray, reply>>
    BY <1>3 DEF Receive, redis
  <2>2. \A d \in Calls : answer'[d] = "blocked" =>
           answer[d] = "blocked" \/ (reply[d] # None /\ ~Admits(reply[d]))
    BY <1>3 DEF Receive, TypeOK
  <2> QED BY <2>1, <2>2, ClientCounted
<1>4. ASSUME NEW c \in Calls, Fail(c) PROVE BlockedInv'
  <2>1. UNCHANGED <<time, counter, expiry, log, key, stray>>
    BY <1>4 DEF Fail, redis
  <2>2. \A d \in Calls : /\ reply'[d] # None => reply'[d] = reply[d]
                         /\ answer'[d] = "blocked" => answer[d] = "blocked"
    BY <1>4 DEF Fail, TypeOK
  <2> QED BY <2>1, <2>2, ClientCounted
<1>5. CASE Tick
  BY <1>5, TickCounted
<1>6. CASE UNCHANGED vars
  <2>1. UNCHANGED <<time, counter, expiry, log, key, stray, reply, answer>>
    BY <1>6 DEF vars
  <2> QED BY <2>1, ClientCounted
<1> QED BY <1>1, <1>2, <1>3, <1>4, <1>5, <1>6 DEF Next, Finished

(* A call is blocked only because the script counted it beyond the limit within a *)
(* window, or because its key was found with a count and no TTL and the script    *)
(* repaired it at most one window before: no failure, resend or expired count     *)
(* ever blocks a caller.                                                          *)
THEOREM BlockedCallsWereCounted == Spec => []BlockedIsCounted
<1>1. Spec => []BlockedInv
  BY BlockedInit, BlockedNext, TypeCorrect, CountersExpire, PTL DEF Spec
<1>2. BlockedInv => BlockedIsCounted
  <2> SUFFICES ASSUME BlockedInv, NEW c \in Calls, answer[c] = "blocked"
               PROVE  \E i \in 1..Len(log) :
                        /\ log[i].key = key[c] /\ ~log[i].ok
                        /\ \/ Cardinality({j \in 1..i : log[j].key = key[c]
                                             /\ log[j].at > log[i].at - Window}) > MaxRequests
                           \/ /\ key[c] \in stray
                              /\ \E j \in 1..i : /\ log[j].key = key[c]
                                                 /\ \A h \in 1..j - 1 : log[h].key # key[c]
                                                 /\ log[j].at > log[i].at - Window
    BY DEF BlockedIsCounted
  <2>1. PICK i \in 1..Len(log) : log[i].key = key[c] /\ ~log[i].ok
    BY DEF BlockedInv, RepliesLogged
  <2>2. Earned(log, i)
    BY <2>1 DEF BlockedInv, RefusalsEarned
  <2> QED BY <2>1, <2>2 DEF Earned
<1> QED BY <1>1, <1>2, PTL
-------------------------------------------------------------------------------
(* Two windows.                                                                   *)

(* The hits of k that were admitted in the stretch of one window from t.          *)
Adm(l, k, t) == {i \in 1..Len(l) : l[i].key = k /\ l[i].ok /\ l[i].at \in t..t + Window - 1}

Timed == \A i \in 1..Len(log) : log[i].at <= time

(* While the stretch from t lasts: before a window opens in it, it has admitted   *)
(* what one window may and what the open one has, less the execution that opened  *)
(* it; once a window opened in it, no more than that one and such a rest of the   *)
(* one before.                                                                    *)
Within(k, t) ==
    LET admitted == Cardinality(Adm(log, k, t)) IN
    /\ admitted <= 2 * MaxRequests - 1
    /\ time < t + Window =>
         /\ expiry[k] < t + Window => admitted <= MaxRequests - 1
         /\ expiry[k] # None /\ expiry[k] < t + Window => admitted <= counter[k] - 1
         /\ expiry[k] >= t + Window => admitted <= MaxRequests - 1 + counter[k]

TwoWindows == Timed /\ \A k \in Keys : \A t \in 0..time : Within(k, t)

LEMMA AdmFinite ==
    ASSUME NEW l \in Seq(LogEntries), NEW k, NEW t
    PROVE  IsFiniteSet(Adm(l, k, t)) /\ Cardinality(Adm(l, k, t)) \in Nat
<1>1. Len(l) \in Nat
  OBVIOUS
<1>2. IsFiniteSet(1..Len(l))
  BY <1>1, FS_Interval
<1>3. Adm(l, k, t) \subseteq 1..Len(l)
  BY DEF Adm
<1> QED BY <1>2, <1>3, FS_Subset, FS_CardinalityType

LEMMA TwoWindowsInit == Init => TwoWindows
<1> SUFFICES ASSUME Init PROVE TwoWindows
  OBVIOUS
<1>1. Len(log) = 0 /\ time = 0
  BY DEF Init
<1>2. ASSUME NEW k \in Keys, NEW t \in 0..time PROVE Within(k, t)
  <2>1. Adm(log, k, t) = {}
    BY <1>1 DEF Adm
  <2>2. Cardinality(Adm(log, k, t)) = 0
    BY <2>1, FS_EmptySet
  <2>3. counter[k] \in Nat
    BY TypeInit DEF TypeOK
  <2>4. expiry[k] = None
    BY DEF Init
  <2> QED BY <2>2, <2>3, <2>4, Parameters DEF Within
<1> QED BY <1>1, <1>2 DEF TwoWindows, Timed

(* An execution adds at most one hit to a stretch, and then only within the       *)
(* limit of the window it counts in, which is the open one or the one it opens.   *)
LEMMA TwoWindowsExecute ==
    ASSUME TypeOK, CounterAlwaysExpires, TwoWindows,
           NEW p \in pending, Execute(p[1], p[2])
    PROVE  TwoWindows'
<1>1. PICK k \in Keys : k = key[p[1]]
  BY DEF TypeOK
<1>2. /\ log \in Seq(LogEntries) /\ time \in Nat
      /\ \A j \in Keys : counter[j] \in Nat /\ expiry[j] \in Nat \cup {None}
  BY DEF TypeOK, LogEntries
<1>3. /\ counter' = [counter EXCEPT ![k] = @ + 1]
      /\ expiry' = IF SetsTtl(k) THEN [expiry EXCEPT ![k] = time + Window] ELSE expiry
      /\ log' = Append(log, [key |-> k, at |-> time, ok |-> Admits(counter[k] + 1)])
      /\ time' = time
  BY <1>1 DEF Execute
<1>4. [key |-> k, at |-> time, ok |-> Admits(counter[k] + 1)] \in LogEntries
  BY <1>2 DEF LogEntries, Admits
<1>5. PICK n \in Nat : n = Len(log)
  BY <1>2
<1>6. /\ log' \in Seq(LogEntries) /\ Len(log') = n + 1 /\ Len(log) = n
      /\ \A i \in 1..n : i \in 1..n + 1 /\ log'[i] = log[i]
      /\ log'[n + 1].key = k /\ log'[n + 1].at = time
      /\ log'[n + 1].ok <=> counter[k] + 1 <= MaxRequests
  <2>1. /\ log' \in Seq(LogEntries) /\ Len(log') = n + 1 /\ Len(log) = n
        /\ \A i \in 1..n : i \in 1..n + 1 /\ log'[i] = log[i]
        /\ log'[n + 1].key = k /\ log'[n + 1].at = time
        /\ log'[n + 1].ok <=> Admits(counter[k] + 1)
    BY <1>2, <1>3, <1>4, <1>5, AppendLog
  <2>2. Admits(counter[k] + 1) <=> counter[k] + 1 <= MaxRequests
    BY DEF Admits
  <2> QED BY <2>1, <2>2
<1>7. \A i \in 1..n + 1 : i \in 1..n \/ i = n + 1
  OBVIOUS
<1>8. Timed'
  BY <1>2, <1>3, <1>6, <1>7 DEF TwoWindows, Timed
<1>9. ASSUME NEW j \in Keys, NEW t \in 0..time PROVE Within(j, t)'
  <2> DEFINE A == Adm(log, j, t)
             B == Adm(log', j, t)
  <2>1. Within(j, t)
    BY <1>9 DEF TwoWindows
  <2>2. IsFiniteSet(A) /\ Cardinality(A) \in Nat
    BY <1>2, AdmFinite
  <2>3. /\ t \in Nat /\ t <= time
        /\ Window \in Nat /\ Window >= 1 /\ MaxRequests \in Nat /\ MaxRequests >= 1
    BY <1>2, Parameters
  <2>4. CASE j # k \/ time >= t + Window
    <3>1. B = A
      <4>1. CASE j # k
        BY <1>6, <1>7, <4>1 DEF Adm
      <4>2. CASE time >= t + Window
        <5>1. time \notin t..t + Window - 1
          BY <1>2, <2>3, <4>2
        <5> QED BY <1>6, <1>7, <5>1 DEF Adm
      <4> QED BY <2>4, <4>1, <4>2
    <3>2. j # k => counter'[j] = counter[j] /\ expiry'[j] = expiry[j]
      BY <1>2, <1>3 DEF TypeOK
    <3>3. Cardinality(B) = Cardinality(A)
      BY <3>1
    <3> HIDE DEF A, B
    <3>4. Cardinality(B) <= 2 * MaxRequests - 1
      BY <2>1, <3>3 DEF Within, A
    <3>5. CASE time >= t + Window
      <4>1. ~(time' < t + Window)
        BY <1>2, <1>3, <2>3, <3>5
      <4> QED BY <3>4, <4>1 DEF Within, B
    <3>6. CASE j # k
      BY <1>3, <2>1, <3>2, <3>3, <3>6 DEF Within, A, B
    <3> QED BY <2>4, <3>5, <3>6
  <2>5. CASE j = k /\ time < t + Window
    <3>1. /\ counter[k] + 1 <= MaxRequests => Cardinality(B) = Cardinality(A) + 1
          /\ ~(counter[k] + 1 <= MaxRequests) => Cardinality(B) = Cardinality(A)
      <4>1. time \in t..t + Window - 1
        BY <1>2, <2>3, <2>5
      <4>2. CASE counter[k] + 1 <= MaxRequests
        <5>1. B = A \cup {n + 1} /\ n + 1 \notin A
          BY <1>6, <1>7, <2>5, <4>1, <4>2 DEF Adm
        <5> HIDE DEF A, B
        <5> QED BY <2>2, <4>2, <5>1, FS_AddElement
      <4>3. CASE ~(counter[k] + 1 <= MaxRequests)
        <5>1. B = A
          BY <1>6, <1>7, <4>3 DEF Adm
        <5> QED BY <4>3, <5>1
      <4> QED BY <4>2, <4>3
    <3> HIDE DEF A, B
    <3>2. /\ Cardinality(A) <= 2 * MaxRequests - 1
          /\ expiry[k] < t + Window => Cardinality(A) <= MaxRequests - 1
          /\ expiry[k] # None /\ expiry[k] < t + Window => Cardinality(A) <= counter[k] - 1
          /\ expiry[k] >= t + Window => Cardinality(A) <= MaxRequests - 1 + counter[k]
      BY <2>1, <2>5 DEF Within, A
    <3>3. counter[k] \in Nat /\ counter'[k] = counter[k] + 1
      BY <1>2, <1>3 DEF TypeOK
    <3>4. /\ Cardinality(B) <= 2 * MaxRequests - 1
          /\ expiry'[k] < t + Window => Cardinality(B) <= MaxRequests - 1
          /\ expiry'[k] # None /\ expiry'[k] < t + Window => Cardinality(B) <= counter'[k] - 1
          /\ expiry'[k] >= t + Window => Cardinality(B) <= MaxRequests - 1 + counter'[k]
      <4>1. CASE expiry[k] = None
        <5>1. expiry'[k] = time + Window
          BY <1>3, <4>1 DEF SetsTtl, TypeOK
        <5>2. expiry[k] < t + Window
          BY <2>3, <4>1 DEF None
        <5>3. Cardinality(A) <= MaxRequests - 1
          BY <3>2, <5>2
        <5>4. Cardinality(B) <= MaxRequests /\ Cardinality(B) \in Nat
          BY <2>2, <2>3, <3>1, <3>3, <5>3
        <5>5. ~(expiry'[k] < t + Window)
          BY <1>2, <2>3, <5>1
        <5>6. Cardinality(B) <= 2 * MaxRequests - 1
          BY <2>3, <5>4
        <5>7. Cardinality(B) <= MaxRequests - 1 + counter'[k]
          BY <2>3, <3>3, <5>4
        <5> QED BY <5>5, <5>6, <5>7
      <4>2. CASE expiry[k] # None
        <5>1. expiry'[k] = expiry[k] /\ expiry[k] \in Nat
          BY <1>2, <1>3, <4>2 DEF SetsTtl, CounterAlwaysExpires
        <5>2. CASE expiry[k] < t + Window
          BY <2>2, <2>3, <3>1, <3>2, <3>3, <4>2, <5>1, <5>2
        <5>3. CASE expiry[k] >= t + Window
          BY <2>2, <2>3, <3>1, <3>2, <3>3, <4>2, <5>1, <5>3
        <5> QED BY <2>3, <5>1, <5>2, <5>3
      <4> QED BY <4>1, <4>2
    <3> QED BY <1>3, <2>5, <3>4 DEF Within, B
  <2> QED BY <1>2, <2>3, <2>4, <2>5
<1> QED BY <1>3, <1>8, <1>9 DEF TwoWindows

(* A window that closes while a stretch lasts opened before it.                   *)
LEMMA TwoWindowsTick ==
    ASSUME TypeOK, CounterAlwaysExpires, TwoWindows, Tick
    PROVE  TwoWindows'
<1>1. /\ time' = time + 1 /\ log' = log /\ time \in Nat /\ log \in Seq(LogEntries)
      /\ \A k \in Keys : counter[k] \in Nat /\ expiry[k] \in Nat \cup {None}
  BY DEF Tick, TypeOK, LogEntries
<1>2. \A i \in 1..Len(log) : log[i].at \in Nat /\ log[i].at <= time
  <2> SUFFICES ASSUME NEW i \in 1..Len(log) PROVE log[i].at \in Nat /\ log[i].at <= time
    OBVIOUS
  <2>1. log[i] \in LogEntries
    BY <1>1
  <2> QED BY <2>1 DEF LogEntries, TwoWindows, Timed
<1>3. Timed'
  BY <1>1, <1>2 DEF Timed
<1>4. ASSUME NEW k \in Keys, NEW t \in 0..time + 1 PROVE Within(k, t)'
  <2> DEFINE A == Adm(log, k, t)
  <2>1. t \in Nat /\ Window \in Nat /\ Window >= 1 /\ MaxRequests \in Nat /\ MaxRequests >= 1
    BY <1>1, Parameters
  <2>2. Cardinality(A) \in Nat
    BY <1>1, AdmFinite
  <2>3. /\ counter'[k] \in Nat
        /\ \/ expiry'[k] = None /\ expiry[k] # None /\ expiry[k] <= time + 1
           \/ expiry'[k] = expiry[k] /\ counter'[k] = counter[k]
        /\ expiry'[k] # None => counter'[k] >= 1
    BY <1>1 DEF Tick, CounterAlwaysExpires
  <2>4. CASE t = time + 1
    <3>1. A = {}
      BY <1>1, <1>2, <2>1, <2>4 DEF Adm
    <3>2. Cardinality(A) = 0
      BY <3>1, FS_EmptySet
    <3> HIDE DEF A
    <3> QED BY <1>1, <2>1, <2>3, <3>2 DEF Within, A
  <2>5. CASE t \in 0..time
    <3>1. Within(k, t)
      BY <2>5 DEF TwoWindows
    <3> HIDE DEF A
    <3>2. /\ Cardinality(A) <= 2 * MaxRequests - 1
          /\ time < t + Window =>
               /\ expiry[k] < t + Window => Cardinality(A) <= MaxRequests - 1
               /\ expiry[k] # None /\ expiry[k] < t + Window => Cardinality(A) <= counter[k] - 1
               /\ expiry[k] >= t + Window => Cardinality(A) <= MaxRequests - 1 + counter[k]
      BY <3>1 DEF Within, A
    <3>3. ASSUME time + 1 < t + Window
          PROVE  /\ expiry'[k] < t + Window => Cardinality(A) <= MaxRequests - 1
                 /\ expiry'[k] # None /\ expiry'[k] < t + Window => Cardinality(A) <= counter'[k] - 1
                 /\ expiry'[k] >= t + Window => Cardinality(A) <= MaxRequests - 1 + counter'[k]
      <4>1. time < t + Window
        BY <1>1, <2>1, <3>3
      <4>2. CASE expiry'[k] = expiry[k] /\ counter'[k] = counter[k]
        BY <3>2, <4>1, <4>2
      <4>3. CASE expiry'[k] = None /\ expiry[k] # None /\ expiry[k] <= time + 1
        <5>1. expiry[k] < t + Window
          BY <1>1, <2>1, <3>3, <4>3
        <5>2. ~(expiry'[k] >= t + Window)
          BY <2>1, <4>3 DEF None
        <5> QED BY <3>2, <4>1, <4>3, <5>1, <5>2
      <4> QED BY <2>3, <4>2, <4>3
    <3> QED BY <1>1, <3>2, <3>3 DEF Within, A
  <2> QED BY <1>1, <2>4, <2>5
<1> QED BY <1>1, <1>3, <1>4 DEF TwoWindows

(* A key is admitted fewer than 2 * max_requests times in a stretch of one        *)
(* window, over all replicas and whatever calls are delayed, resent or given up:  *)
(* a window that closes within such a stretch was opened by a hit before it, and  *)
(* the next one outlasts it.                                                      *)
THEOREM AtMostTwoWindowsAdmitted == Spec => []AtMostTwoWindows
<1>1. TypeOK /\ CounterAlwaysExpires /\ TwoWindows /\ [Next]_vars => TwoWindows'
  <2> SUFFICES ASSUME TypeOK, CounterAlwaysExpires, TwoWindows, [Next]_vars PROVE TwoWindows'
    OBVIOUS
  <2>1. ASSUME NEW p \in pending, Execute(p[1], p[2]) PROVE TwoWindows'
    BY <2>1, TwoWindowsExecute
  <2>2. CASE Tick
    BY <2>2, TwoWindowsTick
  <2>3. CASE UNCHANGED <<time, counter, expiry, log, key>>
    BY <2>3 DEF TwoWindows, Timed, Within, Adm
  <2> QED BY <2>1, <2>2, <2>3, RedisStep
<1>2. TwoWindows => AtMostTwoWindows
  <2> SUFFICES ASSUME TwoWindows, NEW k \in Keys, NEW t \in 0..time
               PROVE  Promise!Cardinality(Promise!Admitted(k, t, t + Window - 1)) <= 2 * MaxRequests - 1
    BY DEF AtMostTwoWindows, Promise!AtMostTwoWindows
  <2>1. Promise!Admitted(k, t, t + Window - 1) = Adm(log, k, t)
    BY DEF Promise!Admitted, Adm
  <2>2. Promise!Cardinality(Adm(log, k, t)) = Cardinality(Adm(log, k, t))
    BY Zenon DEF Promise!Cardinality, Cardinality
  <2>3. Within(k, t)
    BY DEF TwoWindows
  <2> QED BY <2>1, <2>2, <2>3 DEF Within
<1> QED BY TwoWindowsInit, <1>1, <1>2, TypeCorrect, CountersExpire, PTL DEF Spec
===============================================================================
