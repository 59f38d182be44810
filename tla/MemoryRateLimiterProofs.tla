------------------------ MODULE MemoryRateLimiterProofs ------------------------
(* Proofs about the in-memory rate limiter: for any keys, limit, window and       *)
(* number of tracked keys, eviction takes the least recently touched key, the     *)
(* limiter implements a fixed-window limiter that forgets only to make room, a    *)
(* refusal is earned and two windows' worth is the most it ever admits.           *)
EXTENDS MemoryRateLimiter, FiniteSetTheorems, SequenceTheorems, TLAPS

Hits == [key : Keys, at : Nat, ok : BOOLEAN]

LEMMA Parameters ==
    /\ MaxRequests \in Nat /\ MaxRequests >= 1 /\ Window \in Nat /\ Window >= 1
    /\ MaxTrackedKeys \in Nat /\ MaxTrackedKeys >= 1 /\ MaxCalls \in Nat /\ MaxTime \in Nat
BY MemoryLimiterAssumption

-------------------------------------------------------------------------------
(* The order of the tracked keys.                                                 *)

Distinct(o) == \A i, j \in 1..Len(o) : o[i] = o[j] => i = j

(* A sequence without repetition is as long as the set of its elements.           *)
LEMMA DistinctLength ==
    ASSUME NEW o \in Seq(Keys), Distinct(o)
    PROVE  /\ IsFiniteSet({o[i] : i \in 1..Len(o)})
           /\ Len(o) = Cardinality({o[i] : i \in 1..Len(o)})
<1> DEFINE S == {o[i] : i \in 1..Len(o)}
           f == [i \in 1..Len(o) |-> o[i]]
<1>1. Len(o) \in Nat
  OBVIOUS
<1>2. IsFiniteSet(1..Len(o)) /\ Cardinality(1..Len(o)) = Len(o)
  BY <1>1, FS_Interval
<1>3. f \in Bijection(1..Len(o), S)
  <2>1. f \in [1..Len(o) -> S] /\ \A i \in 1..Len(o) : f[i] = o[i]
    OBVIOUS
  <2>2. f \in Injection(1..Len(o), S)
    BY <2>1 DEF Distinct, Injection, IsInjective
  <2>3. f \in Surjection(1..Len(o), S)
    BY <2>1 DEF Surjection
  <2> QED BY <2>2, <2>3 DEF Bijection
<1>4. ExistsBijection(1..Len(o), S)
  BY <1>3 DEF ExistsBijection
<1> QED BY <1>2, <1>4, FS_Bijection

(* The key is the last of the sequence and nowhere else.                          *)
Last(t, k) == Len(t) >= 1 /\ t[Len(t)] = k /\ \A p \in 1..Len(t) - 1 : t[p] # k

(* What stands before the last element comes from the other sequence, in order.   *)
OrderKept(o, t) ==
    /\ \A p \in 1..Len(t) - 1 : \E a \in 1..Len(o) : o[a] = t[p]
    /\ \A p, q \in 1..Len(t) - 1 :
          p < q => \E a, b \in 1..Len(o) : a < b /\ o[a] = t[p] /\ o[b] = t[q]

Kept(t, x) == \E p \in 1..Len(t) - 1 : t[p] = x

(* move_to_end, or the insertion of a new key at the end: the other keys keep     *)
(* their order.                                                                   *)
LEMMA TouchedOrder ==
    ASSUME NEW k \in Keys, order \in Seq(Keys), Distinct(order)
    PROVE  /\ Touched(k) \in Seq(Keys)
           /\ Len(Touched(k)) = IF k \in Tracked THEN Len(order) ELSE Len(order) + 1
           /\ Last(Touched(k), k) /\ OrderKept(order, Touched(k))
           /\ \A a \in 1..Len(order) : order[a] = k \/ Kept(Touched(k), order[a])
           /\ k \notin Tracked => \A p \in 1..Len(order) : Touched(k)[p] = order[p]
<1> DEFINE t == Touched(k)
<1>1. PICK n \in Nat : n = Len(order) /\ \A i \in 1..n : order[i] \in Keys
  OBVIOUS
<1>2. CASE k \notin Tracked
  <2>1. t = Append(order, k)
    BY <1>2 DEF Touched
  <2>2. /\ t \in Seq(Keys) /\ Len(t) = n + 1 /\ t[n + 1] = k
        /\ \A i \in 1..n : t[i] = order[i]
    BY <1>1, <2>1
  <2>3. \A a \in 1..n : order[a] # k
    BY <1>1, <1>2 DEF Tracked
  <2>4. Len(t) - 1 = n
    BY <1>1, <2>2
  <2> HIDE DEF t
  <2>5. \A p \in 1..n : t[p] # k /\ \E a \in 1..n : order[a] = t[p]
    BY <2>2, <2>3
  <2>6. \A p, q \in 1..n : p < q => \E a, b \in 1..n : a < b /\ order[a] = t[p] /\ order[b] = t[q]
    BY <2>2
  <2>7. \A a \in 1..n : \E p \in 1..n : t[p] = order[a]
    BY <2>2
  <2>8. Last(t, k)
    BY <1>1, <2>2, <2>4, <2>5 DEF Last
  <2>9. OrderKept(order, t)
    <3>1. 1..Len(t) - 1 = 1..n
      BY <2>4
    <3>2. ASSUME NEW x \in 1..Len(t) - 1
          PROVE  \E a \in 1..Len(order) : order[a] = t[x]
      BY <1>1, <2>5, <3>1
    <3>3. ASSUME NEW x \in 1..Len(t) - 1, NEW y \in 1..Len(t) - 1, x < y
          PROVE  \E a, b \in 1..Len(order) : a < b /\ order[a] = t[x] /\ order[b] = t[y]
      <4>1. x \in 1..n /\ y \in 1..n
        BY <3>1
      <4>2. \E a, b \in 1..n : a < b /\ order[a] = t[x] /\ order[b] = t[y]
        BY <2>6, <3>3, <4>1
      <4> QED BY <1>1, <4>2
    <3> QED BY <3>2, <3>3 DEF OrderKept
  <2>10. \A a \in 1..n : Kept(t, order[a])
    BY <2>4, <2>7 DEF Kept
  <2> QED BY <1>1, <1>2, <2>2, <2>8, <2>9, <2>10 DEF t
<1>3. CASE k \in Tracked
  <2> DEFINE p0 == CHOOSE i \in 1..Len(order) : order[i] = k
  <2>1. PICK p \in 1..n : p = p0 /\ order[p] = k
    BY <1>1, <1>3 DEF Tracked
  <2>2. t = [i \in 1..n |-> IF i < p THEN order[i] ELSE IF i < n THEN order[i + 1] ELSE k]
    BY <1>1, <1>3, <2>1 DEF Touched
  <2>3. t \in [1..n -> Keys]
    <3>1. \A i \in 1..n : ~(i < p) /\ i < n => i + 1 \in 1..n
      BY <1>1
    <3> QED BY <1>1, <2>2, <3>1
  <2>4. t \in Seq(Keys) /\ Len(t) = n
    BY <1>1, <2>3, SeqDef
  <2>5. /\ \A i \in 1..n - 1 : t[i] = IF i < p THEN order[i] ELSE order[i + 1]
        /\ t[n] = k /\ n >= 1
    BY <1>1, <2>1, <2>2
  <2>6. \A a \in 1..n : order[a] = k => a = p
    BY <1>1, <2>1 DEF Distinct
  <2> HIDE DEF t, p0
  <2>7. ASSUME NEW i \in 1..n - 1 PROVE t[i] # k /\ \E a \in 1..n : order[a] = t[i]
    <3>1. CASE i < p
      <4>1. i \in 1..n /\ i # p
        BY <1>1, <3>1
      <4> QED BY <2>5, <2>6, <3>1, <4>1
    <3>2. CASE ~(i < p)
      <4>1. i + 1 \in 1..n /\ i + 1 # p
        BY <1>1, <3>2
      <4> QED BY <2>5, <2>6, <3>2, <4>1
    <3> QED BY <3>1, <3>2
  <2>8. ASSUME NEW i \in 1..n - 1, NEW j \in 1..n - 1, i < j
        PROVE  \E a, b \in 1..n : a < b /\ order[a] = t[i] /\ order[b] = t[j]
    <3>1. PICK a \in 1..n : a = IF i < p THEN i ELSE i + 1
      BY <1>1
    <3>2. PICK b \in 1..n : b = IF j < p THEN j ELSE j + 1
      BY <1>1
    <3>3. a < b
      BY <1>1, <2>8, <3>1, <3>2
    <3>4. order[a] = t[i] /\ order[b] = t[j]
      BY <2>5, <3>1, <3>2
    <3> QED BY <3>3, <3>4
  <2>9. ASSUME NEW a \in 1..n, order[a] # k PROVE \E i \in 1..n - 1 : t[i] = order[a]
    <3>1. CASE a < p
      <4>1. a \in 1..n - 1
        BY <1>1, <3>1
      <4> QED BY <2>5, <3>1, <4>1
    <3>2. CASE a > p
      <4>1. a - 1 \in 1..n - 1 /\ ~(a - 1 < p) /\ (a - 1) + 1 = a
        BY <1>1, <3>2
      <4> QED BY <2>5, <4>1
    <3>3. a # p
      BY <2>1, <2>9
    <3> QED BY <1>1, <3>1, <3>2, <3>3
  <2>10. Last(t, k)
    BY <2>4, <2>5, <2>7 DEF Last
  <2>11. OrderKept(order, t)
    <3>1. 1..Len(t) - 1 = 1..n - 1
      BY <2>4
    <3>2. ASSUME NEW x \in 1..Len(t) - 1
          PROVE  \E a \in 1..Len(order) : order[a] = t[x]
      BY <1>1, <2>7, <3>1
    <3>3. ASSUME NEW x \in 1..Len(t) - 1, NEW y \in 1..Len(t) - 1, x < y
          PROVE  \E a, b \in 1..Len(order) : a < b /\ order[a] = t[x] /\ order[b] = t[y]
      <4>1. x \in 1..n - 1 /\ y \in 1..n - 1
        BY <3>1
      <4>2. \E a, b \in 1..n : a < b /\ order[a] = t[x] /\ order[b] = t[y]
        BY <2>8, <3>3, <4>1
      <4> QED BY <1>1, <4>2
    <3> QED BY <3>2, <3>3 DEF OrderKept
  <2>12. \A a \in 1..n : order[a] = k \/ Kept(t, order[a])
    BY <2>4, <2>9 DEF Kept
  <2> QED BY <1>1, <1>3, <2>4, <2>10, <2>11, <2>12 DEF t
<1> QED BY <1>2, <1>3

(* What a call does to the order: its key is last, the others keep their order,   *)
(* and the only key that may go is the first one, when the table was full and     *)
(* the key of the call was not in it.                                             *)
LEMMA OrderStep ==
    ASSUME NEW k \in Keys, order \in Seq(Keys), Distinct(order), Len(order) <= MaxTrackedKeys,
           order' = Evicted(Touched(k))
    PROVE  /\ order' \in Seq(Keys) /\ Len(order') \in 1..MaxTrackedKeys
           /\ Last(order', k) /\ OrderKept(order, order')
           /\ \A a \in 1..Len(order) :
                \/ order[a] = k \/ Kept(order', order[a])
                \/ a = 1 /\ k \notin Tracked /\ Len(order) = MaxTrackedKeys
<1> DEFINE t == Touched(k)
<1>1. PICK n \in Nat : n = Len(order)
  OBVIOUS
<1>2. /\ t \in Seq(Keys)
      /\ Len(t) = IF k \in Tracked THEN n ELSE n + 1
      /\ Last(t, k) /\ OrderKept(order, t)
      /\ \A a \in 1..n : order[a] = k \/ Kept(t, order[a])
      /\ k \notin Tracked => \A p \in 1..n : t[p] = order[p]
  BY <1>1, TouchedOrder
<1> HIDE DEF t
<1>3. CASE Len(t) <= MaxTrackedKeys
  <2>1. order' = t
    BY <1>3, Parameters DEF Evicted, t
  <2>2. Len(t) \in 1..MaxTrackedKeys
    BY <1>2, <1>3, Parameters DEF Last
  <2> QED BY <1>1, <1>2, <2>1, <2>2
<1>4. CASE Len(t) > MaxTrackedKeys
  <2>1. k \notin Tracked /\ n = MaxTrackedKeys /\ Len(t) = n + 1 /\ n >= 1
    BY <1>1, <1>2, <1>4, Parameters
  <2>2. order' = Tail(t)
    BY <1>4 DEF Evicted, t
  <2>3. order' \in Seq(Keys) /\ Len(order') = n /\ \A i \in 1..n : order'[i] = t[i + 1]
    BY <1>2, <2>1, <2>2
  <2>4. t[n + 1] = k /\ \A p \in 1..n : t[p] = order[p] /\ t[p] # k
    <3>1. Len(t) - 1 = n
      BY <2>1
    <3> QED BY <1>2, <2>1, <3>1 DEF Last
  <2>5. \A p \in 1..n - 1 : p \in 1..n /\ p + 1 \in 1..n /\ order'[p] = order[p + 1]
    <3>1. \A p \in 1..n - 1 : p \in 1..n /\ p + 1 \in 1..n
      BY <2>1
    <3> QED BY <2>3, <2>4, <3>1
  <2>6. Last(order', k)
    BY <2>1, <2>3, <2>4, <2>5 DEF Last
  <2>7. OrderKept(order, order')
    <3>1. \A p \in 1..n - 1 : \E a \in 1..n : order[a] = order'[p]
      BY <2>5
    <3>2. \A p, q \in 1..n - 1 : p < q =>
             p + 1 < q + 1 /\ order[p + 1] = order'[p] /\ order[q + 1] = order'[q]
      BY <2>1, <2>5
    <3>3. \A p, q \in 1..n - 1 : p < q =>
             \E a, b \in 1..n : a < b /\ order[a] = order'[p] /\ order[b] = order'[q]
      BY <2>5, <3>2
    <3>4. 1..Len(order') - 1 = 1..n - 1
      BY <2>3
    <3>5. ASSUME NEW x \in 1..Len(order') - 1
          PROVE  \E a \in 1..Len(order) : order[a] = order'[x]
      BY <1>1, <3>1, <3>4
    <3>6. ASSUME NEW x \in 1..Len(order') - 1, NEW y \in 1..Len(order') - 1, x < y
          PROVE  \E a, b \in 1..Len(order) : a < b /\ order[a] = order'[x] /\ order[b] = order'[y]
      <4>1. x \in 1..n - 1 /\ y \in 1..n - 1
        BY <3>4
      <4>2. \E a, b \in 1..n : a < b /\ order[a] = order'[x] /\ order[b] = order'[y]
        BY <3>3, <3>6, <4>1
      <4> QED BY <1>1, <4>2
    <3> QED BY <3>5, <3>6 DEF OrderKept
  <2>8. ASSUME NEW a \in 1..n, a # 1 PROVE Kept(order', order[a])
    <3>1. a - 1 \in 1..n - 1 /\ (a - 1) + 1 = a
      BY <2>1, <2>8
    <3>2. order'[a - 1] = order[a]
      BY <2>5, <3>1
    <3> QED BY <2>3, <3>1, <3>2 DEF Kept
  <2>9. n \in 1..MaxTrackedKeys
    BY <2>1
  <2> QED BY <1>1, <2>1, <2>3, <2>6, <2>7, <2>8, <2>9
<1>5. Len(t) \in Nat
  BY <1>2
<1> QED BY <1>3, <1>4, <1>5, Parameters
-------------------------------------------------------------------------------
(* The log, and what the order says of it.                                        *)

LEMMA AppendHit ==
    ASSUME NEW l \in Seq(Hits), NEW e \in Hits
    PROVE  /\ Append(l, e) \in Seq(Hits)
           /\ Len(Append(l, e)) = Len(l) + 1 /\ Len(l) \in Nat
           /\ \A i \in 1..Len(l) : Append(l, e)[i] = l[i]
           /\ Append(l, e)[Len(l) + 1] = e
OBVIOUS

(* x was hit after the last hit of y.                                             *)
HitAfter(l, x, y) ==
    \E i \in 1..Len(l) : l[i].key = x /\ \A h \in i..Len(l) : l[h].key # y

(* A tracked key was hit after those before it in the order: the order of the     *)
(* OrderedDict is the order of the last hits.                                     *)
Recency == \A p, q \in 1..Len(order) : p < q => HitAfter(log, order[q], order[p])

(* The log is in the order of time, and no window starts in the future.           *)
Timed ==
    /\ \A i \in 1..Len(log) : log[i].at <= time
    /\ \A i, h \in 1..Len(log) : i <= h => log[i].at <= log[h].at
    /\ \A k \in Keys : start[k] <= time

MemInv == TypeOK /\ Distinct(order) /\ Recency /\ Timed

LEMMA MemInit == Init => MemInv
<1> SUFFICES ASSUME Init PROVE MemInv
  OBVIOUS
<1>1. order = <<>> /\ log = <<>> /\ Len(order) = 0 /\ Len(log) = 0
  BY DEF Init
<1>2. Distinct(order) /\ Recency
  BY <1>1 DEF Distinct, Recency
<1>3. Timed
  BY <1>1 DEF Timed, Init
<1>4. order \in Seq(Keys) /\ log \in Seq(Hits) /\ Len(order) = Cardinality(Tracked)
  <2>1. Tracked = {}
    BY <1>1 DEF Tracked
  <2> QED BY <1>1, <2>1, FS_EmptySet
<1>5. TypeOK
  BY <1>1, <1>4, Parameters DEF Init, TypeOK, Hits
<1> QED BY <1>2, <1>3, <1>5 DEF MemInv

LEMMA AllowLog ==
    ASSUME MemInv, NEW k \in Keys, Allow(k)
    PROVE  /\ log \in Seq(Hits) /\ log' \in Seq(Hits) /\ Len(log) \in Nat
           /\ Len(log') = Len(log) + 1
           /\ \A i \in 1..Len(log) : log'[i] = log[i]
           /\ log'[Len(log) + 1].key = k /\ log'[Len(log) + 1].at = time
           /\ log'[Len(log) + 1].ok
                <=> Admits(IF StartsWindow(k) THEN 1 ELSE count[k] + 1)
           /\ time' = time /\ time \in Nat
<1> DEFINE e == [key |-> k, at |-> time, ok |-> Admits(IF StartsWindow(k) THEN 1 ELSE count[k] + 1)]
<1>1. time \in Nat /\ log \in Seq(Hits)
  BY Parameters DEF MemInv, TypeOK, Hits
<1>2. e \in Hits
  BY <1>1 DEF Hits, Admits
<1>3. log' = Append(log, e) /\ time' = time
  BY DEF Allow
<1>4. e.key = k /\ e.at = time
      /\ (e.ok <=> Admits(IF StartsWindow(k) THEN 1 ELSE count[k] + 1))
  OBVIOUS
<1> HIDE DEF e
<1> QED BY <1>1, <1>2, <1>3, <1>4, AppendHit

LEMMA MemNext == MemInv /\ [Next]_vars => MemInv'
<1> SUFFICES ASSUME MemInv, [Next]_vars PROVE MemInv'
  OBVIOUS
<1>0. TypeOK /\ Distinct(order) /\ Recency /\ Timed
  BY DEF MemInv
<1>1. ASSUME NEW k \in Keys, Allow(k) PROVE MemInv'
  <2>1. /\ order' \in Seq(Keys) /\ Len(order') \in 1..MaxTrackedKeys
        /\ Last(order', k) /\ OrderKept(order, order')
    BY <1>0, <1>1, OrderStep DEF Allow, TypeOK
  <2>2. Distinct(order')
    <3> SUFFICES ASSUME NEW i \in 1..Len(order'), NEW j \in 1..Len(order'),
                        order'[i] = order'[j], i < j
                 PROVE  FALSE
      BY <2>1 DEF Distinct
    <3>1. i \in 1..Len(order') - 1
      BY <2>1
    <3>2. CASE j = Len(order')
      BY <2>1, <3>1, <3>2 DEF Last
    <3>3. CASE j # Len(order')
      <4>1. j \in 1..Len(order') - 1
        BY <2>1, <3>3
      <4>2. PICK a \in 1..Len(order), b \in 1..Len(order) :
               a < b /\ order[a] = order'[i] /\ order[b] = order'[j]
        BY <2>1, <3>1, <4>1 DEF OrderKept
      <4>3. a = b
        BY <1>0, <4>2 DEF Distinct
      <4> QED BY <4>2, <4>3
    <3> QED BY <3>2, <3>3
  <2>3. Recency'
    <3> SUFFICES ASSUME NEW p \in 1..Len(order'), NEW q \in 1..Len(order'), p < q
                 PROVE  HitAfter(log', order'[q], order'[p])
      BY DEF Recency
    <3>1. p \in 1..Len(order') - 1 /\ order'[p] # k
      BY <2>1 DEF Last
    <3>2. CASE q = Len(order')
      <4>1. order'[q] = k
        BY <2>1, <3>2 DEF Last
      <4>2. Len(log') \in 1..Len(log') /\ log'[Len(log')].key = k
        BY <1>1, AllowLog
      <4>3. \A h \in Len(log')..Len(log') : log'[h].key = k
        BY <4>2
      <4> QED BY <3>1, <4>1, <4>2, <4>3 DEF HitAfter
    <3>3. CASE q # Len(order')
      <4>1. q \in 1..Len(order') - 1
        BY <2>1, <3>3
      <4>2. PICK a \in 1..Len(order), b \in 1..Len(order) :
               a < b /\ order[a] = order'[p] /\ order[b] = order'[q]
        BY <2>1, <3>1, <4>1 DEF OrderKept
      <4>3. HitAfter(log, order'[q], order'[p])
        BY <1>0, <4>2 DEF Recency
      <4>4. PICK i \in 1..Len(log) : /\ log[i].key = order'[q]
                                     /\ \A h \in i..Len(log) : log[h].key # order'[p]
        BY <4>3 DEF HitAfter
      <4>5. i \in 1..Len(log') /\ log'[i].key = order'[q]
        BY <1>1, <4>4, AllowLog
      <4>6. \A h \in i..Len(log') : log'[h].key # order'[p]
        <5> SUFFICES ASSUME NEW h \in i..Len(log') PROVE log'[h].key # order'[p]
          OBVIOUS
        <5>1. CASE h = Len(log) + 1
          BY <1>1, <3>1, <5>1, AllowLog
        <5>2. CASE h # Len(log) + 1
          <6>1. h \in i..Len(log) /\ h \in 1..Len(log)
            BY <1>1, <5>2, AllowLog
          <6> QED BY <1>1, <4>4, <6>1, AllowLog
        <5> QED BY <5>1, <5>2
      <4> QED BY <4>5, <4>6 DEF HitAfter
    <3> QED BY <3>2, <3>3
  <2>4. Timed'
    <3>1. \A i \in 1..Len(log') : i \in 1..Len(log) \/ i = Len(log) + 1
      BY <1>1, AllowLog
    <3>2. \A i \in 1..Len(log') : log'[i].at <= time'
      BY <1>0, <1>1, <3>1, AllowLog DEF Timed
    <3>3. ASSUME NEW i \in 1..Len(log'), NEW h \in 1..Len(log'), i <= h
          PROVE  log'[i].at <= log'[h].at
      <4>1. CASE h = Len(log) + 1
        BY <1>1, <3>2, <4>1, AllowLog
      <4>2. CASE h # Len(log) + 1
        <5>1. i \in 1..Len(log) /\ h \in 1..Len(log)
          BY <1>1, <3>1, <3>3, <4>2, AllowLog
        <5> QED BY <1>0, <1>1, <3>3, <5>1, AllowLog DEF Timed
      <4> QED BY <4>1, <4>2
    <3>4. \A j \in Keys : start'[j] <= time'
      BY <1>0, <1>1 DEF Allow, WindowStart, Timed, TypeOK
    <3> QED BY <3>2, <3>3, <3>4 DEF Timed
  <2>5. TypeOK'
    <3>1. start' \in [Keys -> Nat] /\ count' \in [Keys -> Nat] /\ time' \in 0..MaxTime
      BY <1>0, <1>1, Parameters DEF Allow, WindowStart, TypeOK
    <3>2. Len(order') = Cardinality(Tracked') /\ Len(order') <= MaxTrackedKeys
      <4>1. Len(order') = Cardinality({order'[i] : i \in 1..Len(order')})
        BY <2>1, <2>2, DistinctLength
      <4>2. Tracked' = {order'[i] : i \in 1..Len(order')}
        BY DEF Tracked
      <4> QED BY <2>1, <4>1, <4>2, Parameters
    <3>3. log' \in Seq(Hits)
      BY <1>1, AllowLog
    <3> QED BY <2>1, <3>1, <3>2, <3>3 DEF TypeOK, Hits
  <2> QED BY <2>2, <2>3, <2>4, <2>5 DEF MemInv
<1>2. CASE Tick
  <2>1. UNCHANGED <<order, start, count, log>> /\ time' = time + 1 /\ time' \in 0..MaxTime
    BY <1>0, <1>2, Parameters DEF Tick, TypeOK
  <2>2. TypeOK'
    BY <1>0, <2>1 DEF TypeOK, Tracked
  <2>3. Timed'
    <3>1. time \in Nat /\ log \in Seq(Hits)
      BY <1>0, Parameters DEF TypeOK, Hits
    <3>2. \A i \in 1..Len(log) : log[i].at <= time + 1
      <4> SUFFICES ASSUME NEW i \in 1..Len(log) PROVE log[i].at <= time + 1
        OBVIOUS
      <4>1. log[i] \in Hits
        BY <3>1
      <4>2. log[i].at \in Nat
        BY <4>1 DEF Hits
      <4> QED BY <1>0, <3>1, <4>2 DEF Timed
    <3>3. \A k \in Keys : start[k] <= time + 1
      BY <1>0, <3>1 DEF Timed, TypeOK
    <3> QED BY <1>0, <2>1, <3>2, <3>3 DEF Timed
  <2> QED BY <1>0, <2>1, <2>2, <2>3 DEF MemInv, Recency
<1>3. CASE UNCHANGED vars
  BY <1>0, <1>3 DEF vars, MemInv, TypeOK, Tracked, Recency, Timed
<1> QED BY <1>1, <1>2, <1>3 DEF Next, Finished

LEMMA MemCorrect == Spec => []MemInv
BY MemInit, MemNext, PTL DEF Spec

(* The table never holds more than max_tracked_keys entries nor one key twice,    *)
(* whichever keys are called and evicted.                                         *)
THEOREM TypeCorrect == Spec => []TypeOK
BY MemCorrect, PTL DEF MemInv
-------------------------------------------------------------------------------
(* Eviction.                                                                      *)

(* A call leaves its own key tracked and adds no other; what it drops is the      *)
(* first of a full table.                                                         *)
LEMMA TrackedStep ==
    ASSUME MemInv, NEW k \in Keys, Allow(k)
    PROVE  /\ k \in Tracked'
           /\ \A j \in Keys \ {k} : j \in Tracked' => j \in Tracked
           /\ \A j \in Tracked : j \notin Tracked' =>
                j # k /\ k \notin Tracked /\ Len(order) = MaxTrackedKeys /\ order[1] = j
<1>1. /\ order' \in Seq(Keys) /\ Len(order') \in 1..MaxTrackedKeys
      /\ Last(order', k) /\ OrderKept(order, order')
      /\ \A a \in 1..Len(order) :
           \/ order[a] = k \/ Kept(order', order[a])
           \/ a = 1 /\ k \notin Tracked /\ Len(order) = MaxTrackedKeys
  BY OrderStep DEF Allow, MemInv, TypeOK
<1>2. Tracked' = {order'[i] : i \in 1..Len(order')}
  BY DEF Tracked
<1>3. k \in Tracked'
  BY <1>1, <1>2 DEF Last
<1>4. ASSUME NEW j \in Keys \ {k}, j \in Tracked' PROVE j \in Tracked
  <2>1. PICK i \in 1..Len(order') : order'[i] = j
    BY <1>2, <1>4
  <2>2. i \in 1..Len(order') - 1
    BY <1>1, <2>1 DEF Last
  <2> QED BY <1>1, <2>1, <2>2 DEF OrderKept, Tracked
<1>5. ASSUME NEW j \in Tracked, j \notin Tracked'
      PROVE  j # k /\ k \notin Tracked /\ Len(order) = MaxTrackedKeys /\ order[1] = j
  <2>1. PICK a \in 1..Len(order) : order[a] = j
    BY DEF Tracked
  <2>2. j # k
    BY <1>3, <1>5
  <2>3. ~Kept(order', j)
    <3>1. \A i \in 1..Len(order') - 1 : i \in 1..Len(order')
      BY <1>1
    <3> QED BY <1>2, <1>5, <3>1 DEF Kept
  <2> QED BY <1>1, <2>1, <2>2, <2>3
<1> QED BY <1>3, <1>4, <1>5

(* The other keys of a full table, with a new one, are as many as it may hold.    *)
LEMMA FullTable ==
    ASSUME MemInv, NEW k \in Keys, k \notin Tracked, Len(order) = MaxTrackedKeys,
           NEW S, IsFiniteSet(S), k \in S, \A q \in 2..MaxTrackedKeys : order[q] \in S
    PROVE  Cardinality(S) >= MaxTrackedKeys /\ Cardinality(S) \in Nat
<1> DEFINE n == MaxTrackedKeys
           f == [i \in 1..n |-> IF i < n THEN order[i + 1] ELSE k]
<1>1. n \in Nat /\ n >= 1 /\ IsFiniteSet(1..n) /\ Cardinality(1..n) = n
  BY Parameters, FS_Interval
<1>2. \A i \in 1..n : i < n => i + 1 \in 2..n /\ i + 1 \in 1..n
  BY <1>1
<1>3. f \in [1..n -> S]
  BY <1>2
<1>4. \A q \in 1..n : order[q] # k
  BY DEF Tracked
<1>5. ASSUME NEW i \in 1..n, NEW j \in 1..n, f[i] = f[j] PROVE i = j
  <2>1. CASE i < n /\ j < n
    <3>1. order[i + 1] = order[j + 1]
      BY <1>5, <2>1
    <3>2. i + 1 = j + 1
      BY <1>2, <2>1, <3>1 DEF MemInv, Distinct
    <3> QED BY <3>2
  <2>2. CASE i < n /\ ~(j < n)
    BY <1>2, <1>4, <1>5, <2>2
  <2>3. CASE ~(i < n) /\ j < n
    BY <1>2, <1>4, <1>5, <2>3
  <2>4. CASE ~(i < n) /\ ~(j < n)
    BY <1>1, <2>4
  <2> QED BY <2>1, <2>2, <2>3, <2>4
<1>6. f \in Injection(1..n, S)
  BY <1>3, <1>5 DEF Injection, IsInjective
<1> HIDE DEF f
<1>7. Cardinality(1..n) <= Cardinality(S)
  BY <1>6, FS_Injection
<1> QED BY <1>1, <1>7, FS_CardinalityType

LEMMA KeysFinite ==
    ASSUME NEW l \in Seq(Hits), NEW I \in SUBSET (1..Len(l))
    PROVE  IsFiniteSet({l[i].key : i \in I})
<1> DEFINE f == [i \in I |-> l[i].key]
<1>1. Len(l) \in Nat
  OBVIOUS
<1>2. IsFiniteSet(I)
  <2>1. IsFiniteSet(1..Len(l))
    BY <1>1, FS_Interval
  <2> QED BY <2>1, FS_Subset
<1>3. f \in Surjection(I, {l[i].key : i \in I})
  BY DEF Surjection
<1> QED BY <1>2, <1>3, FS_Surjection

-------------------------------------------------------------------------------
(* What the limiter implements.                                                   *)

Used(j) == IF Open(j) THEN count[j] ELSE 0
OpenedAt(j) == IF Open(j) THEN start[j] ELSE -1

(* A key evicted by the call of another is one that max_tracked_keys others were  *)
(* hit after.                                                                     *)
LEMMA EvictedIsCrowded ==
    ASSUME MemInv, NEW k \in Keys, Allow(k), NEW j \in Tracked, j \notin Tracked'
    PROVE  Promise!Crowded(j, k)
<1> DEFINE since == {i \in 1..Len(log) : \A h \in i..Len(log) : log[h].key # j}
           S == {log[i].key : i \in since} \cup {k}
<1>1. k \notin Tracked /\ Len(order) = MaxTrackedKeys /\ order[1] = j
  BY TrackedStep
<1>2. \A q \in 2..MaxTrackedKeys : order[q] \in S
  <2> SUFFICES ASSUME NEW q \in 2..MaxTrackedKeys PROVE order[q] \in S
    OBVIOUS
  <2>1. 1 \in 1..Len(order) /\ q \in 1..Len(order) /\ 1 < q
    BY <1>1, Parameters
  <2>2. HitAfter(log, order[q], j)
    BY <1>1, <2>1 DEF MemInv, Recency
  <2> QED BY <2>2 DEF HitAfter
<1>3. IsFiniteSet(S)
  <2>1. log \in Seq(Hits) /\ since \in SUBSET (1..Len(log))
    BY DEF MemInv, TypeOK, Hits
  <2>2. IsFiniteSet({log[i].key : i \in since})
    BY <2>1, KeysFinite
  <2> QED BY <2>2, FS_AddElement
<1>4. k \in S
  OBVIOUS
<1> HIDE DEF S
<1>5. Cardinality(S) >= MaxTrackedKeys
  BY <1>1, <1>2, <1>3, <1>4, FullTable
<1>6. Promise!Crowded(j, k) <=> Cardinality(S) >= MaxTrackedKeys
  BY Zenon DEF Promise!Crowded, S, Promise!Cardinality, Cardinality
<1> QED BY <1>5, <1>6

LEMMA AllowIsHit ==
    ASSUME MemInv, MemInv', NEW k \in Keys, Allow(k)
    PROVE  Promise!Hit(k)
<1> DEFINE forgotten == {j \in Keys : Open(j) /\ j \notin Tracked'}
<1>1. /\ time \in Nat /\ start \in [Keys -> Nat] /\ count \in [Keys -> Nat]
      /\ \A j \in Keys : start[j] \in Nat /\ count[j] \in Nat
  BY Parameters DEF MemInv, TypeOK
<1>2. /\ time' = time /\ start' = [start EXCEPT ![k] = WindowStart(k)]
      /\ count' = [count EXCEPT ![k] = IF StartsWindow(k) THEN 1 ELSE count[k] + 1]
      /\ log' = Append(log, [key |-> k, at |-> time,
                             ok |-> Admits(IF StartsWindow(k) THEN 1 ELSE count[k] + 1)])
  BY DEF Allow
<1>3. /\ k \in Tracked'
      /\ \A j \in Keys \ {k} : j \in Tracked' => j \in Tracked
  BY TrackedStep
<1>4. StartsWindow(k) <=> ~Open(k)
  BY <1>1, Parameters DEF StartsWindow, Open
<1>5. ASSUME NEW j \in Keys
      PROVE  /\ Used(j)' = IF j = k THEN Used(j) + 1 ELSE IF j \in forgotten THEN 0 ELSE Used(j)
             /\ OpenedAt(j)' = IF j = k /\ OpenedAt(j) = -1 THEN time
                               ELSE IF j \in forgotten THEN -1 ELSE OpenedAt(j)
  <2>1. CASE j = k
    <3>1. k \notin forgotten
      BY <1>3
    <3>2. start'[k] = (IF Open(k) THEN start[k] ELSE time)
      BY <1>1, <1>2, <1>4 DEF WindowStart
    <3>3. count'[k] = (IF Open(k) THEN count[k] + 1 ELSE 1)
      BY <1>1, <1>2, <1>4
    <3>4. Open(k)'
      BY <1>1, <1>2, <1>3, <3>2, Parameters DEF Open
    <3> QED BY <1>1, <2>1, <3>1, <3>2, <3>3, <3>4 DEF Used, OpenedAt
  <2>2. CASE j # k
    <3>1. start'[j] = start[j] /\ count'[j] = count[j]
      BY <1>1, <1>2, <2>2
    <3>2. Open(j)' <=> Open(j) /\ j \notin forgotten
      BY <1>2, <1>3, <2>2, <3>1 DEF Open
    <3> QED BY <2>2, <3>1, <3>2 DEF Used, OpenedAt
  <2> QED BY <2>1, <2>2
<1>6. \A j \in forgotten : j \in Keys \ {k} /\ OpenedAt(j) # -1 /\ Promise!Crowded(j, k)
  <2> SUFFICES ASSUME NEW j \in forgotten
               PROVE  j \in Keys \ {k} /\ OpenedAt(j) # -1 /\ Promise!Crowded(j, k)
    OBVIOUS
  <2>1. Open(j) /\ j \in Tracked /\ j \notin Tracked'
    BY DEF Open
  <2> QED BY <1>1, <1>3, <2>1, EvictedIsCrowded DEF OpenedAt
<1>7. Admits(IF StartsWindow(k) THEN 1 ELSE count[k] + 1) <=> Used(k) < MaxRequests
  BY <1>1, <1>4, Parameters DEF Admits, Used
<1> HIDE DEF forgotten
<1>8. [j \in Keys |-> Used(j)]'
        = [j \in Keys |-> IF j = k THEN [i \in Keys |-> Used(i)][j] + 1
                          ELSE IF j \in forgotten THEN 0 ELSE [i \in Keys |-> Used(i)][j]]
  BY <1>5
<1>9. [j \in Keys |-> OpenedAt(j)]'
        = [j \in Keys |-> IF j = k /\ [i \in Keys |-> OpenedAt(i)][j] = -1 THEN time
                          ELSE IF j \in forgotten THEN -1 ELSE [i \in Keys |-> OpenedAt(i)][j]]
  BY <1>5
<1>10. forgotten \in SUBSET {j \in Keys \ {k} : [i \in Keys |-> OpenedAt(i)][j] # -1
                                                /\ Promise!Crowded(j, k)}
  BY <1>6
<1>11. log' = Append(log, [key |-> k, at |-> time, ok |-> [i \in Keys |-> Used(i)][k] < MaxRequests])
  <2>1. [i \in Keys |-> Used(i)][k] = Used(k)
    OBVIOUS
  <2>2. Admits(IF StartsWindow(k) THEN 1 ELSE count[k] + 1) \in BOOLEAN
        /\ (Used(k) < MaxRequests) \in BOOLEAN
    BY DEF Admits
  <2>3. Admits(IF StartsWindow(k) THEN 1 ELSE count[k] + 1) = (Used(k) < MaxRequests)
    BY <1>7, <2>2
  <2> QED BY <1>2, <2>1, <2>3, Zenon
<1> QED BY <1>2, <1>8, <1>9, <1>10, <1>11, Zenon
        DEF Promise!Hit, Promise!NotOpen, Used, OpenedAt

LEMMA TickIsElapse ==
    ASSUME MemInv, Tick
    PROVE  Promise!Elapse
<1>1. /\ time \in Nat /\ \A j \in Keys : start[j] \in Nat
      /\ time' = time + 1 /\ UNCHANGED <<order, start, count, log>> /\ Tracked' = Tracked
  <2>1. time \in Nat /\ \A j \in Keys : start[j] \in Nat
    BY Parameters DEF MemInv, TypeOK
  <2>2. time' = time + 1 /\ UNCHANGED <<order, start, count, log>>
    BY DEF Tick
  <2> QED BY <2>1, <2>2 DEF Tracked
<1>2. ASSUME NEW j \in Keys
      PROVE  /\ Used(j)' = IF OpenedAt(j) # -1 /\ time + 1 - OpenedAt(j) >= Window
                           THEN 0 ELSE Used(j)
             /\ OpenedAt(j)' = IF OpenedAt(j) # -1 /\ time + 1 - OpenedAt(j) >= Window
                               THEN -1 ELSE OpenedAt(j)
  <2>1. Open(j)' <=> Open(j) /\ ~(time + 1 - start[j] >= Window)
    BY <1>1, Parameters DEF Open
  <2> QED BY <1>1, <2>1 DEF Used, OpenedAt
<1> QED BY <1>1, <1>2 DEF Promise!Elapse, Promise!NotOpen, Used, OpenedAt

(* The limiter is a fixed-window limiter: nothing but the end of its window or    *)
(* max_tracked_keys other keys ever resets a count, and eviction never pushes out *)
(* a key that fewer were hit after.                                               *)
THEOREM MemoryImplementsFixedWindow == Spec => ImplementsFixedWindow
<1>1. Init => Promise!WindowInit
  BY DEF Init, Promise!WindowInit, Promise!NotOpen, Open, Tracked
<1>2. MemInv /\ MemInv' /\ [Next]_vars
      => [Promise!Elapse \/ \E k \in Keys : Promise!Hit(k)]_(Promise!window)
  <2> SUFFICES ASSUME MemInv, MemInv', [Next]_vars
               PROVE  [Promise!Elapse \/ \E k \in Keys : Promise!Hit(k)]_(Promise!window)
    OBVIOUS
  <2>1. ASSUME NEW k \in Keys, Allow(k) PROVE Promise!Hit(k)
    BY <2>1, AllowIsHit
  <2>2. CASE Tick
    BY <2>2, TickIsElapse
  <2>3. CASE UNCHANGED vars
    BY <2>3 DEF vars, Promise!window, Open, Tracked
  <2> QED BY <2>1, <2>2, <2>3 DEF Next, Finished
<1> QED BY <1>1, <1>2, MemCorrect, PTL DEF Spec, ImplementsFixedWindow, Promise!WindowSpec
-------------------------------------------------------------------------------
(* What the log counts.                                                           *)

Adm(l, k, from, to) == {i \in 1..Len(l) : l[i].key = k /\ l[i].ok /\ l[i].at \in from..to}
AdmSince(l, k, from) == {i \in 1..Len(l) : l[i].key = k /\ l[i].ok /\ l[i].at >= from}

LEMMA SameCardinality == \A S : Promise!Cardinality(S) = Cardinality(S)
BY Zenon DEF Promise!Cardinality, Cardinality

(* Sets of positions of the log are finite, and a larger one counts no less.      *)
LEMMA Positions ==
    ASSUME NEW l \in Seq(Hits), NEW B \in SUBSET (1..Len(l)), NEW A \in SUBSET B
    PROVE  /\ IsFiniteSet(A) /\ IsFiniteSet(B)
           /\ Cardinality(A) \in Nat /\ Cardinality(B) \in Nat
           /\ Cardinality(A) <= Cardinality(B)
<1>1. Len(l) \in Nat
  OBVIOUS
<1>2. IsFiniteSet(1..Len(l))
  BY <1>1, FS_Interval
<1>3. IsFiniteSet(B)
  BY <1>2, FS_Subset
<1>4. IsFiniteSet(A) /\ Cardinality(A) <= Cardinality(B)
  BY <1>3, FS_Subset
<1> QED BY <1>3, <1>4, FS_CardinalityType

LEMMA LogTypes ==
    ASSUME TypeOK
    PROVE  /\ time \in Nat /\ log \in Seq(Hits)
           /\ \A i \in 1..Len(log) : log[i].at \in Nat
           /\ \A k \in Keys : start[k] \in Nat /\ count[k] \in Nat
<1>1. time \in Nat /\ log \in Seq(Hits)
  BY Parameters DEF TypeOK, Hits
<1>2. ASSUME NEW i \in 1..Len(log) PROVE log[i].at \in Nat
  <2>1. log[i] \in Hits
    BY <1>1
  <2> QED BY <2>1 DEF Hits
<1>3. \A k \in Keys : start[k] \in Nat /\ count[k] \in Nat
  BY DEF TypeOK
<1> QED BY <1>1, <1>2, <1>3

-------------------------------------------------------------------------------
(* Why a call is refused.                                                         *)

(* The count of a tracked key is covered by what was admitted since its window    *)
(* opened, up to the limit: only the refused calls are counted in vain.           *)
CountCovered ==
    \A k \in Tracked : \/ count[k] <= Cardinality(AdmSince(log, k, start[k]))
                       \/ MaxRequests <= Cardinality(AdmSince(log, k, start[k]))

EarnedAt(l, i) ==
    MaxRequests <= Cardinality(Adm(l, l[i].key, l[i].at - Window + 1, l[i].at))

RefusalInv == CountCovered /\ \A i \in 1..Len(log) : ~log[i].ok => EarnedAt(log, i)

LEMMA RefusalInit == Init => RefusalInv
BY DEF Init, RefusalInv, CountCovered, Tracked

LEMMA RefusalAllow ==
    ASSUME MemInv, MemInv', RefusalInv, NEW k \in Keys, Allow(k)
    PROVE  RefusalInv'
<1> DEFINE n == Len(log)
<1>1. /\ log \in Seq(Hits) /\ log' \in Seq(Hits) /\ n \in Nat /\ Len(log') = n + 1
      /\ \A i \in 1..n : log'[i] = log[i]
      /\ log'[n + 1].key = k /\ log'[n + 1].at = time
      /\ log'[n + 1].ok <=> Admits(IF StartsWindow(k) THEN 1 ELSE count[k] + 1)
      /\ time \in Nat
  BY AllowLog
<1> HIDE DEF n
<1>2. \A i \in 1..n + 1 : i \in 1..n \/ i = n + 1
  BY <1>1
<1>3. /\ \A j \in Keys : start[j] \in Nat /\ count[j] \in Nat
      /\ \A i \in 1..n : log[i].at \in Nat /\ log[i].at <= time
      /\ \A j \in Keys : start[j] <= time
  BY LogTypes DEF MemInv, Timed, n
<1>4. /\ \A j \in Keys \ {k} : start'[j] = start[j] /\ count'[j] = count[j]
      /\ start'[k] = WindowStart(k)
      /\ count'[k] = IF StartsWindow(k) THEN 1 ELSE count[k] + 1
  BY DEF Allow, MemInv, TypeOK
<1>5. \A j \in Keys \ {k} : j \in Tracked' => j \in Tracked
  BY TrackedStep
<1>6. \A j \in Tracked' : j \in Keys
  <2>1. order' \in Seq(Keys)
    BY DEF MemInv, TypeOK
  <2> QED BY <2>1 DEF Tracked
<1>7. ASSUME NEW j \in Keys \ {k}, j \in Tracked'
      PROVE  \/ count'[j] <= Cardinality(AdmSince(log', j, start'[j]))
             \/ MaxRequests <= Cardinality(AdmSince(log', j, start'[j]))
  <2>1. AdmSince(log', j, start[j]) = AdmSince(log, j, start[j])
    BY <1>1, <1>2 DEF AdmSince, n
  <2> QED BY <1>4, <1>5, <1>7, <2>1 DEF RefusalInv, CountCovered
<1>8. /\ \/ count'[k] <= Cardinality(AdmSince(log', k, start'[k]))
         \/ MaxRequests <= Cardinality(AdmSince(log', k, start'[k]))
      /\ ~log'[n + 1].ok => EarnedAt(log', n + 1)
  <2>1. CASE StartsWindow(k)
    <3>1. count'[k] = 1 /\ start'[k] = time /\ log'[n + 1].ok
      BY <1>1, <1>4, <2>1, Parameters DEF WindowStart, Admits
    <3>2. n + 1 \in AdmSince(log', k, time)
      BY <1>1, <3>1 DEF AdmSince
    <3>3. AdmSince(log', k, time) \in SUBSET (1..Len(log')) /\ {n + 1} \in SUBSET AdmSince(log', k, time)
      BY <3>2 DEF AdmSince
    <3>4. Cardinality({n + 1}) = 1
      BY FS_Singleton
    <3>5. 1 <= Cardinality(AdmSince(log', k, time))
      BY <1>1, <3>3, <3>4, Positions
    <3> QED BY <3>1, <3>5
  <2>2. CASE ~StartsWindow(k)
    <3>1. k \in Tracked /\ time - start[k] < Window
      BY <1>1, <1>3, <2>2, Parameters DEF StartsWindow
    <3>2. count'[k] = count[k] + 1 /\ start'[k] = start[k]
      BY <1>4, <2>2 DEF WindowStart
    <3>3. /\ AdmSince(log, k, start[k]) \in SUBSET (1..n)
          /\ IsFiniteSet(AdmSince(log, k, start[k]))
          /\ Cardinality(AdmSince(log, k, start[k])) \in Nat
      <4>1. AdmSince(log, k, start[k]) \in SUBSET (1..Len(log))
        BY DEF AdmSince
      <4> QED BY <1>1, <4>1, Positions DEF n
    <3>4. \/ count[k] <= Cardinality(AdmSince(log, k, start[k]))
          \/ MaxRequests <= Cardinality(AdmSince(log, k, start[k]))
      BY <3>1 DEF RefusalInv, CountCovered
    <3>5. CASE Admits(count[k] + 1)
      <4>1. AdmSince(log', k, start[k]) = AdmSince(log, k, start[k]) \cup {n + 1}
        BY <1>1, <1>2, <1>3, <2>2, <3>5 DEF AdmSince, n
      <4>2. n + 1 \notin AdmSince(log, k, start[k])
        BY <1>1, <3>3
      <4>3. Cardinality(AdmSince(log', k, start[k])) = Cardinality(AdmSince(log, k, start[k])) + 1
        BY <3>3, <4>1, <4>2, FS_AddElement
      <4> QED BY <1>1, <1>3, <2>2, <3>2, <3>3, <3>4, <3>5, <4>3, Parameters
    <3>6. CASE ~Admits(count[k] + 1)
      <4>1. MaxRequests <= Cardinality(AdmSince(log, k, start[k]))
        BY <1>3, <3>3, <3>4, <3>6, Parameters DEF Admits
      <4>2. AdmSince(log', k, start[k]) = AdmSince(log, k, start[k])
        BY <1>1, <1>2, <2>2, <3>6 DEF AdmSince, n
      <4>3. /\ Adm(log', k, time - Window + 1, time) \in SUBSET (1..Len(log'))
            /\ AdmSince(log, k, start[k]) \in SUBSET Adm(log', k, time - Window + 1, time)
        <5>1. ASSUME NEW i \in AdmSince(log, k, start[k])
              PROVE  i \in Adm(log', k, time - Window + 1, time)
          <6>1. /\ i \in 1..n /\ log[i].key = k /\ log[i].ok /\ log[i].at >= start[k]
                /\ log[i].at \in Nat /\ log[i].at <= time
            BY <1>3 DEF AdmSince, n
          <6>2. log[i].at \in time - Window + 1 .. time
            BY <1>1, <1>3, <3>1, <6>1, Parameters
          <6> QED BY <1>1, <6>1, <6>2 DEF Adm
        <5> QED BY <5>1 DEF Adm
      <4>4. Cardinality(AdmSince(log, k, start[k])) <= Cardinality(Adm(log', k, time - Window + 1, time))
            /\ Cardinality(Adm(log', k, time - Window + 1, time)) \in Nat
        BY <1>1, <4>3, Positions
      <4>5. EarnedAt(log', n + 1)
        BY <1>1, <3>3, <4>1, <4>4, Parameters DEF EarnedAt
      <4> QED BY <3>2, <4>1, <4>2, <4>5
    <3> QED BY <3>5, <3>6
  <2> QED BY <2>1, <2>2
<1>9. ASSUME NEW i \in 1..n, EarnedAt(log, i) PROVE EarnedAt(log', i)
  <2>1. log'[i] = log[i] /\ i \in 1..Len(log')
    BY <1>1
  <2> DEFINE A == Adm(log, log[i].key, log[i].at - Window + 1, log[i].at)
             B == Adm(log', log[i].key, log[i].at - Window + 1, log[i].at)
  <2>2. B \in SUBSET (1..Len(log')) /\ A \in SUBSET B
    BY <1>1 DEF Adm, n
  <2> HIDE DEF A, B
  <2>3. Cardinality(A) <= Cardinality(B) /\ Cardinality(A) \in Nat /\ Cardinality(B) \in Nat
    BY <1>1, <2>2, Positions
  <2>4. MaxRequests <= Cardinality(A)
    BY <1>9 DEF EarnedAt, A
  <2>5. MaxRequests <= Cardinality(B)
    BY <2>3, <2>4, Parameters
  <2> QED BY <2>1, <2>5 DEF EarnedAt, B
<1>10. CountCovered'
  BY <1>6, <1>7, <1>8 DEF CountCovered
<1>11. \A i \in 1..Len(log') : ~log'[i].ok => EarnedAt(log', i)
  BY <1>1, <1>2, <1>8, <1>9 DEF RefusalInv, n
<1> QED BY <1>10, <1>11 DEF RefusalInv

(* A call is refused only if its key was admitted max_requests times within the   *)
(* window before it: neither refused calls nor evictions ever keep a caller out.  *)
THEOREM RefusalsEarned == Spec => []RefusalEarned
<1>1. MemInv /\ MemInv' /\ RefusalInv /\ [Next]_vars => RefusalInv'
  <2> SUFFICES ASSUME MemInv, MemInv', RefusalInv, [Next]_vars PROVE RefusalInv'
    OBVIOUS
  <2>1. ASSUME NEW k \in Keys, Allow(k) PROVE RefusalInv'
    BY <2>1, RefusalAllow
  <2>2. CASE UNCHANGED <<order, start, count, log>>
    BY <2>2 DEF RefusalInv, CountCovered, Tracked
  <2> QED BY <2>1, <2>2 DEF Next, Tick, Finished, vars
<1>2. RefusalInv => RefusalEarned
  <2> SUFFICES ASSUME RefusalInv, NEW i \in 1..Len(log), ~log[i].ok
               PROVE  Promise!Cardinality(Promise!Admitted(log[i].key, log[i].at - Window + 1,
                                                           log[i].at)) >= MaxRequests
    BY DEF RefusalEarned, Promise!RefusalEarned
  <2>1. EarnedAt(log, i)
    BY DEF RefusalInv
  <2>2. Promise!Admitted(log[i].key, log[i].at - Window + 1, log[i].at)
        = Adm(log, log[i].key, log[i].at - Window + 1, log[i].at)
    BY DEF Promise!Admitted, Adm
  <2> QED BY <2>1, <2>2, SameCardinality DEF EarnedAt
<1> QED BY RefusalInit, <1>1, <1>2, MemCorrect, PTL DEF Spec
-------------------------------------------------------------------------------
(* Two windows.                                                                   *)

Others(l, k, from, to) ==
    {j \in Keys \ {k} : \E i \in 1..Len(l) : l[i].key = j /\ l[i].at \in from..to}

(* While the stretch from t lasts and the key was hit in it, the key is tracked:  *)
(* in a window that opened before t the stretch has admitted what that window     *)
(* has, less the hit that opened it, and in one that opened later no more than    *)
(* that window and such a rest of one other.                                      *)
Within(k, t) ==
    LET admitted == Cardinality(Adm(log, k, t, t + Window - 1)) IN
    /\ admitted <= 2 * MaxRequests - 1
    /\ time <= t + Window - 1 /\ (\E i \in 1..Len(log) : log[i].key = k /\ log[i].at >= t) =>
         /\ k \in Tracked
         /\ start[k] < t => admitted <= MaxRequests - 1 /\ admitted <= count[k] - 1
         /\ start[k] >= t => admitted <= MaxRequests - 1 + count[k]

(* An entry counts at least the hit that opened its window.                       *)
Counted == \A k \in Tracked : count[k] >= 1

TwoWindows ==
    /\ Counted
    /\ \A k \in Keys : \A t \in 0..time :
         Cardinality(Others(log, k, t, t + Window - 1)) < MaxTrackedKeys => Within(k, t)

LEMMA OthersFinite ==
    ASSUME NEW l \in Seq(Hits), NEW k, NEW from, NEW to, NEW A \in SUBSET Others(l, k, from, to)
    PROVE  /\ IsFiniteSet(Others(l, k, from, to)) /\ IsFiniteSet(A)
           /\ Cardinality(Others(l, k, from, to)) \in Nat /\ Cardinality(A) \in Nat
           /\ Cardinality(A) <= Cardinality(Others(l, k, from, to))
<1>1. IsFiniteSet({l[i].key : i \in 1..Len(l)})
  BY KeysFinite
<1>2. Others(l, k, from, to) \subseteq {l[i].key : i \in 1..Len(l)}
  BY DEF Others
<1>3. IsFiniteSet(Others(l, k, from, to))
  BY <1>1, <1>2, FS_Subset
<1>4. IsFiniteSet(A) /\ Cardinality(A) <= Cardinality(Others(l, k, from, to))
  BY <1>3, FS_Subset
<1> QED BY <1>3, <1>4, FS_CardinalityType

LEMMA TwoWindowsInit == Init => TwoWindows
<1> SUFFICES ASSUME Init, NEW k \in Keys, NEW t \in 0..time PROVE Within(k, t)
  BY DEF TwoWindows, Counted, Tracked, Init
<1>1. Len(log) = 0
  BY DEF Init
<1>2. Adm(log, k, t, t + Window - 1) = {}
  BY <1>1 DEF Adm
<1>3. Cardinality(Adm(log, k, t, t + Window - 1)) = 0
  BY <1>2, FS_EmptySet
<1> QED BY <1>1, <1>3, Parameters DEF Within

(* A key dropped while its stretch lasts was hit in it after as many others as    *)
(* the table holds.                                                               *)
LEMMA DroppedIsCrowded ==
    ASSUME MemInv, MemInv', NEW k \in Keys, Allow(k), NEW j \in Tracked, j \notin Tracked',
           NEW t \in Nat, t <= time, time <= t + Window - 1,
           \E i \in 1..Len(log) : log[i].key = j /\ log[i].at >= t
    PROVE  Cardinality(Others(log', j, t, t + Window - 1)) >= MaxTrackedKeys
<1> DEFINE S == Others(log', j, t, t + Window - 1)
<1>1. j # k /\ k \notin Tracked /\ Len(order) = MaxTrackedKeys /\ order[1] = j
  BY TrackedStep
<1>2. /\ log \in Seq(Hits) /\ log' \in Seq(Hits) /\ Len(log) \in Nat /\ Len(log') = Len(log) + 1
      /\ \A i \in 1..Len(log) : log'[i] = log[i]
      /\ log'[Len(log) + 1].key = k /\ log'[Len(log) + 1].at = time /\ time \in Nat
  BY AllowLog
<1>3. PICK i0 \in 1..Len(log) : log[i0].key = j /\ log[i0].at >= t
  OBVIOUS
<1>4. \A i \in 1..Len(log) : log[i].at \in Nat /\ log[i].at <= time
  BY LogTypes DEF MemInv, Timed
<1>5. \A q \in 2..MaxTrackedKeys : order[q] \in S
  <2> SUFFICES ASSUME NEW q \in 2..MaxTrackedKeys PROVE order[q] \in S
    OBVIOUS
  <2>1. 1 \in 1..Len(order) /\ q \in 1..Len(order) /\ 1 < q
    BY <1>1, Parameters
  <2>2. HitAfter(log, order[q], j)
    BY <1>1, <2>1 DEF MemInv, Recency
  <2>3. order[q] \in Keys \ {j}
    <3>1. order[q] \in Keys
      BY <2>1 DEF MemInv, TypeOK
    <3>2. order[1] # order[q]
      BY <2>1 DEF MemInv, Distinct
    <3> QED BY <1>1, <3>1, <3>2
  <2>4. PICK i \in 1..Len(log) : log[i].key = order[q] /\ \A h \in i..Len(log) : log[h].key # j
    BY <2>2 DEF HitAfter
  <2>5. i0 <= i
    BY <1>2, <1>3, <2>4
  <2>6. log[i].at >= t /\ log[i].at <= t + Window - 1 /\ log[i].at \in Nat
    <3>1. log[i0].at <= log[i].at
      BY <2>4, <2>5 DEF MemInv, Timed
    <3> QED BY <1>2, <1>3, <1>4, <3>1, Parameters
  <2>7. i \in 1..Len(log') /\ log'[i] = log[i] /\ log[i].at \in t..t + Window - 1
    BY <1>2, <2>6, Parameters
  <2> QED BY <2>3, <2>4, <2>7 DEF Others
<1>6. k \in S
  <2>1. Len(log) + 1 \in 1..Len(log') /\ time \in t..t + Window - 1
    BY <1>2, Parameters
  <2> QED BY <1>1, <1>2, <2>1 DEF Others
<1>7. IsFiniteSet(S)
  BY <1>2, OthersFinite
<1> HIDE DEF S
<1>8. Cardinality(S) >= MaxTrackedKeys
  BY <1>1, <1>5, <1>6, <1>7, FullTable
<1> QED BY <1>8 DEF S

LEMMA TwoWindowsAllow ==
    ASSUME MemInv, MemInv', TwoWindows, NEW k \in Keys, Allow(k)
    PROVE  TwoWindows'
<1> DEFINE n == Len(log)
<1>1. /\ log \in Seq(Hits) /\ log' \in Seq(Hits) /\ n \in Nat /\ Len(log') = n + 1
      /\ \A i \in 1..n : log'[i] = log[i]
      /\ log'[n + 1].key = k /\ log'[n + 1].at = time
      /\ log'[n + 1].ok <=> Admits(IF StartsWindow(k) THEN 1 ELSE count[k] + 1)
      /\ time' = time /\ time \in Nat
  BY AllowLog
<1>n. n = Len(log)
  OBVIOUS
<1> HIDE DEF n
<1>2. \A i \in 1..n + 1 : i \in 1..n \/ i = n + 1
  BY <1>1
<1>3. /\ \A j \in Keys : start[j] \in Nat /\ count[j] \in Nat
      /\ \A i \in 1..n : log[i].at \in Nat /\ log[i].at <= time
      /\ \A j \in Keys : start[j] <= time
  BY <1>n, LogTypes DEF MemInv, Timed
<1>4. /\ \A j \in Keys \ {k} : start'[j] = start[j] /\ count'[j] = count[j]
      /\ start'[k] = WindowStart(k)
      /\ count'[k] = IF StartsWindow(k) THEN 1 ELSE count[k] + 1
  BY DEF Allow, MemInv, TypeOK
<1>c. Counted'
  <2> SUFFICES ASSUME NEW j \in Tracked' PROVE count'[j] >= 1
    BY DEF Counted
  <2>1. j \in Keys
    <3>1. order' \in Seq(Keys)
      BY DEF MemInv, TypeOK
    <3>2. PICK i \in 1..Len(order') : j = order'[i]
      BY DEF Tracked
    <3> QED BY <3>1, <3>2
  <2>2. j # k => j \in Keys \ {k} /\ j \in Tracked
    BY <2>1, TrackedStep
  <2>3. j # k => count[j] >= 1
    BY <2>2 DEF TwoWindows, Counted
  <2> QED BY <1>3, <1>4, <2>2, <2>3
<1> SUFFICES ASSUME NEW j \in Keys, NEW t \in 0..time,
                    Cardinality(Others(log', j, t, t + Window - 1)) < MaxTrackedKeys
             PROVE  Within(j, t)'
  BY <1>1, <1>c DEF TwoWindows
<1> DEFINE A == Adm(log, j, t, t + Window - 1)
           B == Adm(log', j, t, t + Window - 1)
<1>5. t \in Nat /\ t <= time
  BY <1>1
<1>6. Within(j, t)
  <2>1. /\ Others(log, j, t, t + Window - 1) \in SUBSET Others(log', j, t, t + Window - 1)
    BY <1>1, <1>n DEF Others
  <2>2. /\ Cardinality(Others(log, j, t, t + Window - 1))
             <= Cardinality(Others(log', j, t, t + Window - 1))
        /\ Cardinality(Others(log, j, t, t + Window - 1)) \in Nat
        /\ Cardinality(Others(log', j, t, t + Window - 1)) \in Nat
    BY <1>1, <2>1, OthersFinite
  <2> QED BY <2>2, Parameters DEF TwoWindows
<1>7. IsFiniteSet(A) /\ Cardinality(A) \in Nat /\ A \subseteq 1..n
  <2>1. A \in SUBSET (1..Len(log))
    BY DEF Adm
  <2> QED BY <1>1, <1>n, <2>1, Positions
<1>8. CASE j # k
  <2>1. B = A
    BY <1>1, <1>2, <1>8, <1>n DEF Adm
  <2>2. ASSUME time <= t + Window - 1, \E i \in 1..Len(log') : log'[i].key = j /\ log'[i].at >= t
        PROVE  /\ j \in Tracked'
               /\ \E i \in 1..Len(log) : log[i].key = j /\ log[i].at >= t
    <3>1. \E i \in 1..Len(log) : log[i].key = j /\ log[i].at >= t
      BY <1>1, <1>2, <1>8, <1>n, <2>2
    <3>2. j \in Tracked
      BY <1>6, <2>2, <3>1 DEF Within
    <3>3. CASE j \notin Tracked'
      <4>1. Cardinality(Others(log', j, t, t + Window - 1)) >= MaxTrackedKeys
        BY <1>5, <2>2, <3>1, <3>2, <3>3, DroppedIsCrowded
      <4>2. Cardinality(Others(log', j, t, t + Window - 1)) \in Nat
        BY <1>1, OthersFinite
      <4> QED BY <4>1, <4>2, Parameters
    <3> QED BY <3>1, <3>3
  <2> QED BY <1>1, <1>4, <1>6, <1>8, <2>1, <2>2 DEF Within
<1>9. CASE j = k /\ time > t + Window - 1
  <2>1. B = A
    <3>1. time \notin t..t + Window - 1
      BY <1>1, <1>5, <1>9, Parameters
    <3> QED BY <1>1, <1>2, <1>n, <3>1 DEF Adm
  <2>2. ~(time <= t + Window - 1)
    BY <1>1, <1>5, <1>9, Parameters
  <2> QED BY <1>1, <1>6, <2>1, <2>2 DEF Within
<1>10. CASE j = k /\ time <= t + Window - 1
  <2>1. k \in Tracked'
    BY TrackedStep
  <2>2. /\ log'[n + 1].ok => Cardinality(B) = Cardinality(A) + 1
        /\ ~log'[n + 1].ok => Cardinality(B) = Cardinality(A)
    <3>1. time \in t..t + Window - 1
      BY <1>1, <1>5, <1>10, Parameters
    <3>2. CASE log'[n + 1].ok
      <4>1. B = A \cup {n + 1}
        BY <1>1, <1>2, <1>10, <1>n, <3>1, <3>2 DEF Adm
      <4>2. n + 1 \notin A
        BY <1>1, <1>7
      <4> HIDE DEF A, B
      <4> QED BY <1>7, <3>2, <4>1, <4>2, FS_AddElement
    <3>3. CASE ~log'[n + 1].ok
      <4>1. B = A
        BY <1>1, <1>2, <1>n, <3>3 DEF Adm
      <4> QED BY <3>3, <4>1
    <3> QED BY <3>2, <3>3
  <2>3. \/ Cardinality(A) = 0
        \/ /\ k \in Tracked
           /\ start[k] < t => /\ Cardinality(A) <= MaxRequests - 1
                              /\ Cardinality(A) <= count[k] - 1
           /\ start[k] >= t => Cardinality(A) <= MaxRequests - 1 + count[k]
    <3>1. CASE \E i \in 1..Len(log) : log[i].key = k /\ log[i].at >= t
      BY <1>6, <1>10, <3>1 DEF Within
    <3>2. CASE ~\E i \in 1..Len(log) : log[i].key = k /\ log[i].at >= t
      <4>1. A = {}
        BY <1>10, <3>2 DEF Adm
      <4> QED BY <4>1, FS_EmptySet
    <3> QED BY <3>1, <3>2
  <2>4. Cardinality(A) <= 2 * MaxRequests - 1
    BY <1>6 DEF Within
  <2>5. Cardinality(B) \in Nat
    BY <1>7, <2>2
  <2>6. /\ Cardinality(B) <= 2 * MaxRequests - 1
        /\ start'[k] < t => /\ Cardinality(B) <= MaxRequests - 1
                            /\ Cardinality(B) <= count'[k] - 1
        /\ start'[k] >= t => Cardinality(B) <= MaxRequests - 1 + count'[k]
    <3> HIDE DEF A, B
    <3>1. CASE StartsWindow(k)
      <4>1. start'[k] = time /\ count'[k] = 1 /\ log'[n + 1].ok
        BY <1>1, <1>4, <3>1, Parameters DEF WindowStart, Admits
      <4>2. Cardinality(A) <= MaxRequests - 1
        <5>1. CASE Cardinality(A) = 0
          BY <5>1, Parameters
        <5>2. CASE Cardinality(A) # 0
          <6>1. k \in Tracked
            BY <2>3, <5>2
          <6>2. start[k] < t
            BY <1>1, <1>3, <1>5, <1>10, <3>1, <6>1, Parameters DEF StartsWindow
          <6> QED BY <2>3, <5>2, <6>2
        <5> QED BY <5>1, <5>2
      <4> QED BY <1>1, <1>5, <1>7, <2>2, <4>1, <4>2, Parameters
    <3>2. CASE ~StartsWindow(k)
      <4>1. start'[k] = start[k] /\ count'[k] = count[k] + 1
        BY <1>4, <3>2 DEF WindowStart
      <4>2. log'[n + 1].ok <=> count[k] + 1 <= MaxRequests
        BY <1>1, <3>2 DEF Admits
      <4>3. start[k] \in Nat /\ count[k] \in Nat
        BY <1>3
      <4>4. CASE start[k] < t
        <5>1. Cardinality(A) <= MaxRequests - 1 /\ Cardinality(A) <= count[k] - 1
          <6>1. count[k] >= 1
            BY <3>2 DEF StartsWindow, TwoWindows, Counted
          <6> QED BY <2>3, <4>3, <4>4, <6>1, Parameters
        <5> QED BY <1>5, <1>7, <2>2, <2>4, <4>1, <4>2, <4>3, <4>4, <5>1, Parameters
      <4>5. CASE start[k] >= t
        <5>1. Cardinality(A) <= MaxRequests - 1 + count[k]
          BY <2>3, <4>3, <4>5, Parameters
        <5> QED BY <1>5, <1>7, <2>2, <2>4, <4>1, <4>2, <4>3, <4>5, <5>1, Parameters
      <4> QED BY <1>5, <4>3, <4>4, <4>5
    <3> QED BY <3>1, <3>2
  <2> QED BY <1>10, <2>1, <2>6 DEF Within
<1>11. time <= t + Window - 1 \/ time > t + Window - 1
  BY <1>1, <1>5, Parameters
<1> QED BY <1>8, <1>9, <1>10, <1>11

LEMMA TwoWindowsTick ==
    ASSUME MemInv, TwoWindows, Tick
    PROVE  TwoWindows'
<1>1. /\ UNCHANGED <<order, start, count, log>> /\ time' = time + 1 /\ Tracked' = Tracked
      /\ time \in Nat /\ log \in Seq(Hits)
  BY LogTypes DEF MemInv, Tick, Tracked
<1> SUFFICES ASSUME NEW k \in Keys, NEW t \in 0..time + 1,
                    Cardinality(Others(log, k, t, t + Window - 1)) < MaxTrackedKeys
             PROVE  Within(k, t)'
  BY <1>1 DEF TwoWindows, Counted, Others
<1>2. CASE t \in 0..time
  <2>1. Within(k, t)
    BY <1>2 DEF TwoWindows
  <2>2. time + 1 <= t + Window - 1 => time <= t + Window - 1
    BY <1>1, Parameters
  <2> QED BY <1>1, <2>1, <2>2 DEF Within
<1>3. CASE t = time + 1
  <2>1. \A i \in 1..Len(log) : ~(log[i].at >= t)
    BY <1>1, <1>3, LogTypes DEF MemInv, Timed
  <2>2. Adm(log, k, t, t + Window - 1) = {}
    BY <1>1, <1>3, <2>1, LogTypes, Parameters DEF Adm, MemInv
  <2>3. Cardinality(Adm(log, k, t, t + Window - 1)) = 0
    BY <2>2, FS_EmptySet
  <2> QED BY <1>1, <2>1, <2>3, Parameters DEF Within
<1>4. t \in 0..time \/ t = time + 1
  BY <1>1
<1> QED BY <1>2, <1>3, <1>4

(* In any stretch of one window's length a key is admitted fewer than             *)
(* 2 * max_requests times, unless max_tracked_keys other keys are hit in that     *)
(* stretch: eviction is the only way round the limit, and it takes that many      *)
(* callers.                                                                       *)
THEOREM AtMostTwoWindowsAdmitted == Spec => []AtMostTwoWindows
<1>1. MemInv /\ MemInv' /\ TwoWindows /\ [Next]_vars => TwoWindows'
  <2> SUFFICES ASSUME MemInv, MemInv', TwoWindows, [Next]_vars PROVE TwoWindows'
    OBVIOUS
  <2>1. ASSUME NEW k \in Keys, Allow(k) PROVE TwoWindows'
    BY <2>1, TwoWindowsAllow
  <2>2. CASE Tick
    BY <2>2, TwoWindowsTick
  <2>3. CASE UNCHANGED vars
    BY <2>3 DEF vars, TwoWindows, Counted, Within, Tracked
  <2> QED BY <2>1, <2>2, <2>3 DEF Next, Finished
<1>2. TwoWindows => AtMostTwoWindows
  <2> SUFFICES ASSUME TwoWindows, NEW k \in Keys, NEW t \in 0..time,
                      Promise!Cardinality(Promise!OthersHit(k, t, t + Window - 1)) < MaxTrackedKeys
               PROVE  Promise!Cardinality(Promise!Admitted(k, t, t + Window - 1))
                        <= 2 * MaxRequests - 1
    BY DEF AtMostTwoWindows, Promise!AtMostTwoWindows
  <2>1. /\ Promise!OthersHit(k, t, t + Window - 1) = Others(log, k, t, t + Window - 1)
        /\ Promise!Admitted(k, t, t + Window - 1) = Adm(log, k, t, t + Window - 1)
    BY DEF Promise!OthersHit, Promise!Admitted, Others, Adm
  <2>2. Within(k, t)
    BY <2>1, SameCardinality DEF TwoWindows
  <2> QED BY <2>1, <2>2, SameCardinality DEF Within
<1> QED BY TwoWindowsInit, <1>1, <1>2, MemCorrect, PTL DEF Spec
===============================================================================
