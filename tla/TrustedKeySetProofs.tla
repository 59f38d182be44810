-------------------------- MODULE TrustedKeySetProofs --------------------------
(* Proofs about the trusted keys of a fleet: for every set of documents, keys     *)
(* and replicas, and every lifetime and skew, rotation loses no call, revocation  *)
(* reaches every replica started since, and nothing is accepted out of its time.  *)
EXTENDS TrustedKeySet, TLAPS

(* The whole of the key's window and of the authorization's life are in the set.  *)
Covers(d, a) == \E e \in resolve(d, a.kid) :
                   /\ e.status # "revoked"
                   /\ e.not_before <= a.issued_at /\ a.expires_at <= e.verify_until

(* Every revocation up to the set's own generation is in the set.                 *)
HoldsRevocations(d) ==
    \A k \in Kids : revoked[k] # 0 /\ revoked[k] <= d.generation =>
        \A e \in resolve(d, k) : e.status = "revoked"

CoversLive(d) ==
    \A a \in issued : time < a.expires_at + ClockSkew /\ revoked[a.kid] = 0 => Covers(d, a)

(* Generations grow one by one, and no revocation comes from the future.          *)
Numbered ==
    /\ Loads(file) => file.generation = newest
    /\ \A k \in Kids : revoked[k] <= newest
    /\ newest >= 1

(* What holds of the file in place, when it loads, and of every set a replica     *)
(* still works with, however old it is.                                           *)
FileInv == Loads(file) => HoldsRevocations(file) /\ CoversLive(file)

ReplicaInv ==
    \A r \in Replicas : trusted[r] # Down =>
        /\ Loads(trusted[r]) /\ trusted[r].generation <= newest
        /\ HoldsRevocations(trusted[r]) /\ CoversLive(trusted[r])

KeyInv == TypeOK /\ Numbered /\ FileInv /\ ReplicaInv

(* An entry that resolve returns is an entry of the key, and well typed.          *)
LEMMA ResolveEntry ==
    ASSUME NEW d \in Documents \cup {Down}, NEW k \in Kids, NEW e \in resolve(d, k)
    PROVE  /\ e \in Entries /\ e.kid = k
           /\ \E i \in Indices(d) : e = d.keys[i]
<1>1. PICK i \in Indices(d) : e = d.keys[i] /\ d.keys[i].kid = k
  BY DEF resolve
<1>2. d.keys \in Seq(Entries)
  <2>1. CASE d \in Documents
    <3>1. d \in AllDocuments
      BY <2>1, KeySetAssumption
    <3> QED BY <3>1 DEF AllDocuments
  <2>2. CASE d = Down
    BY <2>2 DEF Down
  <2> QED BY <2>1, <2>2
<1>3. d.keys[i] \in Entries
  BY <1>2 DEF Indices
<1> QED BY <1>1, <1>3

(* A file that loads and revokes a key has no other entry for it.                 *)
LEMMA RevokingIsFinal ==
    ASSUME NEW d \in Documents, Loads(d), NEW k \in Revoking(d), NEW e \in resolve(d, k)
    PROVE  e.status = "revoked"
<1>1. PICK i \in Indices(d) : d.keys[i].kid = k /\ d.keys[i].status = "revoked"
  BY DEF Revoking
<1>2. PICK j \in Indices(d) : e = d.keys[j] /\ d.keys[j].kid = k
  BY DEF resolve
<1>3. i = j
  BY <1>1, <1>2 DEF Loads
<1> QED BY <1>1, <1>2, <1>3

(* A set that covers an authorization does not refuse it for its key while it     *)
(* has life left, the skew included.                                              *)
LEMMA CoveredIsNotRefused ==
    ASSUME NEW d \in Documents \cup {Down}, NEW a \in issued, TypeOK, NEW now \in Nat,
           Loads(d), Covers(d, a), now < a.expires_at + ClockSkew, validate_time_window(a)
    PROVE  _require_key(d, a, now) = "passed"
<1>1. /\ a.kid \in Kids
      /\ a.issued_at \in Nat /\ a.not_before \in Nat /\ a.expires_at \in Nat
      /\ ClockSkew \in Nat
  BY KeySetAssumption DEF TypeOK
<1>2. PICK e \in resolve(d, a.kid) :
         /\ e.status # "revoked"
         /\ e.not_before <= a.issued_at /\ a.expires_at <= e.verify_until
  BY DEF Covers
<1>3. \A f \in resolve(d, a.kid) : f = e
  <2> TAKE f \in resolve(d, a.kid)
  <2>1. PICK i \in Indices(d) : e = d.keys[i] /\ d.keys[i].kid = a.kid
    BY DEF resolve
  <2>2. PICK j \in Indices(d) : f = d.keys[j] /\ d.keys[j].kid = a.kid
    BY DEF resolve
  <2>3. i = j
    BY <2>1, <2>2 DEF Loads
  <2> QED BY <2>1, <2>2, <2>3
<1>4. (CHOOSE f \in resolve(d, a.kid) : TRUE) = e
  BY <1>3
<1>5. e.not_before \in Nat /\ e.verify_until \in Nat
  BY <1>1, ResolveEntry DEF Entries
<1>6. /\ ~(a.issued_at < e.not_before) /\ ~(a.issued_at >= e.verify_until)
      /\ ~(now - ClockSkew >= e.verify_until)
  BY <1>1, <1>2, <1>5 DEF validate_time_window
<1>7. resolve(d, a.kid) # {}
  BY <1>2
<1> QED BY <1>2, <1>4, <1>6, <1>7 DEF _require_key

(* What loads is a document with a generation; Down does not load.                *)
LEMMA LoadedIsDocument ==
    /\ ~Loads(Down)
    /\ \A d \in Documents : d.generation \in Nat
BY KeySetAssumption DEF Loads, Down, AllDocuments

-------------------------------------------------------------------------------
(* Types.                                                                         *)

LEMMA TypeInit == Init => TypeOK
BY KeySetAssumption DEF Init, TypeOK, NoVerification, Codes

LEMMA VerdictType ==
    ASSUME NEW d, NEW a, NEW now
    PROVE  Verdict(d, a, now) \in Codes
BY DEF Verdict, _verify_identity_and_time, _require_key, Codes, KeyCodes

LEMMA TypeNext == TypeOK /\ [Next]_vars => TypeOK'
<1> SUFFICES ASSUME TypeOK, [Next]_vars PROVE TypeOK'
  OBVIOUS
<1> USE DEF TypeOK
<1>0. NoVerification.code \in Codes
  BY DEF NoVerification, Codes
<1>1. ASSUME NEW r \in Replicas, Restart(r) PROVE TypeOK'
  BY <1>0, <1>1 DEF Restart
<1>2. ASSUME NEW r \in Replicas, NEW a \in issued, Verify(r, a) PROVE TypeOK'
  BY <1>2, VerdictType DEF Verify
<1>3. ASSUME NEW d \in Documents, Publish(d) PROVE TypeOK'
  <2>1. newest' \in Nat /\ d.generation \in Nat
    BY <1>3, LoadedIsDocument DEF Publish
  <2>2. revoked' \in [Kids -> Nat]
    BY <1>3, <2>1 DEF Publish
  <2> QED BY <1>0, <1>3, <2>1, <2>2 DEF Publish
<1>4. ASSUME NEW k \in Kids, NEW w \in Windows, Issue(k, w) PROVE TypeOK'
  <2>1. PICK intact \in BOOLEAN :
           issued' = issued \cup {[kid |-> k, issued_at |-> time, not_before |-> time + w[1],
                                   expires_at |-> time + w[2], intact |-> intact]}
    BY <1>4 DEF Issue
  <2>2. time \in Nat /\ time + w[1] \in Nat /\ time + w[2] \in Nat
    BY KeySetAssumption
  <2> QED BY <1>0, <1>4, <2>1, <2>2 DEF Issue
<1>5. CASE Tick
  BY <1>0, <1>5, KeySetAssumption DEF Tick
<1>6. CASE UNCHANGED vars
  BY <1>6 DEF vars
<1> QED BY <1>1, <1>2, <1>3, <1>4, <1>5, <1>6 DEF Next

-------------------------------------------------------------------------------
(* The invariant of the sets.                                                     *)

LEMMA KeyInit == Init => KeyInv
<1> SUFFICES ASSUME Init PROVE KeyInv
  OBVIOUS
<1>1. /\ file \in Documents /\ file.generation = 1 /\ newest = 1
      /\ issued = {} /\ revoked = [k \in Kids |-> IF k \in Revoking(file) THEN 1 ELSE 0]
      /\ \A r \in Replicas : trusted[r] = Down
  BY DEF Init
<1>2. HoldsRevocations(file)
  BY <1>1, RevokingIsFinal DEF HoldsRevocations, Init
<1> QED BY <1>1, <1>2, TypeInit DEF KeyInv, Numbered, FileInv, ReplicaInv, CoversLive

LEMMA KeyNext == KeyInv /\ [Next]_vars => KeyInv'
<1> SUFFICES ASSUME KeyInv, [Next]_vars PROVE KeyInv'
  OBVIOUS
<1>0. TypeOK /\ TypeOK'
  BY TypeNext DEF KeyInv
<1>t. time \in Nat /\ newest \in Nat /\ ClockSkew \in Nat
  BY <1>0, KeySetAssumption DEF TypeOK
<1>1. ASSUME NEW r \in Replicas, Restart(r) PROVE KeyInv'
  <2>1. /\ UNCHANGED <<time, file, issued, newest, revoked>>
        /\ trusted' = [trusted EXCEPT ![r] = IF Loads(file) THEN file ELSE Down]
    BY <1>1 DEF Restart
  <2>2. ASSUME NEW s \in Replicas, trusted'[s] # Down
        PROVE  /\ Loads(trusted'[s]) /\ trusted'[s].generation <= newest
               /\ HoldsRevocations(trusted'[s]) /\ CoversLive(trusted'[s])
    <3>1. CASE s = r
      BY <1>0, <1>t, <2>1, <2>2, <3>1 DEF KeyInv, Numbered, FileInv, TypeOK
    <3>2. CASE s # r
      BY <1>0, <2>1, <2>2, <3>2 DEF KeyInv, ReplicaInv, TypeOK
    <3> QED BY <3>1, <3>2
  <2>3. ReplicaInv'
    BY <2>1, <2>2 DEF ReplicaInv, HoldsRevocations, CoversLive
  <2> QED BY <1>0, <2>1, <2>3 DEF KeyInv, Numbered, FileInv, HoldsRevocations, CoversLive
<1>2. ASSUME NEW r \in Replicas, NEW a \in issued, Verify(r, a) PROVE KeyInv'
  BY <1>0, <1>2 DEF Verify, KeyInv, Numbered, FileInv, ReplicaInv, HoldsRevocations, CoversLive
<1>3. ASSUME NEW d \in Documents, Publish(d) PROVE KeyInv'
  <2>1. file' = d /\ UNCHANGED <<time, trusted, issued>>
    BY <1>3 DEF Publish
  <2>2. \A k \in Kids :
           revoked'[k] = IF Loads(d) /\ revoked[k] = 0 /\ k \in Revoking(d)
                         THEN d.generation ELSE revoked[k]
    BY <1>3 DEF Publish
  <2>3. CASE ~Loads(d)
    <3>1. newest' = newest /\ \A k \in Kids : revoked'[k] = revoked[k]
      BY <1>3, <2>2, <2>3 DEF Publish
    <3>2. Numbered' /\ FileInv'
      BY <2>1, <2>3, <3>1 DEF KeyInv, Numbered, FileInv
    <3>3. ASSUME NEW s \in Replicas, trusted[s] # Down
          PROVE  HoldsRevocations(trusted[s])' /\ CoversLive(trusted[s])'
      BY <1>0, <2>1, <3>1, <3>3 DEF KeyInv, ReplicaInv, HoldsRevocations, CoversLive, TypeOK
    <3>4. ReplicaInv'
      BY <2>1, <3>1, <3>3 DEF KeyInv, ReplicaInv, HoldsRevocations, CoversLive
    <3> QED BY <1>0, <3>2, <3>4 DEF KeyInv
  <2>4. CASE Loads(d)
    <3>1. d.generation = newest + 1 /\ newest' = newest + 1
      BY <1>3, <2>4 DEF Publish
    <3>2. Numbered'
      BY <1>0, <1>t, <2>1, <2>2, <3>1 DEF KeyInv, Numbered, TypeOK
    <3>3. HoldsRevocations(d)'
      <4> SUFFICES ASSUME NEW k \in Kids, revoked'[k] # 0, NEW e \in resolve(d, k)
                   PROVE  e.status = "revoked"
        BY DEF HoldsRevocations
      <4>1. CASE revoked[k] # 0
        BY <1>3, <2>4, <4>1 DEF Publish
      <4>2. CASE revoked[k] = 0
        BY <2>2, <2>4, <4>2, RevokingIsFinal
      <4> QED BY <4>1, <4>2
    <3>4. CoversLive(d)'
      <4> SUFFICES ASSUME NEW a \in issued, time < a.expires_at + ClockSkew,
                          revoked'[a.kid] = 0
                   PROVE  Covers(d, a)
        BY <2>1 DEF CoversLive
      <4>1. a.kid \in Kids
        BY <1>0 DEF TypeOK
      <4>2. a.kid \notin Revoking(d)
        BY <1>0, <1>t, <2>2, <2>4, <3>1, <4>1 DEF TypeOK
      <4>3. PICK e \in resolve(d, a.kid) :
               e.not_before <= a.issued_at /\ a.expires_at <= e.verify_until
        BY <1>3, <2>4, <4>2 DEF Publish
      <4>4. e.status # "revoked"
        BY <4>1, <4>2, <4>3 DEF Revoking, resolve
      <4> QED BY <4>3, <4>4 DEF Covers
    <3>5. ASSUME NEW s \in Replicas, trusted[s] # Down
          PROVE  HoldsRevocations(trusted[s])' /\ CoversLive(trusted[s])'
      <4>1. /\ trusted[s].generation <= newest /\ trusted[s].generation \in Nat
            /\ HoldsRevocations(trusted[s]) /\ CoversLive(trusted[s])
        <5>1. trusted[s] \in Documents
          BY <1>0, <3>5 DEF TypeOK
        <5> QED BY <3>5, <5>1, LoadedIsDocument DEF KeyInv, ReplicaInv
      <4>2. \A k \in Kids : revoked'[k] # 0 /\ revoked'[k] <= trusted[s].generation
                              => revoked'[k] = revoked[k]
        BY <1>t, <2>2, <3>1, <4>1
      <4>3. HoldsRevocations(trusted[s])'
        BY <2>1, <4>1, <4>2 DEF HoldsRevocations
      <4>4. \A k \in Kids : revoked'[k] = 0 => revoked[k] = 0
        BY <1>t, <2>2, <3>1
      <4>5. CoversLive(trusted[s])'
        BY <1>0, <2>1, <4>1, <4>4 DEF CoversLive, TypeOK
      <4> QED BY <4>3, <4>5
    <3>6. ReplicaInv'
      <4>1. \A s \in Replicas : trusted[s] # Down => trusted[s].generation <= newest'
        <5> SUFFICES ASSUME NEW s \in Replicas, trusted[s] # Down
                     PROVE  trusted[s].generation <= newest'
          OBVIOUS
        <5>1. trusted[s].generation \in Nat /\ trusted[s].generation <= newest
          BY <1>0, LoadedIsDocument DEF KeyInv, ReplicaInv, TypeOK
        <5> QED BY <1>t, <3>1, <5>1
      <4>2. \A s \in Replicas : trusted[s] # Down => Loads(trusted[s])
        BY DEF KeyInv, ReplicaInv
      <4> QED BY <2>1, <3>5, <4>1, <4>2 DEF ReplicaInv, HoldsRevocations, CoversLive
    <3> QED BY <1>0, <2>1, <3>2, <3>3, <3>4, <3>6 DEF KeyInv, FileInv, HoldsRevocations, CoversLive
  <2> QED BY <2>3, <2>4
<1>4. ASSUME NEW k \in Kids, NEW w \in Windows, Issue(k, w) PROVE KeyInv'
  <2>1. PICK intact \in BOOLEAN :
           issued' = issued \cup {[kid |-> k, issued_at |-> time, not_before |-> time + w[1],
                                   expires_at |-> time + w[2], intact |-> intact]}
    BY <1>4 DEF Issue
  <2>2. UNCHANGED <<time, file, trusted, newest, revoked>>
    BY <1>4 DEF Issue
  <2>3. ASSUME NEW d, CoversLive(d),
               \E e \in resolve(d, k) : /\ e.status # "revoked" /\ e.not_before <= time
                                        /\ time + w[2] <= e.verify_until
        PROVE  CoversLive(d)'
    BY <2>1, <2>2, <2>3 DEF CoversLive, Covers
  <2>4. FileInv'
    BY <1>4, <2>2, <2>3 DEF Issue, KeyInv, FileInv, HoldsRevocations, CoversLive
  <2>5. ASSUME NEW s \in Replicas, trusted[s] # Down PROVE CoversLive(trusted[s])'
    BY <1>4, <2>2, <2>3, <2>5 DEF Issue, KeyInv, ReplicaInv, CoversLive
  <2>6. ReplicaInv'
    BY <2>2, <2>5 DEF KeyInv, ReplicaInv, HoldsRevocations, CoversLive
  <2> QED BY <1>0, <2>2, <2>4, <2>6 DEF KeyInv, Numbered
<1>5. CASE Tick
  <2>1. UNCHANGED <<file, trusted, issued, newest, revoked>> /\ time' >= time
    BY <1>t, <1>5 DEF Tick
  <2>2. \A a \in issued : time' < a.expires_at + ClockSkew => time < a.expires_at + ClockSkew
    BY <1>0, <1>t, <2>1, KeySetAssumption DEF TypeOK
  <2>3. FileInv'
    BY <2>1, <2>2 DEF KeyInv, FileInv, HoldsRevocations, CoversLive
  <2>4. ReplicaInv'
    BY <2>1, <2>2 DEF KeyInv, ReplicaInv, HoldsRevocations, CoversLive
  <2> QED BY <1>0, <2>1, <2>3, <2>4 DEF KeyInv, Numbered
<1>6. CASE UNCHANGED vars
  BY <1>0, <1>6 DEF vars, KeyInv, Numbered, FileInv, ReplicaInv, HoldsRevocations, CoversLive
<1> QED BY <1>1, <1>2, <1>3, <1>4, <1>5, <1>6 DEF Next

LEMMA KeyCorrect == Spec => []KeyInv
BY KeyInit, KeyNext, PTL DEF Spec

-------------------------------------------------------------------------------
(* Theorems.                                                                      *)

(* The documents a replica trusts are documents that were put in place, and the   *)
(* clock, the generations and the answers of verify keep their range.             *)
THEOREM TypeCorrect == Spec => []TypeOK
BY KeyCorrect, PTL DEF KeyInv

(* What a verification of this step says, of the state it was made in.            *)
LEMMA VerifiedOf ==
    ASSUME NEW r \in Replicas, NEW a \in issued, TypeOK, Verify(r, a)
    PROVE  /\ trusted[r] # Down /\ trusted[r] \in Documents
           /\ time \in Nat /\ ClockSkew \in Nat /\ MaxLifetime \in Nat
           /\ a.kid \in Kids /\ a.issued_at \in Nat /\ a.not_before \in Nat
           /\ a.expires_at \in Nat
           /\ last'.code = Verdict(trusted[r], a, time) /\ last'.kid = a.kid
           /\ last'.generation = trusted[r].generation /\ last'.now = time
           /\ last'.issued_at = a.issued_at /\ last'.expires_at = a.expires_at
           /\ revoked' = revoked
BY KeySetAssumption DEF TypeOK, Verify

(* Only a verification answers anything: every other step leaves no verdict.      *)
LEMMA OnlyVerifyAnswers ==
    ASSUME [Next]_vars
    PROVE  \/ \E r \in Replicas : \E a \in issued : Verify(r, a)
           \/ last'.code = "none"
           \/ UNCHANGED <<last, revoked>>
<1>1. NoVerification.code = "none"
  BY DEF NoVerification
<1>2. ASSUME NEW r \in Replicas, Restart(r) PROVE last'.code = "none"
  BY <1>1, <1>2 DEF Restart
<1>3. ASSUME NEW d \in Documents, Publish(d) PROVE last'.code = "none"
  BY <1>1, <1>3 DEF Publish
<1>4. ASSUME NEW k \in Kids, NEW w \in Windows, Issue(k, w) PROVE last'.code = "none"
  BY <1>1, <1>4 DEF Issue
<1>5. ASSUME Tick PROVE last'.code = "none"
  BY <1>1, <1>5 DEF Tick
<1> QED BY <1>2, <1>3, <1>4, <1>5 DEF Next, vars

LEMMA NothingAccepted == Init => last.code = "none"
BY DEF Init, NoVerification

(* Nothing is accepted before its issue or longer than the v1 lifetime after it,  *)
(* but for the clock skew: the checks of the contract and of                      *)
(* _verify_identity_and_time bound it together, neither alone.                    *)
THEOREM AcceptedInTime == Spec => []AcceptanceBounded
<1>1. Init => AcceptanceBounded
  BY NothingAccepted DEF AcceptanceBounded
<1>2. TypeOK /\ AcceptanceBounded /\ [Next]_vars => AcceptanceBounded'
  <2> SUFFICES ASSUME TypeOK, AcceptanceBounded, [Next]_vars PROVE AcceptanceBounded'
    OBVIOUS
  <2>1. ASSUME NEW r \in Replicas, NEW a \in issued, Verify(r, a) PROVE AcceptanceBounded'
    <3>1. Verdict(trusted[r], a, time) = "accepted" =>
            /\ validate_time_window(a)
            /\ _verify_identity_and_time(a, time) = "passed"
      BY DEF Verdict, _verify_identity_and_time, _require_key
    <3>2. Verdict(trusted[r], a, time) = "accepted" =>
            /\ a.expires_at - a.issued_at <= MaxLifetime
            /\ ~(a.issued_at > time + ClockSkew) /\ ~(a.expires_at <= time - ClockSkew)
      BY <3>1 DEF validate_time_window, _verify_identity_and_time
    <3> QED BY <2>1, <3>2, VerifiedOf DEF AcceptanceBounded
  <2>2. CASE last'.code = "none"
    BY <2>2 DEF AcceptanceBounded
  <2>3. CASE UNCHANGED <<last, revoked>>
    BY <2>3 DEF AcceptanceBounded
  <2> QED BY <2>1, <2>2, <2>3, OnlyVerifyAnswers
<1> QED BY <1>1, <1>2, TypeCorrect, PTL DEF Spec

(* An emergency revocation holds at every replica that loaded the revoking        *)
(* generation or a later one, whatever was published in between and whichever     *)
(* files did not load.                                                            *)
THEOREM RevokedKeysCutOff == Spec => []RevocationCutsOff
<1>1. Init => RevocationCutsOff
  BY NothingAccepted DEF RevocationCutsOff
<1>2. KeyInv /\ RevocationCutsOff /\ [Next]_vars => RevocationCutsOff'
  <2> SUFFICES ASSUME KeyInv, RevocationCutsOff, [Next]_vars PROVE RevocationCutsOff'
    OBVIOUS
  <2>1. ASSUME NEW r \in Replicas, NEW a \in issued, Verify(r, a) PROVE RevocationCutsOff'
    <3> SUFFICES ASSUME Verdict(trusted[r], a, time) = "accepted", revoked[a.kid] # 0
                 PROVE  trusted[r].generation < revoked[a.kid]
      BY <2>1, VerifiedOf DEF RevocationCutsOff, KeyInv
    <3>1. /\ trusted[r] # Down /\ trusted[r] \in Documents /\ a.kid \in Kids
          /\ trusted[r].generation \in Nat /\ revoked[a.kid] \in Nat
      BY <2>1, VerifiedOf, LoadedIsDocument DEF KeyInv, TypeOK
    <3>2. _require_key(trusted[r], a, time) = "passed"
      BY DEF Verdict, _verify_identity_and_time, _require_key
    <3>3. PICK e \in resolve(trusted[r], a.kid) : e.status # "revoked"
      BY <3>2 DEF _require_key
    <3>4. ~(revoked[a.kid] <= trusted[r].generation)
      BY <3>1, <3>3 DEF KeyInv, ReplicaInv, HoldsRevocations
    <3> QED BY <3>1, <3>4
  <2>2. CASE last'.code = "none"
    BY <2>2 DEF RevocationCutsOff
  <2>3. CASE UNCHANGED <<last, revoked>>
    BY <2>3 DEF RevocationCutsOff
  <2> QED BY <2>1, <2>2, <2>3, OnlyVerifyAnswers
<1> QED BY <1>1, <1>2, KeyCorrect, PTL DEF Spec

(* A rotation that keeps to the guards of Publish and Issue loses no call: in     *)
(* whatever order the replicas restart, an authorization with life left is        *)
(* refused for its key only if the key was revoked.                               *)
THEOREM RotationLosesNoCall == Spec => []RotationSeamless
<1>1. Init => RotationSeamless
  BY NothingAccepted DEF RotationSeamless, KeyCodes
<1>2. KeyInv /\ RotationSeamless /\ [Next]_vars => RotationSeamless'
  <2> SUFFICES ASSUME KeyInv, RotationSeamless, [Next]_vars PROVE RotationSeamless'
    OBVIOUS
  <2>1. ASSUME NEW r \in Replicas, NEW a \in issued, Verify(r, a) PROVE RotationSeamless'
    <3> SUFFICES ASSUME Verdict(trusted[r], a, time) \in KeyCodes,
                        time < a.expires_at + ClockSkew, revoked[a.kid] = 0
                 PROVE  FALSE
      BY <2>1, VerifiedOf DEF RotationSeamless, Live, KeyInv
    <3>1. Loads(trusted[r]) /\ Covers(trusted[r], a)
      BY <2>1, VerifiedOf DEF KeyInv, ReplicaInv, CoversLive
    <3>2. validate_time_window(a) /\ _require_key(trusted[r], a, time) # "passed"
      BY DEF Verdict, _verify_identity_and_time, KeyCodes
    <3> QED BY <2>1, <3>1, <3>2, VerifiedOf, CoveredIsNotRefused DEF KeyInv
  <2>2. CASE last'.code = "none"
    BY <2>2 DEF RotationSeamless, KeyCodes
  <2>3. CASE UNCHANGED <<last, revoked>>
    BY <2>3 DEF RotationSeamless, Live
  <2> QED BY <2>1, <2>2, <2>3, OnlyVerifyAnswers
<1> QED BY <1>1, <1>2, KeyCorrect, PTL DEF Spec
===============================================================================
