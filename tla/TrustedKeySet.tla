------------------------------ MODULE TrustedKeySet ------------------------------
(* The Governance keys a fleet of replicas trusts: the key-set file, which each      *)
(* replica reads only when it starts, the rotation and revocation of keys, and the   *)
(* checks of verify that decide on an authorization's time window, key and           *)
(* signature.  Times are in ticks of one clock.                                      *)
EXTENDS Integers, Sequences, FiniteSets

CONSTANTS
    Kids,        \* key identifiers
    Replicas,
    Documents,   \* key-set files that may be put in place, the first ones first
    Windows,     \* <<not_before - issued_at, expires_at - issued_at>> Governance signs
    MaxLifetime, \* MAX_AUTHORIZATION_LIFETIME_SECONDS
    ClockSkew,   \* RUNTIME_AUTHORIZATION_CLOCK_SKEW_SECONDS
    MaxIssued,   \* bound: authorizations issued
    MaxTime      \* bound: the clock stops here

(* sound is FALSE for an entry whose fields, JWK or timestamps do not parse.         *)
Entries == [kid : Kids, status : {"active", "retiring", "revoked"},
            not_before : Nat, verify_until : Nat, sound : BOOLEAN]
(* readable is FALSE for a missing, oversized or ill-formed file.                    *)
AllDocuments == [readable : BOOLEAN, generation : Nat, keys : Seq(Entries)]

ASSUME KeySetAssumption ==
    /\ Documents \subseteq AllDocuments
    /\ \E d \in Documents : d.generation = 1
    /\ Windows \subseteq Nat \X Nat
    /\ MaxLifetime \in Nat /\ ClockSkew \in Nat
    /\ MaxIssued \in Nat /\ MaxTime \in Nat

VARIABLES
    time,
    file,      \* the document in place
    trusted,   \* trusted[r]: the key set r loaded, Down while it does not run
    issued,    \* authorizations Governance signed
    last,      \* the verification this step made, and what it answered
    \* History, read by the properties only:
    newest,    \* the generation of the latest file in place that loads
    revoked    \* revoked[k]: the generation that revoked k, 0 for none

vars == <<time, file, trusted, issued, last, newest, revoked>>

Down == [readable |-> FALSE, generation |-> 0, keys |-> <<>>]
NoVerification == [code |-> "none", kid |-> CHOOSE k \in Kids : TRUE, generation |-> 0,
                   now |-> 0, issued_at |-> 0, expires_at |-> 0]
KeyCodes == {"unknown_key", "key_revoked", "key_not_valid_for_issue_time",
             "key_verification_window_closed"}
Codes == KeyCodes \cup {"none", "invalid_request", "issued_in_future", "not_yet_valid",
                        "expired", "invalid_signature", "accepted"}

TypeOK ==
    /\ time \in 0..MaxTime
    /\ file \in Documents
    /\ trusted \in [Replicas -> Documents \cup {Down}]
    /\ issued \subseteq [kid : Kids, issued_at : Nat, not_before : Nat, expires_at : Nat,
                         intact : BOOLEAN]
    /\ last.code \in Codes
    /\ newest \in Nat /\ revoked \in [Kids -> Nat]

-------------------------------------------------------------------------------
(* The file.                                                                         *)

Indices(d) == DOMAIN d.keys

(* Definitions named Slip_... are faults the code does not have: each is the next    *)
(* definition of the code with one plausible mistake, and substituting it must       *)
(* break a property.                                                                 *)

(* A key identifier may appear twice.                                                *)
Slip_DuplicatesKept(d) ==
    /\ d.readable /\ d.generation >= 1 /\ d.keys # <<>>
    /\ \A i \in Indices(d) : d.keys[i].sound /\ d.keys[i].not_before < d.keys[i].verify_until
    /\ \E i \in Indices(d) : d.keys[i].status = "active"

(* load_trusted_key_set, _parse_key_set and _parse_key_entry: all or nothing.        *)
Loads(d) ==
    /\ d.readable /\ d.generation >= 1 /\ d.keys # <<>>
    /\ \A i \in Indices(d) : d.keys[i].sound /\ d.keys[i].not_before < d.keys[i].verify_until
    /\ \A i, j \in Indices(d) : d.keys[i].kid = d.keys[j].kid => i = j
    /\ \E i \in Indices(d) : d.keys[i].status = "active"

(* The entry of a key in a set, the first if several, as a set of none or one.       *)
resolve(d, kid) ==
    {d.keys[i] : i \in {i \in Indices(d) : /\ d.keys[i].kid = kid
                                           /\ \A j \in 1..i - 1 : d.keys[j].kid # kid}}

(* Startup: the lifespan fails with the load, and the replica stays down.            *)
Restart(r) ==
    /\ trusted' = [trusted EXCEPT ![r] = IF Loads(file) THEN file ELSE Down]
    /\ last' = NoVerification
    /\ UNCHANGED <<time, file, issued, newest, revoked>>

-------------------------------------------------------------------------------
(* An authorization.                                                                 *)

(* The contract bounds the life and not the order of its instants.                   *)
Slip_LifeFromNotBefore(a) ==
    /\ a.issued_at <= a.not_before
    /\ a.not_before < a.expires_at
    /\ a.expires_at - a.not_before <= MaxLifetime

validate_time_window(a) ==
    /\ a.issued_at <= a.not_before
    /\ a.not_before < a.expires_at
    /\ a.expires_at - a.issued_at <= MaxLifetime

_verify_identity_and_time(a, now) ==
    IF a.issued_at > now + ClockSkew        THEN "issued_in_future"
    ELSE IF a.not_before > now + ClockSkew  THEN "not_yet_valid"
    ELSE IF a.expires_at <= now - ClockSkew THEN "expired"
    ELSE "passed"

(* The key's window is closed without the skew the authorization was granted.        *)
Slip_NoSkewForKey(d, a, now) ==
    IF resolve(d, a.kid) = {} THEN "unknown_key"
    ELSE LET key == CHOOSE e \in resolve(d, a.kid) : TRUE IN
         IF key.status = "revoked"       THEN "key_revoked"
         ELSE IF \/ a.issued_at < key.not_before
                 \/ a.issued_at >= key.verify_until THEN "key_not_valid_for_issue_time"
         ELSE IF now >= key.verify_until THEN "key_verification_window_closed"
         ELSE "passed"

_require_key(d, a, now) ==
    IF resolve(d, a.kid) = {} THEN "unknown_key"
    ELSE LET key == CHOOSE e \in resolve(d, a.kid) : TRUE IN
         IF key.status = "revoked"                   THEN "key_revoked"
         ELSE IF \/ a.issued_at < key.not_before
                 \/ a.issued_at >= key.verify_until THEN "key_not_valid_for_issue_time"
         ELSE IF now - ClockSkew >= key.verify_until THEN "key_verification_window_closed"
         ELSE "passed"

(* verify up to the signature; the body is parsed before, and a contract it breaks   *)
(* is a 422.                                                                         *)
Verdict(d, a, now) ==
    IF ~validate_time_window(a)                          THEN "invalid_request"
    ELSE IF _verify_identity_and_time(a, now) # "passed" THEN _verify_identity_and_time(a, now)
    ELSE IF _require_key(d, a, now) # "passed"           THEN _require_key(d, a, now)
    ELSE IF ~a.intact                                    THEN "invalid_signature"
    ELSE "accepted"

(* The evidence of an accepted one is the generation that its replica loaded.        *)
Verify(r, a) ==
    /\ trusted[r] # Down
    /\ last' = [code |-> Verdict(trusted[r], a, time), kid |-> a.kid,
                generation |-> trusted[r].generation, now |-> time,
                issued_at |-> a.issued_at, expires_at |-> a.expires_at]
    /\ UNCHANGED <<time, file, trusted, issued, newest, revoked>>

-------------------------------------------------------------------------------
(* Governance and the operator.  docs/adr/0012:61 says that a new generation is      *)
(* activated by a restart; the rest of the discipline is an assumption made here     *)
(* about the environment, and what the properties below need of it.                  *)

Revoking(d) == {k \in Kids : \E i \in Indices(d) : d.keys[i].kid = k
                                                   /\ d.keys[i].status = "revoked"}

(* A generation follows the one before; it keeps the entry of a key whose            *)
(* authorizations are alive, active or retiring, unless it revokes the key, and      *)
(* never brings a revoked key back.  A file that does not load may take its place:   *)
(* only the replicas that start then are concerned.                                  *)
Publish(d) ==
    /\ d # file
    /\ Loads(d) =>
        /\ d.generation = newest + 1
        /\ \A k \in Kids :
             revoked[k] # 0 => \A e \in resolve(d, k) : e.status = "revoked"
        /\ \A a \in issued : time < a.expires_at + ClockSkew =>
             \/ a.kid \in Revoking(d)
             \/ \E e \in resolve(d, a.kid) :
                   e.not_before <= a.issued_at /\ a.expires_at <= e.verify_until
    /\ file' = d
    /\ newest' = IF Loads(d) THEN d.generation ELSE newest
    /\ revoked' = [k \in Kids |-> IF Loads(d) /\ revoked[k] = 0 /\ k \in Revoking(d)
                                  THEN d.generation ELSE revoked[k]]
    /\ last' = NoVerification
    /\ UNCHANGED <<time, trusted, issued>>

(* A key signs once the file and every running replica have it, active in the file;  *)
(* the life of what it signs ends with its window at the latest.  An authorization   *)
(* may be altered on its way.                                                        *)
Issue(k, w) ==
    LET Trusts(d) == \E e \in resolve(d, k) :
                        /\ e.status # "revoked" /\ e.not_before <= time
                        /\ time + w[2] <= e.verify_until
    IN
    /\ Cardinality(issued) < MaxIssued
    /\ Loads(file) /\ Trusts(file) /\ \E e \in resolve(file, k) : e.status = "active"
    /\ \A r \in Replicas : trusted[r] = Down \/ Trusts(trusted[r])
    /\ \E intact \in BOOLEAN :
         issued' = issued \cup {[kid |-> k, issued_at |-> time, not_before |-> time + w[1],
                                 expires_at |-> time + w[2], intact |-> intact]}
    /\ last' = NoVerification
    /\ UNCHANGED <<time, file, trusted, newest, revoked>>

Tick ==
    /\ time < MaxTime
    /\ time' = time + 1
    /\ last' = NoVerification
    /\ UNCHANGED <<file, trusted, issued, newest, revoked>>

Init ==
    /\ time = 0
    /\ file \in {d \in Documents : d.generation = 1 /\ Loads(d)}
    /\ trusted = [r \in Replicas |-> Down]
    /\ issued = {}
    /\ last = NoVerification
    /\ newest = 1
    /\ revoked = [k \in Kids |-> IF k \in Revoking(file) THEN 1 ELSE 0]

Next ==
    \/ \E r \in Replicas : Restart(r) \/ \E a \in issued : Verify(r, a)
    \/ \E d \in Documents : Publish(d)
    \/ \E k \in Kids, w \in Windows : Issue(k, w)
    \/ Tick

Spec == Init /\ [][Next]_vars

-------------------------------------------------------------------------------
(* Properties.                                                                       *)

Live(v) == v.now < v.expires_at + ClockSkew

(* Rotation loses no call: in whatever order the replicas restart, an authorization  *)
(* in its validity is refused for its key only if that key was revoked.              *)
RotationSeamless ==
    last.code \in KeyCodes /\ Live(last) => revoked[last.kid] # 0

(* An emergency revocation holds at every replica started since: none that loaded    *)
(* the revoking generation or a later one accepts the key, in the way docs/adr/0012  *)
(* activates it, by a restart.                                                       *)
RevocationCutsOff ==
    last.code = "accepted" /\ revoked[last.kid] # 0 => last.generation < revoked[last.kid]

(* Nothing is accepted before its issue or longer than the v1 lifetime after it,     *)
(* beyond the clock skew on either side, however long its key is trusted.            *)
AcceptanceBounded ==
    last.code = "accepted" =>
        /\ last.issued_at - ClockSkew <= last.now
        /\ last.now < last.issued_at + MaxLifetime + ClockSkew
===============================================================================
