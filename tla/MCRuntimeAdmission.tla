-------------------------- MODULE MCRuntimeAdmission --------------------------
(* Instances of RuntimeAdmission for TLC.  One agent, whose older authorization *)
(* a1 carries version 1 and whose newer a2 carries version 2.                   *)
EXTENDS RuntimeAdmission

CONSTANTS r1, r2, r3, a1, a2, ag1, g1, g2

OneAuth == {a1}
TwoAuths == {a1, a2}

MCAgentOf == [a \in Auths |-> ag1]
MCVersion == [a \in Auths |-> IF a = a1 THEN 1 ELSE 2]
MCNotBefore == [a \in Auths |-> 1]
MCExpiresAt == [a \in Auths |-> 3]
MCScope == [a \in Auths |-> {g1}]

Projection(status, killed, floor) == [status |-> status, killed |-> killed, floor |-> floor]

(* The replay runs leave Governance alone.                                      *)
AlwaysPermitted == {Projection("readable", FALSE, 0)}
(* The control runs let it kill, restore with and without a raised floor, and   *)
(* lose or corrupt the record.                                                  *)
KillAndRevoke ==
    {Projection("readable", k, f) : k \in BOOLEAN, f \in {0, 1}}
      \cup {Projection("missing", FALSE, 0), Projection("invalid", FALSE, 1)}

Exact == {0}
Behind == {-1, 0}
===============================================================================
