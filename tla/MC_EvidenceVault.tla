-------------------------- MODULE MC_EvidenceVault --------------------------
(* Two pieces of evidence, either of which can be stored, and be in one or *)
(* two versions in a backup: a backup with both, one with the same twice,  *)
(* one with another version of what may be kept. Two security reviewers,   *)
(* so that one can complete what the other began, and a custodian; one     *)
(* caller gives no name. Two of the four ledgers, which the code treats    *)
(* alike.                                                                  *)
EXTENDS EvidenceVault, TLC

CONSTANTS e1, e2, v1, v2, casey, sam, vera, nobody

MCRolesOf ==
  (casey :> {"EVIDENCE_CUSTODIAN"}) @@ (sam :> {"SECURITY_REVIEWER"})
    @@ (vera :> {"SECURITY_REVIEWER"}) @@ (nobody :> Roles)

ReadBy == {"EVIDENCE_CUSTODIAN"}
Hold == [startsAt |-> 0, expiresAt |-> 1, renewed |-> FALSE]
MCStoreRequests ==
  {[evidence |-> e1, version |-> v1, allowed |-> ReadBy, events |-> {0, 1}, hold |-> Hold],
   [evidence |-> e2, version |-> v1, allowed |-> ReadBy, events |-> {0}, hold |-> None]}

Saved(e, v) ==
  [evidence |-> e, record |-> [version |-> v, allowed |-> ReadBy, deadline |-> 1, hold |-> None]]
MCBackups == {<<Saved(e1, v2), Saved(e2, v1)>>, <<Saved(e2, v2), Saved(e2, v1)>>}
=============================================================================
