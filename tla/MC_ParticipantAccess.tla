----------------------- MODULE MC_ParticipantAccess -----------------------
(* Two invitations and three daily credentials: two of one lineage on two  *)
(* days, so that a cascade has one to name and one to find by itself, and  *)
(* one of a lineage that may be either invitation's. Invitation i2 is i1   *)
(* written with a blank before it.                                         *)
EXTENDS ParticipantAccess, TLC

CONSTANTS c1, c2, c3, i1, i2, p1, p2, m, play, notice, r1, k1

MCKeyOf == [ik \in Ids \X Keys |-> ik]
MCRoundOf == [ir \in Ids \X Rounds |-> ir]
MCTrim == [x \in Ids \cup Invitations \cup Manifests \cup Rounds |-> IF x = i2 THEN i1 ELSE x]
MCJoined == (Ids \X Keys) \cup (Ids \X Rounds)

Asked(id, i, l, d) ==
  [id |-> id, invitation |-> i, lineage |-> l, day |-> d, manifest |-> m,
   permitted |-> {play}, at |-> 2]
MCIssueRequests ==
  {Asked(c1, i1, p1, 0), Asked(c2, i1, p1, 1), Asked(c3, i1, p2, 0), Asked(c3, i2, p2, 0)}

MCUseRequests ==
  [id : {c1, c2}, lineage : {p1}, day : {0, 1}, manifest : {m}, transition : {play},
   round : {r1}, key : {k1}, at : {2}, secretsMatch : {TRUE}]
=============================================================================
