------------------------ MODULE MC_DailyCredentials ------------------------
(* Two credentials that can share an invitation, a lineage or a day, and   *)
(* whose ids are such that "c1:k2" and "c2:k1" read the same. Instants lie *)
(* on both sides of the two cuts of a lifetime: day 0 and its grace end at *)
(* 25, and 26 hours after an issue before the day began end at 23. Round   *)
(* r2 is r1 written with a blank after it, and c3 is such a c2.            *)
EXTENDS DailyCredentials, TLC

CONSTANTS c1, c2, c3, i1, i2, p1, p2, m, play, notice, r1, r2, k1, k2

MCKeyOf == [ik \in Ids \X Keys |->
              IF ik = <<c2, k1>> THEN <<c1, k2>> ELSE ik]
MCRoundOf == [ir \in Ids \X Rounds |-> ir]
MCTrim == [x \in Ids \cup Invitations \cup Manifests \cup Rounds |->
            CASE x = r2 -> r1 [] x = c3 -> c2 [] OTHER -> x]
MCJoined == (Ids \X Keys) \cup (Ids \X Rounds)

Asked(id, i, l, d, ts, at) ==
  [id |-> id, invitation |-> i, lineage |-> l, day |-> d, manifest |-> m,
   permitted |-> ts, at |-> at]
MCIssueRequests ==
  {Asked(c1, i1, p1, 0, {play, notice}, at) : at \in {-3, 2, 24}}
    \cup {Asked(c2, i1, l, d, {play}, 2) : l \in {p1, p2}, d \in {0, 1}}
    \cup {Asked(c3, i2, p1, 1, {notice}, 2)}

MCUseRequests ==
  [id : {c1}, lineage : {p1}, day : {0}, manifest : {m}, transition : {play, notice},
   round : {r1, r2}, key : Keys, at : {22, 24}, secretsMatch : {TRUE}]
    \cup [id : {c1}, lineage : {p1}, day : {0}, manifest : {m}, transition : {play},
          round : {r1}, key : {k1}, at : {25}, secretsMatch : {TRUE}]
    \cup [id : {c2}, lineage : {p1, p2}, day : {0, 1}, manifest : {m}, transition : {play},
          round : {r1}, key : {k1}, at : {2}, secretsMatch : BOOLEAN]
=============================================================================
