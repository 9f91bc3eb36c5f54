-------------------------- MODULE MC_RoundReveal --------------------------
(* Two holders and two authorities are the least that race: two forks of   *)
(* one round for one authority, and one answer with two authorities. One   *)
(* round of each mode. Instants 0..3 with the entitlement [1, 3) put a     *)
(* request before, at and inside the window and at its end.                *)
EXTENDS RoundReveal, TLC

CONSTANTS language, provenance, s1, s2, here, elsewhere, a1, a2

Entitled(r, a) ==
  [answer |-> a, round |-> r, session |-> s1, scope |-> here, acceptedAt |-> 1,
   expiresAt |-> 3, correction |-> "ACTIVE", blocked |-> FALSE]

MCEntitlements ==
  {Entitled(language, a1), Entitled(provenance, a1),
   [Entitled(provenance, a1) EXCEPT !.session = s2],
   [Entitled(language, a1) EXCEPT !.session = s2],
   [Entitled(language, a1) EXCEPT !.correction = "VOID"],
   [Entitled(provenance, a1) EXCEPT !.blocked = TRUE],
   [Entitled(language, a1) EXCEPT !.expiresAt = 1]}

MCRequests ==
  [answer : {a1}, round : Rounds, session : Sessions, scope : {here}, at : 0..3]
    \cup [answer : Answers, round : Rounds, session : {s1}, scope : Scopes, at : {1}]

MCClueCount == [r \in Rounds |-> IF r = language THEN 1 ELSE 2]

Symmetry == {[h \in Holders |-> p[h]] @@ [a \in Authorities |-> q[a]] :
               p \in Permutations(Holders), q \in Permutations(Authorities)}
=============================================================================
