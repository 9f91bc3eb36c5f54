------------------------ MODULE RoundReveal_proofs ------------------------
(***************************************************************************)
(* Proofs about RoundReveal, for any number of callers, rounds, requests   *)
(* and authorities.                                                        *)
(*                                                                         *)
(* That an authority releases once is not inductive by itself: it rests on *)
(* the mark that authorize leaves (used) being the count of its releases,  *)
(* and on every outcome having spent its authority, so that a second one   *)
(* for the same authority finds it used. That an outcome stays within its  *)
(* entitlement rests on an authority being issued once.                    *)
(***************************************************************************)
EXTENDS RoundReveal, TLAPS

\* The mark an authority carries is the number of its releases.
UsedCountsReleases ==
  \A a \in Authorities : released[a] = IF used[a] THEN 1 ELSE 0

\* An outcome was paid for with its authority, and nobody else's was.
OutcomeSpentItsAuthority ==
  /\ \A o \in outcomes : used[o.authority]
  /\ \A o, p \in outcomes : o.authority = p.authority => o = p

\* A flow never gets beyond the clues its round defines.
CluesWithinRound == \A h \in Holders : flow[h].clues <= ClueCount[flow[h].round]

IInv ==
  /\ TypeOK
  /\ UsedCountsReleases
  /\ OutcomeSpentItsAuthority
  /\ CluesWithinRound
  /\ OutcomeWithinEntitlement
  /\ PointsAreEarned
-----------------------------------------------------------------------------
\* The points of a round are one of the four published values.
LEMMA RoundPointsType ==
  ASSUME NEW correct \in BOOLEAN, NEW n \in 0..2
  PROVE  /\ RoundPoints(correct, n) \in {0, 500, 800, 1000}
         /\ RoundPoints(correct, n) = IF correct THEN Worth(n) ELSE 0
<1>1. n \in {0, 1, 2}
  OBVIOUS
<1>2. QED
  BY <1>1 DEF RoundPoints, CorrectPoints, Worth

\* A successful reveal returns a well-formed outcome inside the entitlement.
LEMMA RevealedOutcome ==
  ASSUME IInv, NEW h \in Holders, NEW a \in Authorities, NEW q \in Requests,
         NEW payload \in Payload \cup {Malformed},
         Reveal(h, a, q, payload)
  PROVE  LET o == OutcomeOf(a, flow[h], q, payload)
             e == entitlement[a]
         IN /\ o \in Outcome
            /\ o.authority = a
            /\ ~used[a]
            /\ e # None
            /\ o.selection.answer = e.answer
            /\ o.round = e.round
            /\ o.round \in LanguageRounds => e.session = HomeSession
            /\ e.acceptedAt <= o.at /\ o.at < e.expiresAt
            /\ e.correction = "ACTIVE" /\ ~e.blocked
            /\ o.points = IF o.selection.candidate = Correct THEN Worth(o.clues) ELSE 0
<1> DEFINE f == flow[h]
           e == entitlement[a]
           verdict == payload.correct
           points == RoundPoints(verdict, f.clues)
           o == OutcomeOf(a, f, q, payload)
<1>1. f \in Flow
  BY DEF IInv, TypeOK
<1>2. e \in Entitlement /\ e # None
  BY RevealAssumption DEF IInv, TypeOK, Reveal, Authorized
<1>3. q \in Request
  BY RevealAssumption
<1>4. /\ ~used[a] /\ Bound(q, e)
      /\ ~(q.at < e.acceptedAt) /\ ~(q.at >= e.expiresAt)
      /\ e.correction = "ACTIVE" /\ ~e.blocked
  BY DEF Reveal, Authorized, Denial
<1>5. verdict \in BOOLEAN /\ verdict = (f.selection.candidate = Correct)
  BY DEF Reveal, Authorized, Payload, Accepts
<1>6. /\ f.clues \in 0..2 /\ f.round \in Rounds
      /\ f.selection \in Selection
      /\ f.selection.answer = q.answer /\ f.round = q.round
      /\ f.round \in LanguageRounds => q.session = HomeSession
  BY <1>1 DEF Reveal, Asks, Flow
<1>7. q.at \in Nat /\ q.at \in Times /\ e.acceptedAt \in Nat /\ e.expiresAt \in Nat
  BY <1>2, <1>3, RevealAssumption DEF Request, Entitlement, Times
<1>8. points \in {0, 500, 800, 1000} /\ points = IF verdict THEN Worth(f.clues) ELSE 0
  <2>1. \A v \in BOOLEAN, n \in 0..2 :
          /\ RoundPoints(v, n) \in {0, 500, 800, 1000}
          /\ RoundPoints(v, n) = IF v THEN Worth(n) ELSE 0
    BY RoundPointsType
  <2>2. f.clues \in 0..2 /\ verdict \in BOOLEAN
    BY <1>5, <1>6
  <2> DEFINE n == f.clues
  <2>3. n \in 0..2
    BY <2>2
  <2> HIDE DEF n
  <2>4. RoundPoints(verdict, n) \in {0, 500, 800, 1000}
    BY <2>1, <2>2, <2>3
  <2>5. RoundPoints(verdict, n) = IF verdict THEN Worth(n) ELSE 0
    BY <2>1, <2>2, <2>3
  <2>6. QED
    BY <2>4, <2>5 DEF n
<1>9. o = [authority |-> a, round |-> f.round, clues |-> f.clues,
           selection |-> f.selection, at |-> q.at, points |-> points]
  BY DEF OutcomeOf
<1> HIDE DEF f, e, verdict, points, o
<1>10. o \in Outcome
  BY <1>6, <1>7, <1>8, <1>9 DEF Outcome
<1>11. /\ o.selection.answer = e.answer /\ o.round = e.round
       /\ o.round \in LanguageRounds => e.session = HomeSession
  BY <1>4, <1>6, <1>9 DEF Bound
<1>12. e.acceptedAt <= o.at /\ o.at < e.expiresAt
  BY <1>4, <1>7, <1>9
<1>13. o.points = IF o.selection.candidate = Correct THEN Worth(o.clues) ELSE 0
  BY <1>5, <1>8, <1>9
<1>14. o.authority = a
  BY <1>9
<1>15. /\ o.selection.answer = e.answer /\ o.round = e.round
       /\ e # None /\ ~used[a] /\ e.correction = "ACTIVE" /\ ~e.blocked
  BY <1>2, <1>4, <1>11
<1>16. QED
  BY <1>10, <1>11, <1>12, <1>13, <1>14, <1>15, Zenon DEF o, e, f
-----------------------------------------------------------------------------
\* Initially no authority is issued, and nothing is released.
THEOREM InitEstablishesIInv == Init => IInv
<1> SUFFICES ASSUME Init PROVE IInv
  OBVIOUS
<1>1. TypeOK
  BY DEF Init, TypeOK, NewFlows
<1>2. CluesWithinRound
  BY DEF Init, CluesWithinRound, NewFlows
<1>3. QED
  BY <1>1, <1>2 DEF IInv, Init, UsedCountsReleases, OutcomeSpentItsAuthority,
                    OutcomeWithinEntitlement, PointsAreEarned

\* Issuing an authority breaks no part of the invariant: it had no outcome.
LEMMA IssuePreservesIInv ==
  ASSUME IInv, NEW a \in Authorities, NEW e \in Entitlements, Issue(a, e)
  PROVE  IInv'
<1>1. TypeOK'
  BY DEF IInv, TypeOK, Issue
<1>2. OutcomeWithinEntitlement'
  <2> SUFFICES ASSUME NEW o \in outcomes
               PROVE  entitlement'[o.authority] = entitlement[o.authority]
    BY DEF IInv, OutcomeWithinEntitlement, Issue
  <2>1. entitlement[o.authority] # None /\ o.authority \in Authorities
    BY DEF IInv, TypeOK, OutcomeWithinEntitlement, Outcome
  <2>2. QED
    BY <2>1 DEF IInv, TypeOK, Issue
<1>3. QED
  BY <1>1, <1>2 DEF IInv, Issue, UsedCountsReleases, OutcomeSpentItsAuthority,
                    CluesWithinRound, PointsAreEarned

\* Accepting a clue moves its flow only, and not beyond the round's clues.
LEMMA AcceptCluePreservesIInv ==
  ASSUME IInv, NEW h \in Holders, AcceptClue(h)
  PROVE  IInv'
<1>1. flow[h] \in Flow /\ flow[h].clues \in 0..2
  BY DEF IInv, TypeOK, Flow
<1>2. flow[h].round \in Rounds /\ ClueCount[flow[h].round] \in 0..2
  BY <1>1, RevealAssumption DEF Flow
<1>3. flow' = [flow EXCEPT ![h] = [flow[h] EXCEPT !.clues = @ + 1]]
  BY DEF AcceptClue, IInv, TypeOK
<1>4. flow[h].clues + 1 \in 0..2 /\ flow[h].clues + 1 <= ClueCount[flow[h].round]
  BY <1>1, <1>2 DEF AcceptClue
<1>5. [flow[h] EXCEPT !.clues = @ + 1] \in Flow
  BY <1>1, <1>4 DEF Flow
<1>6. TypeOK'
  BY <1>3, <1>5 DEF IInv, TypeOK, AcceptClue
<1>7. CluesWithinRound'
  BY <1>1, <1>3, <1>4 DEF IInv, TypeOK, CluesWithinRound, Flow
<1>8. QED
  BY <1>6, <1>7 DEF IInv, AcceptClue, UsedCountsReleases, OutcomeSpentItsAuthority,
                    OutcomeWithinEntitlement, PointsAreEarned

\* Accepting an answer moves its flow only, and keeps its clues.
LEMMA AcceptAnswerPreservesIInv ==
  ASSUME IInv, NEW h \in Holders, NEW t \in Answers, NEW c \in Candidates,
         AcceptAnswer(h, t, c)
  PROVE  IInv'
<1>1. flow[h] \in Flow
  BY DEF IInv, TypeOK
<1>2. [answer |-> t, candidate |-> c] \in Selection
  BY DEF Selection
<1>3. flow' = [flow EXCEPT ![h] = [flow[h] EXCEPT !.selection = [answer |-> t, candidate |-> c]]]
  BY DEF AcceptAnswer, IInv, TypeOK
<1>4. [flow[h] EXCEPT !.selection = [answer |-> t, candidate |-> c]] \in Flow
  BY <1>1, <1>2 DEF Flow
<1>5. TypeOK'
  BY <1>3, <1>4 DEF IInv, TypeOK, AcceptAnswer
<1>6. CluesWithinRound'
  BY <1>1, <1>3 DEF IInv, TypeOK, CluesWithinRound, Flow
<1>7. QED
  BY <1>5, <1>6 DEF IInv, AcceptAnswer, UsedCountsReleases, OutcomeSpentItsAuthority,
                    OutcomeWithinEntitlement, PointsAreEarned

\* Spending an authority that was not used keeps the mark and the count equal.
LEMMA ConsumeCounts ==
  ASSUME IInv, NEW a \in Authorities, ~used[a], Consume(a)
  PROVE  /\ UsedCountsReleases'
         /\ used' \in [Authorities -> BOOLEAN]
         /\ released' \in [Authorities -> Nat]
         /\ used'[a]
         /\ \A b \in Authorities : used[b] => used'[b]
<1>1. released[a] = 0
  BY DEF IInv, UsedCountsReleases
<1>2. QED
  BY <1>1 DEF IInv, TypeOK, UsedCountsReleases, Consume

\* A reveal that succeeds adds the one outcome of a fresh authority.
LEMMA RevealPreservesIInv ==
  ASSUME IInv, NEW h \in Holders, NEW a \in Authorities, NEW q \in Requests,
         NEW payload \in Payload \cup {Malformed},
         Reveal(h, a, q, payload)
  PROVE  IInv'
<1> DEFINE o == OutcomeOf(a, flow[h], q, payload)
<1>1. /\ o \in Outcome /\ o.authority = a /\ ~used[a]
      /\ outcomes' = outcomes \cup {o}
      /\ UNCHANGED <<flow, entitlement>>
  BY RevealedOutcome DEF Reveal
<1>2. /\ UsedCountsReleases'
      /\ used' \in [Authorities -> BOOLEAN] /\ released' \in [Authorities -> Nat]
      /\ used'[a] /\ \A b \in Authorities : used[b] => used'[b]
  BY <1>1, ConsumeCounts DEF Reveal
<1>3. TypeOK'
  BY <1>1, <1>2 DEF IInv, TypeOK
<1>4. CluesWithinRound'
  BY <1>1 DEF IInv, CluesWithinRound
<1>5. OutcomeWithinEntitlement'
  BY <1>1, RevealedOutcome DEF IInv, OutcomeWithinEntitlement
<1>6. PointsAreEarned'
  BY <1>1, RevealedOutcome DEF IInv, PointsAreEarned
<1> HIDE DEF o
<1>7. \A p \in outcomes : p.authority \in Authorities /\ p.authority # a
  BY <1>1 DEF IInv, TypeOK, Outcome, OutcomeSpentItsAuthority
<1>8. OutcomeSpentItsAuthority'
  BY <1>1, <1>2, <1>7 DEF IInv, OutcomeSpentItsAuthority
<1>9. QED
  BY <1>2, <1>3, <1>4, <1>5, <1>6, <1>8 DEF IInv

\* A reveal that throws late spends its authority and leaves the outcomes.
LEMMA RevealThrowsPreservesIInv ==
  ASSUME IInv, NEW h \in Holders, NEW a \in Authorities, NEW q \in Requests,
         NEW payload \in Payload \cup {Malformed},
         RevealThrows(h, a, q, payload)
  PROVE  IInv'
<1>1. ~used[a]
  BY DEF RevealThrows, Authorized, Denial
<1>2. /\ UsedCountsReleases'
      /\ used' \in [Authorities -> BOOLEAN] /\ released' \in [Authorities -> Nat]
      /\ \A b \in Authorities : used[b] => used'[b]
  BY <1>1, ConsumeCounts DEF RevealThrows
<1>3. UNCHANGED <<flow, entitlement, outcomes>>
  BY DEF RevealThrows
<1>4. TypeOK'
  BY <1>2, <1>3 DEF IInv, TypeOK
<1>5. \A o \in outcomes : o.authority \in Authorities
  BY DEF IInv, TypeOK, Outcome
<1>6. OutcomeSpentItsAuthority'
  BY <1>2, <1>3, <1>5 DEF IInv, OutcomeSpentItsAuthority
<1>7. QED
  BY <1>2, <1>3, <1>4, <1>6 DEF IInv, CluesWithinRound, OutcomeWithinEntitlement, PointsAreEarned

\* Every step of the specification preserves the invariant.
THEOREM NextPreservesIInv == IInv /\ [Next]_vars => IInv'
<1> SUFFICES ASSUME IInv, [Next]_vars PROVE IInv'
  OBVIOUS
<1>1. ASSUME NEW a \in Authorities, NEW e \in Entitlements, Issue(a, e)
      PROVE  IInv'
  BY <1>1, IssuePreservesIInv
<1>2. ASSUME NEW h \in Holders, AcceptClue(h)
      PROVE  IInv'
  BY <1>2, AcceptCluePreservesIInv
<1>3. ASSUME NEW h \in Holders, NEW t \in Answers, NEW c \in Candidates, AcceptAnswer(h, t, c)
      PROVE  IInv'
  BY <1>3, AcceptAnswerPreservesIInv
<1>4. ASSUME NEW h \in Holders, NEW a \in Authorities, NEW q \in Requests,
             NEW payload \in Payload \cup {Malformed},
             Reveal(h, a, q, payload) \/ RevealThrows(h, a, q, payload)
      PROVE  IInv'
  BY <1>4, RevealPreservesIInv, RevealThrowsPreservesIInv
<1>5. CASE UNCHANGED vars
  BY <1>5 DEF vars, IInv, TypeOK, UsedCountsReleases, OutcomeSpentItsAuthority,
              CluesWithinRound, OutcomeWithinEntitlement, PointsAreEarned
<1>6. QED
  BY <1>1, <1>2, <1>3, <1>4, <1>5 DEF Next

\* The invariant holds in every state of every run.
THEOREM IInvAlways == Spec => []IInv
  BY InitEstablishesIInv, NextPreservesIInv, PTL DEF Spec
-----------------------------------------------------------------------------
\* Every variable keeps its type, and no flow accepts a clue its round lacks.
THEOREM TypeCorrect == Spec => []TypeOK
<1>1. IInv => TypeOK
  BY DEF IInv
<1>2. QED
  BY <1>1, IInvAlways, PTL

(* However many callers fork a round and however they interleave, an       *)
(* authority releases its payload once and yields one outcome at most      *)
(* (RevealAuthority.authorize and its callers in the flows).               *)
THEOREM AuthorityReleasesOnce == Spec => []OneReleasePerAuthority
<1>1. IInv => OneReleasePerAuthority
  BY DEF IInv, UsedCountsReleases, OutcomeSpentItsAuthority, OneReleasePerAuthority
<1>2. QED
  BY <1>1, IInvAlways, PTL

(* No outcome is for another answer, round or session than its authority's *)
(* entitlement names, nor outside its window, nor on a round that was      *)
(* corrected or blocked when the entitlement was taken.                    *)
THEOREM OutcomesStayWithinEntitlement == Spec => []OutcomeWithinEntitlement
<1>1. IInv => OutcomeWithinEntitlement
  BY DEF IInv
<1>2. QED
  BY <1>1, IInvAlways, PTL

(* Points go to the certified candidate only and by the clues of the flow  *)
(* that answered, whatever the payload provider claims.                    *)
THEOREM PointsAlwaysEarned == Spec => []PointsAreEarned
<1>1. IInv => PointsAreEarned
  BY DEF IInv
<1>2. QED
  BY <1>1, IInvAlways, PTL
=============================================================================
