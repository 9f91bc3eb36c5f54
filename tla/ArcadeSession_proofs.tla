------------------------ MODULE ArcadeSession_proofs ------------------------
(***************************************************************************)
(* Proofs about ArcadeSession, for every number of rounds, every number of *)
(* clues up to two and every set of candidates.                            *)
(*                                                                         *)
(* What the shell does after its await is right only because the session   *)
(* cannot have changed meanwhile. That is the heart of IInv: while a call  *)
(* is in flight, the session it closed over is the session on the screen.  *)
(***************************************************************************)
EXTENDS ArcadeSession, WellFoundedInduction, TLAPS

(* The controls keep the closure of a call fresh, and nothing but its      *)
(* controls: busy holds exactly while a call is in flight, the round is    *)
(* not revealed then, and the request was built from the session shown.    *)
CallIsFresh ==
  /\ busy <=> call # None
  /\ call # None =>
       /\ call.session = session
       /\ session.reveal = None
       /\ call.request = Request(session, call.request.candidate)

\* The clues on the screen are all the clues this round ever had there.
CluesStay == shown = session.visibleHintCount

IInv == TypeOK /\ CallIsFresh /\ CluesStay /\ ProgressMatchesPosition

-----------------------------------------------------------------------------
\* What a round can be worth is one of the published round scores.
LEMMA RoundScoreType ==
  ASSUME NEW correct \in BOOLEAN, NEW n \in 0..Clues
  PROVE  RoundScore(correct, n) \in RoundScores
<1>1. n \in {0, 1, 2}
  BY CluesAssumption
<1>2. QED
  BY <1>1 DEF RoundScore, RoundScores, CorrectPoints

\* The published round scores are numbers of points, so totals can be added up.
LEMMA RoundScoresAreNat == RoundScores \subseteq Nat
  BY DEF RoundScores

\* The server's answer to a request it accepts is a well-formed reveal.
LEMMA ServerRevealType ==
  ASSUME NEW q \in RequestType,
         ServerAccepts(q)
  PROVE  /\ ServerReveal(q) \in Reveal
         /\ ServerReveal(q).score \in RoundScores
<1> DEFINE correct == q.candidate = Correct
           points == RoundScore(correct, q.cluesUsed)
<1>1. points \in RoundScores
  BY RoundScoreType DEF RequestType
<1>2. q.completed + 1 \in 1..Rounds
  BY RoundsAssumption DEF ServerAccepts, RequestType
<1>3. ServerReveal(q) = [round |-> q.round, correct |-> correct, score |-> points,
                         total |-> q.score + points, completed |-> q.completed + 1]
  BY DEF ServerReveal
<1>4. correct \in BOOLEAN
  OBVIOUS
<1>5. q.round \in 0..Rounds - 1 /\ q.score \in Nat
  BY DEF RequestType
<1> HIDE DEF points, correct
<1>6. q.score + points \in Nat
  BY <1>1, <1>5, RoundScoresAreNat
<1>7. QED
  BY <1>1, <1>2, <1>3, <1>4, <1>5, <1>6 DEF Reveal

(* An answered call scores the round on the screen: the closed-over        *)
(* session is the one shown, so the new session is that one with one more  *)
(* round and its points.                                                   *)
LEMMA ResolveScoresTheRound ==
  ASSUME IInv, Resolve
  PROVE  LET r == ServerReveal(call.request) IN
         /\ call.session = session /\ session.reveal = None
         /\ r \in Reveal /\ r.score \in RoundScores
         /\ r.score = RoundScore(call.request.candidate = Correct, session.visibleHintCount)
         /\ r.total = session.score + r.score
         /\ r.completed = session.completedRounds + 1
         /\ session.completedRounds < Rounds
         /\ session' = [session EXCEPT !.locked = call.request.candidate, !.reveal = r,
                                       !.score = r.total, !.completedRounds = @ + 1,
                                       !.status = IF session.completedRounds + 1 = Rounds
                                                  THEN "complete" ELSE "playing"]
<1> DEFINE r == ServerReveal(call.request)
<1>1. call # None /\ call \in Call
  BY DEF IInv, TypeOK, Resolve
<1>2. /\ call.session = session /\ session.reveal = None
      /\ call.request = Request(session, call.request.candidate)
  BY <1>1 DEF IInv, CallIsFresh
<1>3. r \in Reveal /\ r.score \in RoundScores
  BY <1>1, ServerRevealType DEF Call, Resolve
<1>4. /\ r.score = RoundScore(call.request.candidate = Correct, session.visibleHintCount)
      /\ r.total = session.score + r.score
      /\ r.completed = session.completedRounds + 1
  BY <1>2 DEF ServerReveal, Request
<1>5. session.completedRounds < Rounds
  BY <1>2, RoundsAssumption DEF Resolve, ServerAccepts, Request
<1>6. session \in Session
  BY DEF IInv, TypeOK
<1>7. session' = WithReveal(WithLock(session, call.request.candidate), r)
  BY <1>2 DEF Resolve
<1>8. QED
  BY <1>2, <1>3, <1>4, <1>5, <1>6, <1>7 DEF WithReveal, WithLock, Session
-----------------------------------------------------------------------------
\* Having seen no clue is a legal number of clues.
LEMMA NoCluesYet == 0 \in 0..Clues
  BY CluesAssumption

\* The session createArcadeSession returns is well formed.
LEMMA NewSessionType == NewSession \in Session
<1>1. 0 \in 0..Rounds - 1 /\ 0 \in 0..Clues /\ 0 \in 0..Rounds
  BY RoundsAssumption, CluesAssumption
<1>2. QED
  BY <1>1 DEF NewSession, Session

\* The freshly mounted page satisfies the inductive invariant.
THEOREM InitEstablishesIInv == Init => IInv
<1> SUFFICES ASSUME Init PROVE IInv
  OBVIOUS
<1>1. TypeOK
  BY NewSessionType, NoCluesYet DEF Init, TypeOK
<1>2. CallIsFresh
  BY DEF Init, CallIsFresh
<1>3. CluesStay
  BY DEF Init, CluesStay, NewSession
<1>4. ProgressMatchesPosition
  BY RoundsAssumption DEF Init, ProgressMatchesPosition, NewSession
<1>5. QED
  BY <1>1, <1>2, <1>3, <1>4 DEF IInv

(* No click, no answer and no failed call breaks the inductive invariant:   *)
(* one step of the proof for each action of the page.                      *)
THEOREM NextPreservesIInv == IInv /\ [Next]_vars => IInv'
<1> SUFFICES ASSUME IInv, [Next]_vars PROVE IInv'
  OBVIOUS
<1> USE RoundsAssumption, CluesAssumption, CandidatesAssumption
<1>1. ASSUME NEW c \in Candidates, ChooseCandidate(c) PROVE IInv'
  BY <1>1 DEF ChooseCandidate, IInv, TypeOK, CallIsFresh, CluesStay, ProgressMatchesPosition, Request
<1>2. CASE RevealHint
  <2>1. call = None /\ call' = None /\ busy' = busy
    BY <1>2 DEF RevealHint, HintEnabled, IInv, CallIsFresh
  <2>2. session' \in Session /\ session'.visibleHintCount \in {shown, shown + 1}
    BY <1>2 DEF RevealHint, WithHint, HintEnabled, IInv, TypeOK, CluesStay, Session
  <2>3. /\ session'.completedRounds = session.completedRounds
        /\ session'.roundIndex = session.roundIndex
        /\ session'.reveal = session.reveal
        /\ session'.status = session.status
    BY <1>2 DEF RevealHint, WithHint, IInv, TypeOK, Session
  <2>4. shown' = session'.visibleHintCount
    BY <1>2, <2>2 DEF RevealHint, IInv, TypeOK
  <2>5. shown' \in 0..Clues
    BY <2>2, <2>4 DEF Session
  <2>6. TypeOK'
    BY <1>2, <2>2, <2>5 DEF RevealHint, IInv, TypeOK
  <2>7. QED
    BY <2>1, <2>3, <2>4, <2>6 DEF IInv, CallIsFresh, CluesStay, ProgressMatchesPosition
<1>3. CASE Submit
  <2>1. selection \in Candidates
    BY <1>3 DEF Submit, AnswerEnabled, IInv, TypeOK
  <2>2. Request(session, selection) \in RequestType
    BY <2>1 DEF Request, RequestType, IInv, TypeOK, Session
  <2>3. call' \in Call /\ call' # None
    BY <1>3, <2>2, NoneAssumption DEF Submit, Call, IInv, TypeOK
  <2>4. QED
    BY <1>3, <2>1, <2>3 DEF Submit, AnswerEnabled, IInv, TypeOK, CallIsFresh, CluesStay,
       ProgressMatchesPosition, Request
<1>4. CASE Resolve
  <2> DEFINE r == ServerReveal(call.request)
  <2>1. /\ r \in Reveal
        /\ r.completed = session.completedRounds + 1
        /\ session.completedRounds < Rounds
        /\ session.reveal = None
        /\ session' = [session EXCEPT !.locked = call.request.candidate, !.reveal = r,
                                       !.score = r.total, !.completedRounds = @ + 1,
                                       !.status = IF session.completedRounds + 1 = Rounds
                                                  THEN "complete" ELSE "playing"]
    BY <1>4, ResolveScoresTheRound
  <2>2. call.request.candidate \in Candidates /\ session \in Session
    BY <1>4 DEF Resolve, IInv, TypeOK, Call, RequestType
  <2>3. session' \in Session
    <3> HIDE DEF r
    <3>1. r.total \in Nat
      BY <2>1 DEF Reveal
    <3>2. session.completedRounds + 1 \in 0..Rounds
      BY <2>1, <2>2 DEF Session
    <3>3. QED
      BY <2>1, <2>2, <3>1, <3>2 DEF Session
  <2>4. TypeOK'
    BY <1>4, <2>3 DEF Resolve, IInv, TypeOK
  <2>5. CallIsFresh'
    BY <1>4 DEF Resolve, CallIsFresh
  <2>6. CluesStay'
    BY <1>4, <2>1, <2>2 DEF Resolve, IInv, CluesStay, Session
  <2>7. ProgressMatchesPosition'
    <3> HIDE DEF r
    <3>1. /\ session'.completedRounds = session.completedRounds + 1
          /\ session'.roundIndex = session.roundIndex
          /\ session'.reveal = r
          /\ session'.status = "complete" <=> session.completedRounds + 1 = Rounds
      BY <2>1, <2>2 DEF Session
    <3>2. r # None
      BY <2>1, NoneAssumption
    <3>3. session.completedRounds = session.roundIndex
      BY <2>1, <2>2 DEF IInv, ProgressMatchesPosition, Session
    <3>4. QED
      BY <3>1, <3>2, <3>3 DEF ProgressMatchesPosition
  <2>8. QED
    BY <2>4, <2>5, <2>6, <2>7 DEF IInv
<1>5. CASE Reject
  BY <1>5 DEF Reject, IInv, TypeOK, CallIsFresh, CluesStay, ProgressMatchesPosition
<1>6. CASE NextRound
  <2>1. call = None /\ ~busy
    BY <1>6 DEF NextRound, NextShown, IInv, CallIsFresh
  <2>2. session \in Session /\ session.roundIndex + 1 \in 0..Rounds - 1
    BY <1>6 DEF NextRound, NextAllowed, IInv, TypeOK, Session
  <2>3. session' \in Session
    <3>1. 0 \in 0..Clues /\ None \in Candidates \cup {None} /\ None \in Reveal \cup {None}
      OBVIOUS
    <3>2. session' = [session EXCEPT !.roundIndex = session.roundIndex + 1, !.visibleHintCount = 0,
                                     !.locked = None, !.reveal = None]
      BY <1>6, <2>2 DEF NextRound, WithNextRound, Session
    <3>3. QED
      BY <2>2, <3>1, <3>2 DEF Session
  <2>4. /\ session'.roundIndex = session.roundIndex + 1
        /\ session'.completedRounds = session.completedRounds
        /\ session'.status = session.status
        /\ session'.reveal = None /\ session'.visibleHintCount = 0
    BY <1>6, <2>2 DEF NextRound, WithNextRound, Session
  <2>5. session.completedRounds = session.roundIndex + 1
    BY <1>6 DEF NextRound, NextShown, IInv, ProgressMatchesPosition
  <2>6. TypeOK'
    BY <1>6, <2>3, NoCluesYet DEF NextRound, IInv, TypeOK
  <2>7. QED
    BY <1>6, <2>1, <2>2, <2>4, <2>5, <2>6 DEF NextRound, IInv, CallIsFresh, CluesStay,
       ProgressMatchesPosition
<1>7. CASE Restart
  <2>1. call = None /\ ~busy
    BY <1>7 DEF Restart, RestartShown, IInv, CallIsFresh
  <2>2. session' \in Session
    BY <1>7, NewSessionType DEF Restart, Restarted
  <2>3. TypeOK'
    BY <1>7, <2>2, NoCluesYet DEF Restart, IInv, TypeOK
  <2>4. QED
    BY <1>7, <2>1, <2>3 DEF Restart, Restarted, NewSession, IInv, CallIsFresh, CluesStay,
       ProgressMatchesPosition
<1>8. CASE UNCHANGED vars
  BY <1>8 DEF vars, IInv, TypeOK, CallIsFresh, CluesStay, ProgressMatchesPosition, Request
<1>9. QED
  BY <1>1, <1>2, <1>3, <1>4, <1>5, <1>6, <1>7, <1>8 DEF Next, Settle

\* The inductive invariant holds in every state the page reaches.
THEOREM IInvAlways == Spec => []IInv
  BY InitEstablishesIInv, NextPreservesIInv, PTL DEF Spec

\* Every variable keeps its type, whatever the sizes of the catalogue.
THEOREM TypeCorrect == Spec => []TypeOK
  BY IInvAlways, PTL DEF IInv

(* The position on the screen and the progress scored agree, for a run of  *)
(* any number of rounds.                                                   *)
THEOREM ProgressAlwaysMatches == Spec => []ProgressMatchesPosition
  BY IInvAlways, PTL DEF IInv

(* A call is answered with the session it closed over, and that session is *)
(* the one shown: the round pays exactly for the clues the player saw.     *)
THEOREM RoundAlwaysPaysForCluesShown == Spec => RoundPaysForCluesShown
<1> DEFINE Pays == session'.completedRounds = session.completedRounds + 1
                     => /\ session'.score - session.score
                             = RoundScore(call.request.candidate = Correct, shown)
                        /\ session'.visibleHintCount = shown
<1>1. IInv /\ [Next]_vars => [Pays]_vars
  <2> SUFFICES ASSUME IInv, Next PROVE Pays
    OBVIOUS
  <2>0. session \in Session
    BY DEF IInv, TypeOK
  <2>1. CASE Resolve
    <3> DEFINE r == ServerReveal(call.request)
    <3>1. /\ r.score \in RoundScores
          /\ r.score = RoundScore(call.request.candidate = Correct, session.visibleHintCount)
          /\ r.total = session.score + r.score
      BY <2>1, ResolveScoresTheRound
    <3>2. session' = [session EXCEPT !.locked = call.request.candidate, !.reveal = r,
                                     !.score = r.total, !.completedRounds = @ + 1,
                                     !.status = IF session.completedRounds + 1 = Rounds
                                                THEN "complete" ELSE "playing"]
      BY <2>1, ResolveScoresTheRound
    <3> HIDE DEF r
    <3>3. session'.score = r.total /\ session'.visibleHintCount = session.visibleHintCount
      BY <2>0, <3>2 DEF Session
    <3>4. session.visibleHintCount = shown
      BY DEF IInv, CluesStay
    <3>5. r.score \in Nat /\ session.score \in Nat
      BY <2>0, <3>1, RoundScoresAreNat DEF Session
    <3>6. session'.score - session.score = r.score
      BY <3>1, <3>3, <3>5
    <3>7. QED
      BY <3>1, <3>3, <3>4, <3>6
  <2>2. CASE NextRound
    BY <2>0, <2>2 DEF NextRound, WithNextRound, Session
  <2>3. CASE RevealHint
    BY <2>0, <2>3 DEF RevealHint, WithHint, Session
  <2>4. CASE Restart
    BY <2>0, <2>4 DEF Restart, Restarted, NewSession, Session
  <2>5. CASE Submit \/ Reject \/ \E c \in Candidates : ChooseCandidate(c)
    BY <2>0, <2>5 DEF Submit, Reject, ChooseCandidate, Session
  <2>6. QED
    BY <2>1, <2>2, <2>3, <2>4, <2>5 DEF Next, Settle
<1>2. QED
  BY <1>1, IInvAlways, PTL DEF Spec, RoundPaysForCluesShown

(* Shell and server together implement a run that scores its rounds one    *)
(* after the other, each once, each for a published score.                 *)
THEOREM ImplementsRun == Spec => RunRefined
<1>1. Init => Run!RunInit
  BY DEF Init, NewSession, Run!RunInit
<1>2. IInv /\ [Next]_vars => [Run!RunNext]_(Run!runVars)
  <2> SUFFICES ASSUME IInv, [Next]_vars
               PROVE  Run!RunNext \/ UNCHANGED Run!runVars
    OBVIOUS
  <2>0. session \in Session
    BY DEF IInv, TypeOK
  <2>1. CASE Resolve
    <3> DEFINE r == ServerReveal(call.request)
    <3>1. /\ r.score \in RoundScores
          /\ r.total = session.score + r.score
          /\ session.completedRounds < Rounds
      BY <2>1, ResolveScoresTheRound
    <3>2. session' = [session EXCEPT !.locked = call.request.candidate, !.reveal = r,
                                     !.score = r.total, !.completedRounds = @ + 1,
                                     !.status = IF session.completedRounds + 1 = Rounds
                                                THEN "complete" ELSE "playing"]
      BY <2>1, ResolveScoresTheRound
    <3> HIDE DEF r
    <3>3. session'.score = r.total /\ session'.completedRounds = session.completedRounds + 1
      BY <2>0, <3>2 DEF Session
    <3>4. Run!ScoreRound
      BY <3>1, <3>3 DEF Run!ScoreRound
    <3>5. QED
      BY <3>4 DEF Run!RunNext
  <2>2. CASE NextRound
    BY <2>0, <2>2 DEF NextRound, WithNextRound, Session, Run!runVars
  <2>3. CASE RevealHint
    BY <2>0, <2>3 DEF RevealHint, WithHint, Session, Run!runVars
  <2>4. CASE Restart
    <3>1. session.completedRounds = Rounds
      BY <2>4 DEF Restart, RestartShown, IInv, ProgressMatchesPosition
    <3>2. session'.completedRounds = 0 /\ session'.score = 0
      BY <2>4 DEF Restart, Restarted, NewSession
    <3>3. QED
      BY <3>1, <3>2 DEF Run!StartOver, Run!RunNext
  <2>5. CASE Submit \/ Reject \/ \E c \in Candidates : ChooseCandidate(c)
    BY <2>5 DEF Submit, Reject, ChooseCandidate, Run!runVars
  <2>6. CASE UNCHANGED vars
    BY <2>6 DEF vars, Run!runVars
  <2>7. QED
    BY <2>1, <2>2, <2>3, <2>4, <2>5, <2>6 DEF Next, Settle
<1>3. QED
  BY <1>1, <1>2, IInvAlways, PTL DEF Spec, RunRefined, Run!RunSpec
-----------------------------------------------------------------------------
(* The score table of the server is a recursive function, and what it      *)
(* contains is shown by induction. The induction theorems of the library   *)
(* take the formula to prove as a parameter; the provers can use the       *)
(* least-number principle for sets instead.                                *)

\* Every nonempty set of natural numbers has a least element.
LEMMA LeastNatural ==
  ASSUME NEW T, T \subseteq Nat, T # {}
  PROVE  \E x \in T : \A y \in T : x <= y
<1> DEFINE R == OpToRel(<, Nat)
<1>1. IsWellFoundedOn(R, Nat)
  BY NatLessThanWellFounded
<1>2. \A x, y \in Nat : <<x, y>> \in R <=> x < y
  BY DEF OpToRel
<1> HIDE DEF R
<1>3. PICK x \in T : \A y \in T : ~(<<y, x>> \in R)
  BY <1>1, WFMin
<1>4. \A y \in T : x <= y
  <2> SUFFICES ASSUME NEW y \in T PROVE x <= y
    OBVIOUS
  <2>1. x \in Nat /\ y \in Nat
    OBVIOUS
  <2>2. ~(y < x)
    BY <1>2, <1>3, <2>1
  <2>3. QED
    BY <2>1, <2>2
<1>5. QED
  BY <1>4

\* What the table lists for n rounds, given the table f for fewer.
Totals(f, n) == IF n = 0 THEN {0} ELSE {t + p : t \in f[n - 1], p \in RoundScores}

\* There is a table for any number of rounds.
LEMMA TableExists ==
  ASSUME NEW m \in Nat
  PROVE  \E f : f = [n \in 0..m |-> Totals(f, n)]
<1> DEFINE Table(k) == \E f : f = [n \in 0..k |-> Totals(f, n)]
           T == {k \in Nat : ~Table(k)}
<1> SUFFICES T = {}
  OBVIOUS
<1> SUFFICES ASSUME T # {} PROVE FALSE
  OBVIOUS
<1>1. PICK k \in T : \A j \in T : k <= j
  BY LeastNatural
<1>2. k \in Nat /\ ~Table(k)
  OBVIOUS
<1>3. CASE k = 0
  <2> DEFINE f == [n \in 0..0 |-> {0}]
  <2>1. \A n \in 0..0 : Totals(f, n) = {0}
    BY DEF Totals
  <2>2. f = [n \in 0..0 |-> Totals(f, n)]
    BY <2>1
  <2>3. QED
    BY <1>2, <1>3, <2>2
<1>4. CASE k # 0
  <2>1. k - 1 \in Nat /\ k - 1 \notin T
    BY <1>1, <1>2, <1>4
  <2>2. PICK f : f = [n \in 0..(k - 1) |-> Totals(f, n)]
    BY <2>1
  <2> DEFINE g == [n \in 0..k |-> IF n < k THEN f[n] ELSE Totals(f, n)]
  <2>3. \A n \in 0..k : g[n] = Totals(g, n)
    <3> SUFFICES ASSUME NEW n \in 0..k PROVE g[n] = Totals(g, n)
      OBVIOUS
    <3>1. n \in Nat /\ (n # 0 => n - 1 \in 0..k /\ n - 1 < k)
      BY <1>2
    <3>2. n # 0 => g[n - 1] = f[n - 1]
      BY <3>1
    <3>3. Totals(g, n) = Totals(f, n)
      BY <3>2 DEF Totals
    <3>4. n < k => f[n] = Totals(f, n)
      BY <1>2, <2>2, <3>1
    <3>5. QED
      BY <3>3, <3>4
  <2>4. g = [n \in 0..k |-> Totals(g, n)]
    BY <2>3
  <2>5. QED
    BY <1>2, <2>4
<1>5. QED
  BY <1>3, <1>4

\* The table adds a round's points to the totals of one round less.
LEMMA ScoresAddUp ==
  /\ 0 \in ReachableScores[0]
  /\ \A n \in 0..Rounds - 1 : \A t \in ReachableScores[n], p \in RoundScores :
       t + p \in ReachableScores[n + 1]
<1>1. \E f : f = [n \in 0..Rounds |-> Totals(f, n)]
  BY TableExists, RoundsAssumption
<1>2. ReachableScores = CHOOSE f : f = [n \in 0..Rounds |-> Totals(f, n)]
  BY DEF ReachableScores, Totals
<1>3. ReachableScores = [n \in 0..Rounds |-> Totals(ReachableScores, n)]
  BY <1>1, <1>2
<1>4. ReachableScores[0] = Totals(ReachableScores, 0)
  BY <1>3, RoundsAssumption
<1>5. 0 \in ReachableScores[0]
  BY <1>4 DEF Totals
<1>6. ASSUME NEW n \in 0..Rounds - 1, NEW t \in ReachableScores[n], NEW p \in RoundScores
      PROVE  t + p \in ReachableScores[n + 1]
  <2>1. n + 1 \in 0..Rounds /\ n + 1 # 0 /\ (n + 1) - 1 = n
    BY RoundsAssumption
  <2>2. ReachableScores[n + 1] = Totals(ReachableScores, n + 1)
    BY <1>3, <2>1
  <2>3. Totals(ReachableScores, n + 1) = {u + q : u \in ReachableScores[n], q \in RoundScores}
    BY <2>1 DEF Totals
  <2>4. QED
    BY <2>2, <2>3
<1>7. QED
  BY <1>5, <1>6

\* The score on the screen is one that the rounds scored can add up to.
ScoreIsEarned == session.score \in ReachableScores[session.completedRounds]

\* A restart begins at nothing, and a reveal adds the points of its round.
LEMMA ScoreStaysEarned == IInv /\ ScoreIsEarned /\ [Next]_vars => ScoreIsEarned'
<1> SUFFICES ASSUME IInv, ScoreIsEarned, [Next]_vars PROVE ScoreIsEarned'
  OBVIOUS
<1>1. session \in Session
  BY DEF IInv, TypeOK
<1>2. CASE Resolve
  <2> DEFINE r == ServerReveal(call.request)
  <2>1. /\ r.score \in RoundScores /\ r.total = session.score + r.score
        /\ session.completedRounds < Rounds
    BY <1>2, ResolveScoresTheRound
  <2>2. session' = [session EXCEPT !.locked = call.request.candidate, !.reveal = r,
                                   !.score = r.total, !.completedRounds = @ + 1,
                                   !.status = IF session.completedRounds + 1 = Rounds
                                              THEN "complete" ELSE "playing"]
    BY <1>2, ResolveScoresTheRound
  <2> HIDE DEF r
  <2>3. session'.score = r.total /\ session'.completedRounds = session.completedRounds + 1
    BY <1>1, <2>2 DEF Session
  <2>4. session.completedRounds \in 0..Rounds - 1
    BY <1>1, <2>1, RoundsAssumption DEF Session
  <2>5. QED
    BY <2>1, <2>3, <2>4, ScoresAddUp DEF ScoreIsEarned
<1>3. CASE Restart
  BY <1>3, ScoresAddUp DEF Restart, Restarted, NewSession, ScoreIsEarned
<1>4. CASE RevealHint \/ NextRound
  <2>1. session'.score = session.score /\ session'.completedRounds = session.completedRounds
    BY <1>1, <1>4 DEF RevealHint, WithHint, NextRound, WithNextRound, Session
  <2>2. QED
    BY <2>1 DEF ScoreIsEarned
<1>5. CASE UNCHANGED session
  BY <1>5 DEF ScoreIsEarned
<1>6. QED
  BY <1>2, <1>3, <1>4, <1>5 DEF Next, Settle, ChooseCandidate, Submit, Reject, vars

(* The server never refuses a request for what it says of the run: the     *)
(* score the client added up is in the server's table for its round.       *)
THEOREM CallsAreAnswerable == Spec => []PendingCallIsAnswerable
<1>1. Init => ScoreIsEarned
  BY ScoresAddUp DEF Init, NewSession, ScoreIsEarned
<1>2. IInv /\ ScoreIsEarned => PendingCallIsAnswerable
  <2> SUFFICES ASSUME IInv, ScoreIsEarned, call # None PROVE ServerAccepts(call.request)
    BY DEF PendingCallIsAnswerable
  <2>1. /\ session \in Session /\ call \in Call
        /\ session.reveal = None
        /\ call.request = Request(session, call.request.candidate)
    BY DEF IInv, TypeOK, CallIsFresh
  <2>2. session.completedRounds = session.roundIndex
    BY <2>1, RoundsAssumption DEF IInv, ProgressMatchesPosition, Session
  <2>3. call.request.candidate \in Candidates
    BY <2>1 DEF Call, RequestType
  <2>4. /\ call.request.completed = session.completedRounds
        /\ call.request.round = session.roundIndex
        /\ call.request.score = session.score
        /\ call.request.cluesUsed = session.visibleHintCount
    BY <2>1 DEF Request
  <2>5. session.roundIndex \in 0..Rounds - 1 /\ session.visibleHintCount \in 0..Clues
    BY <2>1 DEF Session
  <2>6. QED
    BY <2>2, <2>3, <2>4, <2>5 DEF ServerAccepts, ScoreIsReachable, ScoreIsEarned
<1>3. QED
  BY <1>1, <1>2, ScoreStaysEarned, IInvAlways, PTL DEF Spec
=============================================================================
