--------------------------- MODULE SessionResults ---------------------------
(***************************************************************************)
(* One issued session: the authoritative state of its rounds, and the view *)
(* of its results, which knows of corrections. The view is made from the   *)
(* state, and from what was answered elsewhere in the lineage, when it is  *)
(* created; after that it follows corrections and acknowledgements only,   *)
(* while the session goes on. Both are immutable values of which a caller  *)
(* keeps the latest. Scores are fixed when an answer is accepted.          *)
(***************************************************************************)
EXTENDS Integers, FiniteSets, FiniteSetsExt

CONSTANTS
  Rounds,
  MaxClues,          \* two in the code
  Points,            \* the points of a right answer for each number of clues
  LineageVersions, IssuedVersion,
  Corrections,       \* VOID, CONTENT_WITHDRAWN
  Disputed,          \* the rounds that are corrected, and answered in other sessions
  DayEnd, Grace, MaxTime,
  None

\* Assumed of the constants, and evaluated where the module is composed.
PointsAssumption ==
  /\ MaxClues \in Nat /\ Points \in [0..MaxClues -> Nat]
  /\ \A n, m \in 0..MaxClues : n <= m => Points[m] <= Points[n]
VersionAssumption ==
  IssuedVersion \in LineageVersions /\ None \notin Corrections /\ "ACTIVE" \notin Corrections
RoundAssumption == IsFiniteSet(Rounds) /\ Disputed \subseteq Rounds
TimeAssumption == DayEnd \in Nat /\ Grace \in Nat /\ MaxTime \in Nat

VARIABLES
  status,      \* of the session
  state,       \* per round: [interaction, correction, clues, score]
  elsewhere,   \* rounds answered in other sessions of the lineage
  view,        \* None or [status, started, answered, rounds, last]
  now

vars == <<status, state, elsewhere, view, now>>
-----------------------------------------------------------------------------
(* domain/session: the rules of an authoritative state.                    *)

SessionTransitions ==
  {<<"NOT_STARTED", "IN_PROGRESS">>, <<"NOT_STARTED", "WITHDRAWN">>} \cup
  ({"IN_PROGRESS"} \X {"COMPLETED", "EXPIRED", "WITHDRAWN"})

Fresh == [interaction |-> "UNSEEN", correction |-> "ACTIVE", clues |-> 0, score |-> None]

Answerable(r) ==
  /\ status = "IN_PROGRESS"
  /\ state[r].interaction = "OPEN"
  /\ state[r].correction = "ACTIVE"

OpenInteraction(r) ==
  /\ status = "IN_PROGRESS"
  /\ state[r].correction = "ACTIVE"
  /\ state[r].interaction = "UNSEEN"
  /\ state' = [state EXCEPT ![r].interaction = "OPEN"]
  /\ UNCHANGED <<status, elsewhere, view, now>>

RevealClue(r) ==
  /\ Answerable(r)
  /\ state[r].clues < MaxClues
  /\ state' = [state EXCEPT ![r].clues = @ + 1]
  /\ UNCHANGED <<status, elsewhere, view, now>>

(* The credential and both windows are checked by the caller; they are     *)
(* open until the grace ends. A wrong answer scores nothing.               *)
AcceptsAnswer(r) ==
  /\ state[r].score = None
  /\ Answerable(r)
  /\ now < DayEnd + Grace

AcceptAnswer(r, right) ==
  /\ AcceptsAnswer(r)
  /\ state' = [state EXCEPT ![r].interaction = "ANSWERED",
                            ![r].score = IF right THEN Points[state[r].clues] ELSE 0]
  /\ UNCHANGED <<status, elsewhere, view, now>>

RevealAnswer(r) ==
  /\ state[r].interaction = "ANSWERED"
  /\ state' = [state EXCEPT ![r].interaction = "REVEALED"]
  /\ UNCHANGED <<status, elsewhere, view, now>>

SetSessionStatus(target) ==
  /\ <<status, target>> \in SessionTransitions
  /\ status' = target
  /\ UNCHANGED <<state, elsewhere, view, now>>

SetCorrectionStatus(r, correction) ==
  /\ state[r].correction = "ACTIVE"
  /\ state' = [state EXCEPT ![r].correction = correction]
  /\ UNCHANGED <<status, elsewhere, view, now>>
-----------------------------------------------------------------------------
(* domain/results: the view.                                               *)

Answered(r) == state[r].interaction \in {"ANSWERED", "REVEALED"}

\* What create is given of a round, and what correctRound changes of it.
Fact(r) ==
  [answered |-> Answered(r), revealed |-> state[r].interaction = "REVEALED",
   correction |-> state[r].correction, acknowledged |-> FALSE, score |-> state[r].score]

Create ==
  /\ status \in {"IN_PROGRESS", "COMPLETED", "EXPIRED"}
  /\ view' = [status |-> status, started |-> TRUE, answered |-> elsewhere,
              rounds |-> [r \in Rounds |-> Fact(r)], last |-> None]
  /\ UNCHANGED <<status, state, elsewhere, now>>

\* Fault: answers in other sessions are left out.
BranchHere(r) == IF view.rounds[r].answered THEN "POST_ANSWER" ELSE "ISSUED_UNANSWERED"
Branch(r) ==
  IF view.rounds[r].answered \/ r \in view.answered THEN "POST_ANSWER" ELSE "ISSUED_UNANSWERED"

CorrectRound(r, correction) ==
  /\ view # None
  /\ view.rounds[r].correction = "ACTIVE"
  /\ view' = [view EXCEPT
       !.rounds[r].correction = correction,
       !.rounds[r].acknowledged = FALSE,
       !.last = [round |-> r, branch |-> Branch(r),
                 versions |-> IF Branch(r) = "POST_ANSWER" THEN LineageVersions
                              ELSE {IssuedVersion}]]
  /\ UNCHANGED <<status, state, elsewhere, now>>

AcknowledgeNotice(r) ==
  /\ view # None
  /\ view.rounds[r].correction # "ACTIVE"
  /\ view' = [view EXCEPT !.rounds[r].acknowledged = TRUE]
  /\ UNCHANGED <<status, state, elsewhere, now>>

Counted == {r \in Rounds : view.rounds[r].correction = "ACTIVE"}
Total(points(_)) == MapThenSumSet(points, Counted)
CurrentScore == LET score(r) == IF view.rounds[r].score = None THEN 0 ELSE view.rounds[r].score
                IN Total(score)
AttainableMaximum == LET maximum(r) == Points[0] IN Total(maximum)
StreakProtected == Counted # Rounds
CanComplete ==
  \A r \in Rounds : IF r \in Counted THEN view.rounds[r].revealed ELSE view.rounds[r].acknowledged

\* reenter: the access and the status the session has when it is opened again.
Access == IF view.status \in {"COMPLETED", "EXPIRED"} \/ now >= DayEnd + Grace
          THEN "READ_ONLY" ELSE "RESUME"
-----------------------------------------------------------------------------
Init ==
  /\ status = "NOT_STARTED"
  /\ state = [r \in Rounds |-> Fresh]
  /\ elsewhere = {}
  /\ view = None
  /\ now = 0

AnsweredElsewhere(r) ==
  /\ elsewhere' = elsewhere \cup {r}
  /\ UNCHANGED <<status, state, view, now>>

Tick ==
  /\ now < MaxTime
  /\ now' = now + 1
  /\ UNCHANGED <<status, state, elsewhere, view>>

Next ==
  \/ \E r \in Rounds :
       \/ OpenInteraction(r) \/ RevealClue(r) \/ RevealAnswer(r)
       \/ \E right \in BOOLEAN : AcceptAnswer(r, right)
  \/ \E r \in Disputed :
       \/ AnsweredElsewhere(r) \/ AcknowledgeNotice(r)
       \/ \E c \in Corrections : SetCorrectionStatus(r, c) \/ CorrectRound(r, c)
  \/ \E target \in {"IN_PROGRESS", "COMPLETED", "EXPIRED", "WITHDRAWN"} : SetSessionStatus(target)
  \/ Create
  \/ Tick

Spec == Init /\ [][Next]_vars
-----------------------------------------------------------------------------
(* Properties.                                                             *)

TypeOK ==
  /\ status \in {"NOT_STARTED", "IN_PROGRESS", "COMPLETED", "EXPIRED", "WITHDRAWN"}
  /\ \A r \in Rounds :
       /\ state[r].interaction \in {"UNSEEN", "OPEN", "ANSWERED", "REVEALED"}
       /\ state[r].correction \in {"ACTIVE"} \cup Corrections
       /\ state[r].clues \in 0..MaxClues
       /\ state[r].score = None <=> ~Answered(r)
  /\ elsewhere \subseteq Rounds

(* The points of a round are settled by its answer: what was answered      *)
(* keeps its score and its clues, whatever happens to the session or the   *)
(* round; and nothing is answered in a session that is over or a round     *)
(* that was corrected (acceptAnswer, revealClue, setCorrectionStatus).     *)
AnswersAreSettled ==
  [][\A r \in Rounds :
       IF Answered(r) THEN Answered(r)' /\ state'[r].score = state[r].score
                                        /\ state'[r].clues = state[r].clues
       ELSE Answered(r)' => /\ status = "IN_PROGRESS" /\ state[r].correction = "ACTIVE"
                            /\ now < DayEnd + Grace]_vars

(* The view never shows more than the rounds that count are worth, and     *)
(* only what the session really scored; a session shown as read-only takes *)
(* no more answers; a round that was corrected after it was revealed keeps *)
(* the session from completing until its notice is read, and protects the  *)
(* streak (correctRound, projection, reenter, completion).                 *)
ViewIsHonest ==
  view # None =>
    /\ Access = "READ_ONLY" => \A r \in Rounds : ~AcceptsAnswer(r)
    /\ CurrentScore <= AttainableMaximum
    /\ \A r \in Rounds : view.rounds[r].score # None => view.rounds[r].score = state[r].score
    /\ CanComplete => \A r \in Rounds :
         \/ view.rounds[r].revealed /\ view.rounds[r].correction = "ACTIVE"
         \/ view.rounds[r].acknowledged /\ StreakProtected

(* A correction is recorded for every version of the lineage as soon as    *)
(* the view knew of an answer, here or elsewhere, and for the issued one   *)
(* otherwise; the view knew of no answer that was not given (correctRound).*)
CorrectionsReachAnswers ==
  view # None /\ view.last # None =>
    LET r == view.last.round
    IN /\ r \notin Counted
       /\ view.last.versions = LineageVersions \/ (~view.rounds[r].answered /\ r \notin view.answered)
       /\ view.last.branch = "POST_ANSWER" => Answered(r) \/ r \in elsewhere
=============================================================================
