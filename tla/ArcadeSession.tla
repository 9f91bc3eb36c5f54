--------------------------- MODULE ArcadeSession ---------------------------
(***************************************************************************)
(* The page a player sees: the arcade shell (a React component that keeps  *)
(* an ArcadeSession and calls a server action) and the stateless server    *)
(* side of that action for the synthetic catalogue the page serves.        *)
(*                                                                         *)
(* The call is asynchronous: the shell computes the next session from the  *)
(* session its submit handler closed over when the answer comes back, not  *)
(* from the session on the screen at that time. What keeps the two equal   *)
(* is only which controls are enabled while a call is in flight.           *)
(***************************************************************************)
EXTENDS Integers

CONSTANTS
  Rounds,        \* rounds of the mode contract (five in the code)
  Clues,         \* clues of a round (two in the served catalogue)
  Candidates,    \* candidate ids of a round
  Correct,       \* the candidate the server records as the answer
  None           \* null, or no selection

ASSUME RoundsAssumption == Rounds \in Nat \ {0}
ASSUME CluesAssumption == Clues \in 0..2
ASSUME CandidatesAssumption == Correct \in Candidates /\ None \notin Candidates

VARIABLES
  session,       \* the session on the screen
  selection,     \* the radio button chosen, or None
  busy,          \* a submit is in flight
  error,         \* the alert below the answer button is shown
  call,          \* the request in flight with the session it closed over
  shown          \* history: the most clues this round ever had on the screen

vars == <<session, selection, busy, error, call, shown>>

-----------------------------------------------------------------------------
(* Scoring, as the client and the server both tabulate it.                 *)

CorrectPoints == <<1000, 800, 500>>
RoundScore(correct, cluesUsed) == IF correct THEN CorrectPoints[cluesUsed + 1] ELSE 0
RoundScores == {0, 500, 800, 1000}

\* The totals n rounds can add up to, by adding one round at a time.
ReachableScores ==
  LET reach[n \in 0..Rounds] ==
        IF n = 0 THEN {0} ELSE {t + p : t \in reach[n - 1], p \in RoundScores}
  IN reach
ScoreIsReachable(score, completed) == score \in ReachableScores[completed]

-----------------------------------------------------------------------------
(* The session and its transitions. A transition that the code refuses by  *)
(* throwing is refused here by the predicate beside it.                    *)

Reveal == [round : 0..Rounds - 1, correct : BOOLEAN, score : RoundScores,
           total : Nat, completed : 1..Rounds]

Session == [roundIndex : 0..Rounds - 1, visibleHintCount : 0..Clues,
            locked : Candidates \cup {None}, reveal : Reveal \cup {None},
            score : Nat, completedRounds : 0..Rounds,
            status : {"playing", "complete"}]

\* A submit in flight: the session its handler closed over, and what it asked.
RequestType == [round : 0..Rounds - 1, candidate : Candidates, completed : 0..Rounds,
                score : Nat, cluesUsed : 0..Clues]
Call == [session : Session, request : RequestType]

ASSUME NoneAssumption == None \notin Reveal /\ None \notin Call

NewSession == [roundIndex |-> 0, visibleHintCount |-> 0, locked |-> None, reveal |-> None,
               score |-> 0, completedRounds |-> 0, status |-> "playing"]

HintAllowed(s) == s.status = "playing" /\ s.locked = None /\ s.reveal = None
WithHint(s) ==
  [s EXCEPT !.visibleHintCount = IF @ < Clues THEN @ + 1 ELSE Clues]

LockAllowed(s, c) == s.status = "playing" /\ s.locked = None /\ c \in Candidates
WithLock(s, c) == [s EXCEPT !.locked = c]

(* What the shell checks of an answer: its round, the progress it claims,  *)
(* and both scores recomputed from the session.                            *)
RevealAllowed(s, r) ==
  /\ s.status = "playing"
  /\ s.locked # None
  /\ s.reveal = None
  /\ r.round = s.roundIndex
  /\ r.completed = s.completedRounds + 1
  /\ r.score = RoundScore(r.correct, s.visibleHintCount)
  /\ r.total = s.score + r.score
\* Fault: the running total is added to the score instead of replacing it.
WithRevealAddingTotal(s, r) ==
  [s EXCEPT !.reveal = r, !.score = @ + r.total, !.completedRounds = @ + 1,
            !.status = IF s.completedRounds + 1 = Rounds THEN "complete" ELSE "playing"]
WithReveal(s, r) ==
  [s EXCEPT !.reveal = r, !.score = r.total, !.completedRounds = @ + 1,
            !.status = IF s.completedRounds + 1 = Rounds THEN "complete" ELSE "playing"]

NextAllowed(s) == s.status = "playing" /\ s.reveal # None /\ s.roundIndex < Rounds - 1
WithNextRound(s) ==
  [s EXCEPT !.roundIndex = @ + 1, !.visibleHintCount = 0, !.locked = None, !.reveal = None]

\* Fault: a restart keeps the score of the finished run.
RestartedKeepingScore == [NewSession EXCEPT !.score = session.score]
Restarted == NewSession

-----------------------------------------------------------------------------
(* The server action. It keeps no state: all it knows of the run is what   *)
(* the request says.                                                       *)

Request(s, candidate) ==
  [round |-> s.roundIndex, candidate |-> candidate, completed |-> s.completedRounds,
   score |-> s.score, cluesUsed |-> s.visibleHintCount]

ServerAccepts(q) ==
  /\ q.completed \in 0..Rounds - 1
  /\ q.round = q.completed
  /\ q.candidate \in Candidates
  /\ q.cluesUsed \in 0..Clues
  /\ ScoreIsReachable(q.score, q.completed)

ServerReveal(q) ==
  LET points == RoundScore(q.candidate = Correct, q.cluesUsed)
  IN [round |-> q.round, correct |-> q.candidate = Correct, score |-> points,
      total |-> q.score + points, completed |-> q.completed + 1]

-----------------------------------------------------------------------------
(* The controls: what the shell renders and enables.                       *)

AnswerEnabled == selection # None /\ session.reveal = None /\ ~busy
FieldsetEnabled == session.reveal = None /\ ~busy
\* Fault: the hint button stays enabled while a call is in flight.
HintEnabledWhileBusy == session.visibleHintCount < Clues /\ session.locked = None
HintEnabled == session.visibleHintCount < Clues /\ session.locked = None /\ ~busy
NextShown == session.reveal # None /\ session.status # "complete"
RestartShown == session.reveal # None /\ session.status = "complete"
-----------------------------------------------------------------------------
Init ==
  /\ session = NewSession
  /\ selection = None
  /\ busy = FALSE
  /\ error = FALSE
  /\ call = None
  /\ shown = 0

ChooseCandidate(c) ==
  /\ FieldsetEnabled
  /\ selection' = c
  /\ UNCHANGED <<session, busy, error, call, shown>>

RevealHint ==
  /\ HintEnabled
  /\ HintAllowed(session)
  /\ session' = WithHint(session)
  /\ shown' = IF session'.visibleHintCount > shown THEN session'.visibleHintCount ELSE shown
  /\ UNCHANGED <<selection, busy, error, call>>

Submit ==
  /\ AnswerEnabled
  /\ busy' = TRUE
  /\ error' = FALSE
  /\ call' = [session |-> session, request |-> Request(session, selection)]
  /\ UNCHANGED <<session, selection, shown>>

(* The awaited action resolves. The session the handler closed over is     *)
(* locked and revealed; what is on the screen now is overwritten by it.    *)
Resolve ==
  LET r == ServerReveal(call.request)
      locked == WithLock(call.session, call.request.candidate)
  IN
  /\ call # None
  /\ ServerAccepts(call.request)
  /\ LockAllowed(call.session, call.request.candidate)
  /\ RevealAllowed(locked, r)
  /\ session' = WithReveal(locked, r)
  /\ busy' = FALSE
  /\ call' = None
  /\ UNCHANGED <<selection, error, shown>>

(* The awaited action rejects (the server throws, or the call is lost), or *)
(* the client refuses what came back: the alert is shown, and the player   *)
(* may answer the same round again, with another candidate too.            *)
RejectLeavingBusy == \* Fault: busy is cleared after a success only.
  /\ call # None
  /\ error' = TRUE
  /\ call' = None
  /\ UNCHANGED <<session, selection, busy, shown>>

Reject ==
  /\ call # None
  /\ error' = TRUE
  /\ busy' = FALSE
  /\ call' = None
  /\ UNCHANGED <<session, selection, shown>>

NextRoundWithoutReveal == \* Fault: a round can be left before it is revealed.
  /\ session.status = "playing" /\ session.roundIndex < Rounds - 1
  /\ session' = WithNextRound(session)
  /\ selection' = None
  /\ error' = FALSE
  /\ shown' = 0
  /\ UNCHANGED <<busy, call>>

NextRound ==
  /\ NextShown
  /\ NextAllowed(session)
  /\ session' = WithNextRound(session)
  /\ selection' = None
  /\ error' = FALSE
  /\ shown' = 0
  /\ UNCHANGED <<busy, call>>

Restart ==
  /\ RestartShown
  /\ session' = Restarted
  /\ selection' = None
  /\ error' = FALSE
  /\ shown' = 0
  /\ UNCHANGED <<busy, call>>

Settle == Resolve \/ Reject

Next ==
  \/ \E c \in Candidates : ChooseCandidate(c)
  \/ RevealHint
  \/ Submit
  \/ Settle
  \/ NextRound
  \/ Restart

(* An awaited call ends: the runtime resolves or rejects the promise. The  *)
(* player owes the page nothing, so no other action is fair.               *)
Spec == Init /\ [][Next]_vars /\ WF_vars(Settle)
-----------------------------------------------------------------------------
(* Properties.                                                             *)

\* Every variable keeps its type.
TypeOK ==
  /\ session \in Session
  /\ selection \in Candidates \cup {None}
  /\ busy \in BOOLEAN
  /\ error \in BOOLEAN
  /\ call \in Call \cup {None}
  /\ shown \in 0..Clues

(* The position on the screen and the progress that was scored agree: each *)
(* round before the current one was scored once, and the current one iff   *)
(* its reveal is on the screen, so no round is skipped or scored twice     *)
(* (arcade-shell.tsx, transitionArcadeSession).                            *)
ProgressMatchesPosition ==
  /\ session.completedRounds = session.roundIndex + (IF session.reveal = None THEN 0 ELSE 1)
  /\ session.status = "complete" <=> session.completedRounds = Rounds

(* A request in flight is one the server action answers: the score table   *)
(* of the server agrees with the scores the client adds up over the run,   *)
(* and over the runs started again after it (demo-game.ts, createDemoReveal *)
(* refuses an unreachable score). Otherwise the run could never be         *)
(* finished.                                                               *)
PendingCallIsAnswerable == call # None => ServerAccepts(call.request)

(* A round pays for the clues the player saw. The session that is scored   *)
(* is the one the handler closed over when it called the server; were a    *)
(* clue shown while the call is in flight, the round would pay as if it    *)
(* had not been, and the clue would vanish from the screen.                *)
RoundPaysForCluesShown ==
  [][session'.completedRounds = session.completedRounds + 1
       => /\ session'.score - session.score
               = RoundScore(call.request.candidate = Correct, shown)
          /\ session'.visibleHintCount = shown]_vars

\* The alert and the disabled controls of a call go away: a call ends, and
\* the page is usable again whether it succeeded or failed (finally).
CallEnds == busy ~> ~busy

\* The shell and the server together are a run that scores each round once.
Run == INSTANCE ScoredRun WITH done <- session.completedRounds, total <- session.score
RunRefined == Run!RunSpec
=============================================================================
