----------------------------- MODULE ScoredRun -----------------------------
(***************************************************************************)
(* What a run of the game promises, whatever client and server exchange:   *)
(* the rounds are scored one after the other, each once, each for one of   *)
(* the published round scores, and a finished run may be started over.     *)
(***************************************************************************)
EXTENDS Naturals

CONSTANTS Rounds,       \* how many rounds a run has
          RoundScores   \* what one round can be worth

VARIABLES done,         \* rounds scored so far
          total         \* the score shown

runVars == <<done, total>>

RunInit == done = 0 /\ total = 0

ScoreRound ==
  /\ done < Rounds
  /\ done' = done + 1
  /\ \E points \in RoundScores : total' = total + points

StartOver ==
  /\ done = Rounds
  /\ done' = 0
  /\ total' = 0

RunNext == ScoreRound \/ StartOver

RunSpec == RunInit /\ [][RunNext]_runVars
=============================================================================
