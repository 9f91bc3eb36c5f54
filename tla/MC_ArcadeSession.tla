------------------------- MODULE MC_ArcadeSession -------------------------
(* ArcadeSession with the sizes of the served catalogue: five rounds of    *)
(* two clues. Of the candidates only "the recorded answer" and "another    *)
(* one" can be told apart, so two are enough. Nothing else is bounded: a   *)
(* run that is finished may be started over for ever.                      *)
EXTENDS ArcadeSession
=============================================================================
