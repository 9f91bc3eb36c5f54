------------------------- MODULE EvidenceLifecycle -------------------------
(***************************************************************************)
(* What the evidence vault promises of the evidence itself: it is absent,  *)
(* then kept with a content that never changes, then deleted for good.     *)
(***************************************************************************)
CONSTANTS
  Evidence,
  Contents,         \* what may be kept
  Absent, Deleted   \* of evidence that is not kept: not yet, no longer

VARIABLE kept

TypeOK == kept \in [Evidence -> Contents \cup {Absent, Deleted}]

Init == kept = [e \in Evidence |-> Absent]

\* Evidence is stored, or comes back from a backup together with more.
Admit(S) ==
  /\ \A e \in S : kept[e] = Absent
  /\ kept' \in [Evidence -> Contents \cup {Absent, Deleted}]
  /\ \A e \in Evidence : IF e \in S THEN kept'[e] \in Contents ELSE kept'[e] = kept[e]

Erase(e) ==
  /\ kept[e] \in Contents
  /\ kept' = [kept EXCEPT ![e] = Deleted]

Next ==
  \/ \E S \in SUBSET Evidence : Admit(S)
  \/ \E e \in Evidence : Erase(e)

Spec == Init /\ [][Next]_kept
=============================================================================
