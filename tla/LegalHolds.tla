------------------------------ MODULE LegalHolds ------------------------------
(***************************************************************************)
(* How long a copy may be kept: the retention deadline of its class, and a *)
(* legal hold on some fields of some copies that may postpone it. A hold   *)
(* runs for a period at most; before it ends it can be renewed with a      *)
(* counsel's name and written evidence, for another period.                *)
(***************************************************************************)
EXTENDS Integers

CONSTANTS
  HoldDays,      \* 180 in the code
  ReviewDays,    \* 30 in the code
  RetentionDays, \* of each class: 30, 30, 7 and 35 in the code
  Times, None

\* Assumed of the constants, and evaluated where the module is composed.
PeriodAssumption ==
  /\ HoldDays \in Nat /\ ReviewDays \in Nat
  /\ RetentionDays \in [{"RAW_GAMEPLAY_OR_RECRUITMENT_BRIDGE", "PROVIDER_CDN_APP_LOG",
                         "TEMP_EXPORT_OR_SUPPORT", "PROJECT_BACKUP"} -> Nat]
TimeAssumption == Times \subseteq Int

VARIABLE hold   \* None or [startedAt, expiresAt, nextReviewAt, counsel]

vars == <<hold>>
-----------------------------------------------------------------------------
CreateLegalHold(start, expires) ==
  /\ hold = None
  /\ start < expires /\ expires <= start + HoldDays
  /\ hold' = [startedAt |-> start, expiresAt |-> expires,
              nextReviewAt |-> start + ReviewDays, counsel |-> FALSE]

\* Fault: the review clock keeps running from the start.
RenewUnreviewed(at, expires) ==
  /\ hold # None
  /\ hold.startedAt <= at /\ at <= hold.expiresAt
  /\ at < expires /\ expires <= at + HoldDays
  /\ hold' = [hold EXCEPT !.expiresAt = expires, !.counsel = TRUE]

RenewLegalHold(at, expires) ==
  /\ hold # None
  /\ hold.startedAt <= at /\ at <= hold.expiresAt
  /\ at < expires /\ expires <= at + HoldDays
  /\ hold' = [hold EXCEPT !.expiresAt = expires, !.nextReviewAt = at + ReviewDays, !.counsel = TRUE]

(* calculateRetentionDeadline: the earlier of two candidates. The second   *)
(* event of a provider's log is itself a deadline.                         *)
RetentionDeadline(class, first, second) ==
  LET a == first + RetentionDays[class]
      b == IF class = "PROVIDER_CDN_APP_LOG" THEN second ELSE second + RetentionDays[class]
  IN IF a <= b THEN a ELSE b

\* applyLegalHold: when a copy must go, in the scope of the hold or not.
EffectiveDeadline(base, inScope) ==
  IF inScope /\ hold.expiresAt > base THEN hold.expiresAt ELSE base
-----------------------------------------------------------------------------
Init == hold = None
Next == \E s, t \in Times : CreateLegalHold(s, t) \/ RenewLegalHold(s, t)
Spec == Init /\ [][Next]_vars
-----------------------------------------------------------------------------
(* Properties.                                                             *)

TypeOK ==
  hold \in {None} \cup
    [startedAt : Times, expiresAt : Times, nextReviewAt : Int, counsel : BOOLEAN]

(* A hold outlives its first period only with a counsel's name on it, and  *)
(* a copy kept because of a hold goes at the latest a period after the     *)
(* review clock was last reset, whatever its class and its events          *)
(* (createLegalHold, renewLegalHold, applyLegalHold,                       *)
(* calculateRetentionDeadline).                                            *)
HoldsRunOut ==
  hold # None =>
    /\ hold.expiresAt > hold.startedAt + HoldDays => hold.counsel
    /\ \A class \in DOMAIN RetentionDays, first, second \in Times, inScope \in BOOLEAN :
         LET base == RetentionDeadline(class, first, second)
             kept == EffectiveDeadline(base, inScope)
         IN /\ base <= first + RetentionDays[class]
            /\ kept # base => /\ inScope /\ kept > base
                              /\ kept <= hold.nextReviewAt - ReviewDays + HoldDays
=============================================================================
