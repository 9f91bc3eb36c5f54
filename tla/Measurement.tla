----------------------------- MODULE Measurement -----------------------------
(***************************************************************************)
(* The measures of the closed beta: a log of authoritative events, and the *)
(* formulas that are calculated from it at an observation boundary.        *)
(*                                                                         *)
(* Nothing in the repository writes the log yet, so the actions append the *)
(* events of sessions as the event families and the rules of a session     *)
(* allow them: a round is displayed, clued, answered and revealed in its   *)
(* session, a session completes once or expires once, a correction may     *)
(* come at any time, and a participant may be excluded at any time, with   *)
(* effect from any instant. An event holds the parts of its key, the       *)
(* instant it is about and the instant it was accepted; only a correction  *)
(* is about a later instant. Of an answer it is left out whether it was    *)
(* right, so of the chance-aware measures the counts are kept; the measure *)
(* of the interviews, shared-promise comprehension, is left out, and the   *)
(* reasons of exclusions and the versions an input binds are too. Of a     *)
(* rate its numerator and denominator are kept.                            *)
(***************************************************************************)
EXTENDS Integers, FiniteSets

CONSTANTS
  Players,      \* participant lineages
  BetaDays,     \* consecutive days, as numbers
  Plans,        \* the rounds of each session a behaviour has: functions from some of
                \* Players \X BetaDays to sets of rounds; a round is its ordinal position
  RoundMode,    \* the mode of a round
  OpportunitySets, \* sets of opportunities to return an analysis may be given
  MaxInstant    \* bound on the clock

\* Assumed of the constants, and evaluated where the module is composed.
MeasurementAssumption ==
  /\ BetaDays \subseteq Nat /\ MaxInstant \in Nat
  /\ \A p \in Plans : DOMAIN p \subseteq Players \X BetaDays /\ \A s \in DOMAIN p : p[s] \subseteq 1..5
  /\ \A opportunities \in OpportunitySets : \A o, q \in opportunities :
       o.session = q.session /\ o.next = q.next => o = q

VARIABLES
  plan,         \* the rounds of the sessions of this behaviour
  log,          \* authoritative events
  disposition,  \* analysisDispositions, by participant
  excludedAt,   \* effectiveAt, of a participant who is excluded
  instant

measurementVars == <<plan, log, disposition, excludedAt, instant>>

Sessions == DOMAIN plan
Seated == {s[1] : s \in Sessions}
AllRounds == UNION {plan[s] : s \in Sessions}
Of(events, family) == {e \in events : e.family = family}
-----------------------------------------------------------------------------
(* The events of a session, in the order a session allows.                 *)

Event(family, session, round, detail, at) ==
  [family |-> family, session |-> session, round |-> round, detail |-> detail,
   at |-> at, accepted |-> instant]

Has(family, session, round) ==
  \E e \in log : e.family = family /\ e.session = session /\ e.round = round
CorrectedNow(round) ==
  \E e \in Of(log, "ROUND_CORRECTED") : e.round = round /\ e.at <= instant
Ended(s) == Has("SESSION_COMPLETED", s, 0) \/ Has("SESSION_EXPIRED", s, 0)
Running(s) == Has("SESSION_STARTED", s, 0) /\ ~Ended(s)
Accept(e) == log' = log \cup {e} /\ UNCHANGED <<plan, disposition, excludedAt, instant>>

Start(s) ==
  /\ ~Has("SESSION_STARTED", s, 0)
  /\ \A t \in Sessions : t[1] = s[1] /\ Running(t) => t[2] >= s[2]
  /\ Accept(Event("SESSION_STARTED", s, 0, 0, instant))

Display(s, r) ==
  /\ Running(s) /\ r \in plan[s] /\ ~Has("ROUND_DISPLAYED", s, r)
  /\ \A q \in plan[s] : q < r => Has("REVEAL_AUTHORIZED", s, q) \/ CorrectedNow(q)
  /\ Accept(Event("ROUND_DISPLAYED", s, r, 0, instant))

Playable(s, r) ==
  /\ Running(s) /\ Has("ROUND_DISPLAYED", s, r)
  /\ ~Has("ANSWER_ACCEPTED", s, r) /\ ~CorrectedNow(r)

RevealClue(s, r, number) ==
  /\ Playable(s, r)
  /\ \A n \in 1..number :
       (\E e \in Of(log, "CLUE_REVEALED") : e.session = s /\ e.round = r /\ e.detail = n) <=> n < number
  /\ Accept(Event("CLUE_REVEALED", s, r, number, instant))

AcceptAnswer(s, r) ==
  /\ Playable(s, r)
  /\ Accept(Event("ANSWER_ACCEPTED", s, r, 0, instant))

AuthorizeReveal(s, r) ==
  /\ Running(s) /\ Has("ANSWER_ACCEPTED", s, r) /\ ~Has("REVEAL_AUTHORIZED", s, r)
  /\ ~CorrectedNow(r)
  /\ Accept(Event("REVEAL_AUTHORIZED", s, r, 0, instant))

Correct(r, effectiveAt) ==
  /\ ~\E e \in Of(log, "ROUND_CORRECTED") : e.round = r
  /\ effectiveAt \in instant..MaxInstant
  /\ Accept(Event("ROUND_CORRECTED", <<>>, r, 0, effectiveAt))

Acknowledge(s, r) ==
  /\ Running(s) /\ CorrectedNow(r) /\ Has("ROUND_DISPLAYED", s, r)
  /\ ~Has("CORRECTION_NOTICE_ACKNOWLEDGED", s, r)
  /\ Accept(Event("CORRECTION_NOTICE_ACKNOWLEDGED", s, r, 0, instant))

(* A session completes when every round was displayed, and revealed or its *)
(* correction acknowledged; detail is the number of ACTIVE rounds.         *)
Complete(s) ==
  /\ Running(s)
  /\ \A r \in plan[s] : IF CorrectedNow(r) THEN Has("CORRECTION_NOTICE_ACKNOWLEDGED", s, r)
                        ELSE Has("REVEAL_AUTHORIZED", s, r)
  /\ Accept(Event("SESSION_COMPLETED", s, 0, Cardinality({r \in plan[s] : ~CorrectedNow(r)}), instant))

Expire(s) ==
  /\ Running(s)
  /\ Accept(Event("SESSION_EXPIRED", s, 0, 0, instant))

Include(p) ==
  /\ disposition[p] = "PENDING"
  /\ disposition' = [disposition EXCEPT ![p] = "INCLUDED"]
  /\ UNCHANGED <<plan, log, excludedAt, instant>>

Exclude(p, effectiveAt) ==
  /\ disposition[p] # "EXCLUDED"
  /\ disposition' = [disposition EXCEPT ![p] = "EXCLUDED"]
  /\ excludedAt' = [excludedAt EXCEPT ![p] = effectiveAt]
  /\ UNCHANGED <<plan, log, instant>>

Pass ==
  /\ instant < MaxInstant
  /\ instant' = instant + 1
  /\ UNCHANGED <<plan, log, disposition, excludedAt>>
-----------------------------------------------------------------------------
(* The input of the formulas: what was accepted, and is in effect, by the  *)
(* observation boundary.                                                   *)

Observed(events, boundary) ==
  {e \in events : e.accepted <= boundary
                  /\ (e.family = "ROUND_CORRECTED" => e.at <= boundary)}

(* The events of one family that answer one of another, and their key.     *)
SameSession(e, f) == e.session = f.session
SameRound(e, f) == e.session = f.session /\ e.round = f.round
Twice(events, family, Same(_, _)) ==
  \E e, f \in Of(events, family) : e # f /\ Same(e, f)
Orphaned(events, family, cause, Same(_, _)) ==
  \E e \in Of(events, family) : ~\E f \in Of(events, cause) : Same(f, e) /\ f.at <= e.at
After(events, family, end, Same(_, _)) ==
  \E e \in Of(events, family), f \in Of(events, end) : Same(e, f) /\ e.at > f.at

(* The values an event of each family may hold.                            *)
Parses(e) ==
  /\ e.family = "ROUND_DISPLAYED" => e.round \in 1..5
  /\ e.family = "CLUE_REVEALED" => e.detail \in 1..2
  /\ e.family = "SESSION_COMPLETED" => e.detail \in 0..5

JoinsFail(events) ==
  \/ \E family \in {"ROUND_DISPLAYED", "ANSWER_ACCEPTED", "REVEAL_AUTHORIZED"} :
       Twice(events, family, SameRound)
  \/ Orphaned(events, "ANSWER_ACCEPTED", "ROUND_DISPLAYED", SameRound)
  \/ Orphaned(events, "REVEAL_AUTHORIZED", "ANSWER_ACCEPTED", SameRound)
  \/ Orphaned(events, "CLUE_REVEALED", "ROUND_DISPLAYED", SameRound)
  \/ After(events, "CLUE_REVEALED", "ANSWER_ACCEPTED", SameRound)

CompletionFails(events) ==
  LET correction(e, f) == e.round = f.round
  IN  \/ \E family \in {"SESSION_STARTED", "SESSION_COMPLETED", "SESSION_EXPIRED"} :
           Twice(events, family, SameSession)
      \/ \E e \in Of(events, "SESSION_COMPLETED"), f \in Of(events, "SESSION_EXPIRED") : SameSession(e, f)
      \/ \E end \in {"SESSION_COMPLETED", "SESSION_EXPIRED"} :
           \/ Orphaned(events, end, "SESSION_STARTED", SameSession)
           \/ After(events, "REVEAL_AUTHORIZED", end, SameSession)
      \/ Twice(events, "ROUND_CORRECTED", correction)
      \/ Twice(events, "CORRECTION_NOTICE_ACKNOWLEDGED", SameRound)
      \/ Orphaned(events, "CORRECTION_NOTICE_ACKNOWLEDGED", "ROUND_DISPLAYED", SameRound)
      \/ Orphaned(events, "CORRECTION_NOTICE_ACKNOWLEDGED", "ROUND_CORRECTED", correction)
      \/ After(events, "CORRECTION_NOTICE_ACKNOWLEDGED", "SESSION_COMPLETED", SameSession)

CluesFail(events) ==
  \E d \in Of(events, "ROUND_DISPLAYED") :
    LET numbers == {e.detail : e \in {c \in Of(events, "CLUE_REVEALED") : SameRound(c, d)}}
    IN  numbers \notin {{}, {1}, {2}, {1, 2}}

(* What a formula counts is, by the disposition of its participant and the *)
(* correction of its round, excluded, missing, or part of the denominator. *)
Corrections(events) == {e.round : e \in Of(events, "ROUND_CORRECTED")}
State(p, dispositions) == IF dispositions[p] = "PENDING" THEN "MISSING" ELSE dispositions[p]

Metric(units, counted, hits, missing) ==
  [numerator |-> Cardinality(hits), denominator |-> Cardinality(counted),
   missing |-> Cardinality(missing)]

InState(units, state, dispositions) ==
  {u \in units : State(u.session[1], dispositions) = state}

MixedSessionCompletion(events, dispositions) ==
  LET starts == Of(events, "SESSION_STARTED")
      counted == InState(starts, "INCLUDED", dispositions)
      shown(s) == {d \in Of(events, "ROUND_DISPLAYED") : SameSession(d, s)}
      active(s) == {d \in shown(s) : d.round \notin Corrections(events)}
      revealed(s) == {d \in active(s) : \E r \in Of(events, "REVEAL_AUTHORIZED") : SameRound(r, d)}
      noticed(s) == \A d \in shown(s) \ active(s) :
                      \E a \in Of(events, "CORRECTION_NOTICE_ACKNOWLEDGED") : SameRound(a, d)
      ends(s, family) == {c \in Of(events, family) : SameSession(c, s)}
      completed == {s \in counted : \E c \in ends(s, "SESSION_COMPLETED") :
                      noticed(s) /\ c.detail = Cardinality(revealed(s)) /\ c.detail = Cardinality(active(s))}
      expired == {s \in counted : ends(s, "SESSION_COMPLETED") = {} /\ ends(s, "SESSION_EXPIRED") # {}}
  IN  Metric(starts, counted, completed,
             InState(starts, "MISSING", dispositions) \cup (counted \ (completed \cup expired)))

(* Of those who started on a day and could come back on the next: the      *)
(* analysis is given the opportunities, each with the day before it and    *)
(* what holds of it. One that follows no start fails the whole input.      *)
Began(events, player, day) ==
  \E t \in Of(events, "SESSION_STARTED") : t.session = <<player, day>>
Unfounded(events, opportunities) ==
  \E o \in opportunities : ~Began(events, o.session[1], o.session[2])

VoluntaryReturn(events, dispositions, opportunities) ==
  LET entitled == {o \in InState(opportunities, "INCLUDED", dispositions) :
                     /\ "platformIncidentBlocked" \notin o.flags
                     /\ {"consented", "eligible", "unrevoked"} \subseteq o.flags}
      counted == {o \in entitled : "fullWindowObserved" \in o.flags}
      returned == {o \in counted : Began(events, o.session[1], o.next)}
  IN  Metric(opportunities, counted, returned,
             InState(opportunities, "MISSING", dispositions) \cup (entitled \ counted))

Displays(events) == Of(events, "ROUND_DISPLAYED")
ActiveDisplays(events) == {d \in Displays(events) : d.round \notin Corrections(events)}
Revealed(events, d) == \E r \in Of(events, "REVEAL_AUTHORIZED") : SameRound(r, d)
EndedIn(events, d) ==
  \E e \in Of(events, "SESSION_COMPLETED") \cup Of(events, "SESSION_EXPIRED") : SameSession(e, d)

(* The round after d: the next position whose round is not corrected, as   *)
(* long as every position up to it was displayed.                          *)
Following(events, d) ==
  LET later == {e \in Displays(events) : SameSession(e, d) /\ e.round > d.round}
  IN  {e \in later : /\ e.round \notin Corrections(events)
                     /\ \A n \in (d.round + 1)..(e.round - 1) :
                          n \in Corrections(events) /\ \E f \in later : f.round = n}
FirstLater(events, d) ==
  {e \in Displays(events) : SameSession(e, d) /\ e.round > d.round
     /\ \A f \in Displays(events) : SameSession(f, d) /\ f.round > d.round => f.round >= e.round}

TransitionFails(events, dispositions) ==
  \E d \in InState(ActiveDisplays(events), "INCLUDED", dispositions) :
    \E e \in Following(events, d), r \in Of(events, "REVEAL_AUTHORIZED") : SameRound(r, d) /\ e.at < r.at

\* Fault: whoever is left out of the analysis is still missing a reveal.
UnrevealedOfAnyone(events, dispositions) == {d \in ActiveDisplays(events) : ~Revealed(events, d)}
(* The displays without a reveal, of those in the analysis.                *)
Unrevealed(events, dispositions) ==
  {d \in InState(ActiveDisplays(events), "INCLUDED", dispositions) : ~Revealed(events, d)}

TransitionContinuation(events, dispositions) ==
  LET units == {d \in ActiveDisplays(events) : d.round <= 4 /\ Revealed(events, d)}
      counted == InState(units, "INCLUDED", dispositions)
      continued == {d \in counted : Following(events, d) # {}}
      into == UNION {FirstLater(events, d) \cup Following(events, d) : d \in counted}
  IN  Metric(units, counted, continued,
             InState(units, "MISSING", dispositions)
             \cup {d \in counted \ continued : ~EndedIn(events, d)}
             \cup {d \in Unrevealed(events, dispositions) : d.round <= 4 /\ d \notin into})

ModeAbandonment(mode, events, dispositions) ==
  LET units == {d \in ActiveDisplays(events) : RoundMode[d.round] = mode}
      counted == InState(units, "INCLUDED", dispositions)
      expiry(d) == {e \in Of(events, "SESSION_EXPIRED") : SameSession(e, d)}
      answered == {d \in counted : \E a \in Of(events, "ANSWER_ACCEPTED") :
                     SameRound(a, d) /\ \A e \in expiry(d) : a.at <= e.at}
      abandoned == {d \in counted \ answered : \E e \in expiry(d) : d.at <= e.at}
  IN  Metric(units, counted, abandoned,
             InState(units, "MISSING", dispositions) \cup (counted \ (answered \cup abandoned)))

ModeClueUse(mode, events, dispositions) ==
  LET units == {d \in ActiveDisplays(events) : RoundMode[d.round] = mode}
      counted == InState(units, "INCLUDED", dispositions)
      clued == {d \in counted : \E c \in Of(events, "CLUE_REVEALED") : SameRound(c, d)}
      answered == {d \in counted : \E a \in Of(events, "ANSWER_ACCEPTED") : SameRound(a, d)}
  IN  Metric(units, counted, clued,
             InState(units, "MISSING", dispositions)
             \cup {d \in counted \ (clued \cup answered) : ~EndedIn(events, d)})

(* The chance-aware summary of a mode is calculated from the whole log.    *)
ChanceAware(mode, events, dispositions) ==
  LET units == {a \in Of(events, "ANSWER_ACCEPTED") :
                  RoundMode[a.round] = mode /\ a.round \notin Corrections(events)}
      accepted == InState(units, "INCLUDED", dispositions)
      revealed == {a \in accepted : Revealed(events, a)}
  IN  Metric(units, accepted, revealed, InState(units, "MISSING", dispositions) \cup (accepted \ revealed))

(* An exclusion that is not in effect by the boundary.                     *)
ExcludedLater(dispositions, boundary) ==
  \E p \in DOMAIN dispositions : dispositions[p] = "EXCLUDED" /\ excludedAt[p] > boundary

Rejected(events, dispositions, opportunities, boundary) ==
  \/ \E e \in events : ~Parses(e)
  \/ ExcludedLater(dispositions, boundary)
  \/ Unfounded(events, opportunities)
  \/ JoinsFail(events) \/ CompletionFails(events) \/ CluesFail(events)
  \/ TransitionFails(events, dispositions)

Modes == {"provenance", "language"}
\* The measures that are of the log alone.
Measures(events, dispositions) ==
  <<MixedSessionCompletion(events, dispositions), TransitionContinuation(events, dispositions),
    [m \in Modes |-> <<ModeAbandonment(m, events, dispositions), ModeClueUse(m, events, dispositions)>>]>>
-----------------------------------------------------------------------------
Init ==
  /\ plan \in Plans
  /\ log = {}
  /\ disposition = [p \in Seated |-> "PENDING"]
  /\ excludedAt = [p \in Seated |-> 0]
  /\ instant = 0

Next ==
  \/ \E s \in Sessions :
       \/ Start(s) \/ Complete(s) \/ Expire(s)
       \/ \E r \in plan[s] :
            \/ Display(s, r) \/ AcceptAnswer(s, r) \/ AuthorizeReveal(s, r) \/ Acknowledge(s, r)
            \/ \E number \in 1..2 : RevealClue(s, r, number)
  \/ \E r \in AllRounds, effectiveAt \in 0..MaxInstant : Correct(r, effectiveAt)
  \/ \E p \in Seated :
       Include(p) \/ \E effectiveAt \in 0..MaxInstant : Exclude(p, effectiveAt)
  \/ Pass

Spec == Init /\ [][Next]_measurementVars
-----------------------------------------------------------------------------
(* Properties.                                                             *)

\* Every variable keeps its type.
TypeOK ==
  /\ plan \in Plans
  /\ \A e \in log : e.accepted \in 0..MaxInstant /\ e.at \in e.accepted..MaxInstant
  /\ disposition \in [Seated -> {"PENDING", "INCLUDED", "EXCLUDED"}]
  /\ excludedAt \in [Seated -> 0..MaxInstant]
  /\ instant \in 0..MaxInstant

(* A log that sessions produce can be measured at every boundary: an input *)
(* is refused because an exclusion takes effect only later or because an   *)
(* opportunity follows no start that was observed, and never because the   *)
(* boundary fell between two events of the log.                            *)
LegalLogsAreMeasured ==
  \A b \in 0..instant, opportunities \in OpportunitySets :
    ~ExcludedLater(disposition, b) /\ ~Unfounded(Observed(log, b), opportunities) =>
      ~Rejected(Observed(log, b), disposition, opportunities, b)

(* Whoever is excluded leaves no trace in the measures: they are those of  *)
(* an input without the events and the opportunities of the excluded.      *)
ExclusionErases ==
  LET gone == {p \in Seated : disposition[p] = "EXCLUDED"}
      left == {e \in log : e.session = <<>> \/ e.session[1] \notin gone}
      others(opportunities) == {o \in opportunities : o.session[1] \notin gone}
  IN  gone # {} =>
        /\ \A b \in 0..instant :
             /\ Measures(Observed(log, b), disposition) = Measures(Observed(left, b), disposition)
             /\ \A opportunities \in OpportunitySets :
                  ~Unfounded(Observed(log, b), opportunities) =>
                    VoluntaryReturn(Observed(log, b), disposition, opportunities)
                      = VoluntaryReturn(Observed(left, b), disposition, others(opportunities))
        /\ \A m \in Modes : ChanceAware(m, log, disposition) = ChanceAware(m, left, disposition)

(* A round of a session that has ended is played or abandoned, with its    *)
(* clues used or not: at the end of the log only a participant without a   *)
(* disposition is missing from these measures.                             *)
EndedIsSettled ==
  (\A s \in Sessions : ~Running(s)) =>
    \A m \in Modes :
      LET unknown == {d \in ActiveDisplays(Observed(log, instant)) :
                        RoundMode[d.round] = m /\ disposition[d.session[1]] = "PENDING"}
      IN  /\ ModeAbandonment(m, Observed(log, instant), disposition).missing = Cardinality(unknown)
          /\ ModeClueUse(m, Observed(log, instant), disposition).missing = Cardinality(unknown)

MeasuresAreSound == LegalLogsAreMeasured /\ ExclusionErases /\ EndedIsSettled
=============================================================================
