---------------------------- MODULE RoundReveal ----------------------------
(***************************************************************************)
(* A round from its first clue to its authorized reveal: the language and  *)
(* provenance flows, the RoundPlay inside them, and the RevealAuthority    *)
(* they present to obtain the protected payload.                           *)
(*                                                                         *)
(* A flow is an immutable value: every accepted clue or answer returns a   *)
(* new one, and whoever still holds the old one may go on from there. An   *)
(* authority is the opposite, one mutable object that any flow and any     *)
(* request may be brought to. Holders are the callers, each with the flow  *)
(* value it last got; two of them at the same round are a fork of it.      *)
(***************************************************************************)
EXTENDS Integers, FiniteSets

CONSTANTS
  Holders,         \* callers that hold a flow value
  Rounds,          \* round ids
  LanguageRounds,  \* the rounds played in language mode; the others are provenance
  ClueCount,       \* how many clues each round defines
  Sessions,        \* session ids
  HomeSession,     \* the session the language flows were created for
  Scopes,          \* participant, day and manifest, taken together
  Answers,         \* accepted-answer transition ids
  Candidates,      \* candidate ids
  Correct,         \* the certified candidate of every round
  Authorities,     \* reveal authorities that can be issued
  Entitlements,    \* the entitlements they are issued for
  Requests,        \* the reveal requests callers make
  MaxTime,         \* instants are 0..MaxTime
  Malformed,       \* the provider throws, or returns what is not a payload
  None

Times == 0..MaxTime

Entitlement ==
  [answer : Answers, round : Rounds, session : Sessions, scope : Scopes,
   acceptedAt : Times, expiresAt : Times,
   correction : {"ACTIVE", "VOID", "CONTENT_WITHDRAWN"}, blocked : BOOLEAN]
Request ==
  [answer : Answers, round : Rounds, session : Sessions, scope : Scopes, at : Times]

(* What the payload provider may do when it is asked: throw or return      *)
(* something malformed, or return a payload. All a flow can tell of a      *)
(* payload is the correctness it claims and whether its versions and       *)
(* disclosures are the ones the flow was created with.                     *)
Payload == [correct : BOOLEAN, bound : BOOLEAN]

ASSUME RevealAssumption ==
  /\ LanguageRounds \subseteq Rounds
  /\ ClueCount \in [Rounds -> 0..2]
  /\ HomeSession \in Sessions
  /\ Correct \in Candidates
  /\ Entitlements \subseteq Entitlement
  /\ Requests \subseteq Request
  /\ MaxTime \in Nat
  /\ Malformed \notin Payload
  /\ None \notin Answers \cup Candidates \cup Entitlements

VARIABLES
  flow,        \* the flow value of each holder
  entitlement, \* what each authority was issued for, or None
  used,        \* #used of each authority
  released,    \* history: how often each authority let a payload out
  outcomes     \* history: the authorized outcomes the flows returned

vars == <<flow, entitlement, used, released, outcomes>>

Selection == [answer : Answers, candidate : Candidates]

(* A flow with the RoundPlay it wraps: the clues accepted, and whether the *)
(* RoundPlay has an answer already. A language flow is created over an     *)
(* untouched RoundPlay only; a provenance flow takes one in any state,     *)
(* such as the answeredRoundPlay of an earlier outcome.                    *)
Flow == [round : Rounds, clues : 0..2, played : BOOLEAN, selection : Selection \cup {None}]
NewFlows ==
  {f \in Flow : /\ f.selection = None
                /\ f.clues <= ClueCount[f.round]
                /\ f.round \in LanguageRounds => f.clues = 0 /\ ~f.played}

CorrectPoints == <<1000, 800, 500>>
\* Fault: the points are looked up one clue too early.
RoundPointsOffByOne(correct, clues) ==
  IF correct THEN CorrectPoints[IF clues = 0 THEN 1 ELSE clues] ELSE 0
RoundPoints(correct, clues) == IF correct THEN CorrectPoints[clues + 1] ELSE 0

Outcome == [authority : Authorities, round : Rounds, clues : 0..2,
            selection : Selection, at : Times, points : {0, 500, 800, 1000}]
-----------------------------------------------------------------------------
(* RevealAuthority.                                                        *)

Bound(q, e) ==
  q.answer = e.answer /\ q.round = e.round /\ q.session = e.session /\ q.scope = e.scope

\* Fault: a request at the very instant of expiry is let through.
DenialAfterExpiry(q, guardsPass, e, spent) ==
  IF spent THEN "REPLAYED"
  ELSE IF ~guardsPass THEN "GUARD_REJECTED"
  ELSE IF ~Bound(q, e) THEN "SCOPE_MISMATCH"
  ELSE IF q.at < e.acceptedAt THEN "NOT_READY"
  ELSE IF q.at > e.expiresAt THEN "EXPIRED"
  ELSE IF e.correction # "ACTIVE" \/ e.blocked THEN "ROUND_BLOCKED"
  ELSE "AUTHORIZED"

(* The first check of authorize that a request fails, or AUTHORIZED when   *)
(* the provider is asked for the payload.                                  *)
Denial(q, guardsPass, e, spent) ==
  IF spent THEN "REPLAYED"
  ELSE IF ~guardsPass THEN "GUARD_REJECTED"
  ELSE IF ~Bound(q, e) THEN "SCOPE_MISMATCH"
  ELSE IF q.at < e.acceptedAt THEN "NOT_READY"
  ELSE IF q.at >= e.expiresAt THEN "EXPIRED"
  ELSE IF e.correction # "ACTIVE" \/ e.blocked THEN "ROUND_BLOCKED"
  ELSE "AUTHORIZED"

Authorized(a, q, payload) ==
  /\ entitlement[a] # None
  /\ Denial(q, TRUE, entitlement[a], used[a]) = "AUTHORIZED"
  /\ payload # Malformed

\* Fault: nobody marks the authority as used.
KeepUnused(a) == used' = used /\ released' = [released EXCEPT ![a] = @ + 1]
Consume(a) ==
  /\ used' = [used EXCEPT ![a] = TRUE]
  /\ released' = [released EXCEPT ![a] = @ + 1]

Issue(a, e) ==
  /\ entitlement[a] = None
  /\ e.acceptedAt < e.expiresAt
  /\ entitlement' = [entitlement EXCEPT ![a] = e]
  /\ UNCHANGED <<flow, used, released, outcomes>>
-----------------------------------------------------------------------------
(* The flows.                                                              *)

AcceptClue(h) ==
  /\ flow[h].selection = None
  /\ ~flow[h].played
  /\ flow[h].clues < ClueCount[flow[h].round]
  /\ flow' = [flow EXCEPT ![h].clues = @ + 1]
  /\ UNCHANGED <<entitlement, used, released, outcomes>>

AcceptAnswer(h, t, c) ==
  /\ flow[h].selection = None
  /\ flow[h].round \in LanguageRounds => t \notin Candidates
  /\ flow' = [flow EXCEPT ![h].selection = [answer |-> t, candidate |-> c]]
  /\ UNCHANGED <<entitlement, used, released, outcomes>>

(* A flow asks the authority only for its own answer and round; a language *)
(* flow also for its own session.                                          *)
Asks(f, q) ==
  /\ f.selection # None
  /\ q.answer = f.selection.answer
  /\ q.round = f.round
  /\ f.round \in LanguageRounds => q.session = HomeSession

(* What a flow checks of a released payload, throwing when it fails. That  *)
(* its RoundPlay can still take the answer is found out last of all.       *)
Accepts(f, payload) ==
  /\ payload.bound
  /\ ~f.played
  /\ payload.correct = (f.selection.candidate = Correct)

OutcomeOf(a, f, q, payload) ==
  [authority |-> a, round |-> f.round, clues |-> f.clues, selection |-> f.selection,
   at |-> q.at, points |-> RoundPoints(payload.correct, f.clues)]

(* A reveal that succeeds. RoundPlay scores the answer only now, when the  *)
(* correctness is known.                                                   *)
Reveal(h, a, q, payload) ==
  /\ Asks(flow[h], q)
  /\ Authorized(a, q, payload)
  /\ Accepts(flow[h], payload)
  /\ Consume(a)
  /\ outcomes' = outcomes \cup {OutcomeOf(a, flow[h], q, payload)}
  /\ UNCHANGED <<flow, entitlement>>

(* A reveal that throws after the authority let the payload out: the       *)
(* authority is spent and the caller has nothing.                          *)
RevealThrows(h, a, q, payload) ==
  /\ Asks(flow[h], q)
  /\ Authorized(a, q, payload)
  /\ ~Accepts(flow[h], payload)
  /\ Consume(a)
  /\ UNCHANGED <<flow, entitlement, outcomes>>

(* Everything else a caller can try (a flow without an answer or asked for *)
(* another one, a denied authorization, a rejected payload) leaves every   *)
(* object as it was, and is no step.                                       *)
-----------------------------------------------------------------------------
Init ==
  /\ flow \in [Holders -> NewFlows]
  /\ entitlement = [a \in Authorities |-> None]
  /\ used = [a \in Authorities |-> FALSE]
  /\ released = [a \in Authorities |-> 0]
  /\ outcomes = {}

Next ==
  \/ \E a \in Authorities, e \in Entitlements : Issue(a, e)
  \/ \E h \in Holders : AcceptClue(h)
  \/ \E h \in Holders, t \in Answers, c \in Candidates : AcceptAnswer(h, t, c)
  \/ \E h \in Holders, a \in Authorities, q \in Requests, payload \in Payload \cup {Malformed} :
       Reveal(h, a, q, payload) \/ RevealThrows(h, a, q, payload)

Spec == Init /\ [][Next]_vars
-----------------------------------------------------------------------------
(* Properties.                                                             *)

\* Every variable keeps its type.
TypeOK ==
  /\ flow \in [Holders -> Flow]
  /\ entitlement \in [Authorities -> Entitlements \cup {None}]
  /\ used \in [Authorities -> BOOLEAN]
  /\ released \in [Authorities -> Nat]
  /\ outcomes \subseteq Outcome

(* However many holders forked the round and however they interleave, an   *)
(* authority lets its payload out at most once, and at most one of them    *)
(* gets an outcome for it (reveal/index.ts, authorize).                    *)
OneReleasePerAuthority ==
  \A a \in Authorities :
    /\ released[a] <= 1
    /\ \A o, p \in outcomes : o.authority = a /\ p.authority = a => o = p

(* Every outcome is for the very answer, round and session its authority   *)
(* was issued for, inside the entitlement's window, on a round that was    *)
(* neither corrected nor blocked when the entitlement was taken.           *)
OutcomeWithinEntitlement ==
  \A o \in outcomes :
    LET e == entitlement[o.authority]
    IN /\ e # None
       /\ o.selection.answer = e.answer
       /\ o.round = e.round
       /\ o.round \in LanguageRounds => e.session = HomeSession
       /\ e.acceptedAt <= o.at /\ o.at < e.expiresAt
       /\ e.correction = "ACTIVE" /\ ~e.blocked

\* What a correct answer is worth after that many clues.
Worth(clues) == CASE clues = 0 -> 1000 [] clues = 1 -> 800 [] OTHER -> 500

(* Whatever the provider claims, points are paid for the certified         *)
(* candidate only, and by the clues of the very flow that answered         *)
(* (round/index.ts, acceptAnswer; language-flow.ts, reveal).               *)
PointsAreEarned ==
  \A o \in outcomes :
    o.points = IF o.selection.candidate = Correct THEN Worth(o.clues) ELSE 0

=============================================================================
