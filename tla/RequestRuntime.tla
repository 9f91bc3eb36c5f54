---------------------------- MODULE RequestRuntime ----------------------------
(***************************************************************************)
(* The requests of an experiment preparation: the runtime that keeps every *)
(* answer for the replay, the capacity meter and the bounded transport     *)
(* that count the requests, each for itself, and the controller that has   *)
(* some of them tried again.                                               *)
(*                                                                         *)
(* Answers are numbered as they arrive. A stage whose operation throws     *)
(* leaves calls behind: their answers arrive later, in another stage or    *)
(* while the answers are replayed.                                         *)
(***************************************************************************)
EXTENDS Integers, Sequences, FiniteSets, SequencesExt

CONSTANTS
  Keys,              \* requests, told apart by provider, method and URL
  Searches,          \* those that read a page of the commit search
  Concurrent,        \* capacity.concurrentRequests
  RequestLimit,      \* capacity.requestCount
  PageLimit,         \* capacity.githubPages
  RunRetries, MaxWait, MaxTotalWait,
  Waits,             \* what an operation asks to wait for
  MaxStages          \* bound on the stages of a run

\* Assumed of the constants, and evaluated where the module is composed.
RuntimeAssumption ==
  /\ Searches \subseteq Keys
  /\ {Concurrent, RequestLimit, PageLimit, RunRetries, MaxWait, MaxTotalWait} \subseteq Nat \ {0}
  /\ Waits \subseteq Nat \ {0} /\ MaxStages \in Nat

VARIABLES
  calls,       \* the logical requests under way, of type Call
  lease,       \* capacity meter: active requests, request count
  transport,   \* bounded transport: active requests, request count
  pages,       \* capacity meter: pages of the search
  retry,       \* retry controller: runRetries, totalWait
  responses,   \* Runtime.responses: of each key, the answers to replay
  received,    \* how many answers there were, Runtime.hashes
  stage,       \* whether a stage runs, where its hashes begin, how many there were
  accepted,    \* answers whose hashes the preparation accepted
  failed,      \* some stage threw
  replay       \* Runtime.replay, replayCursors, and the answers replayed

runtimeVars == <<calls, lease, transport, pages, retry, responses, received, stage, accepted,
                 failed, replay>>

\* A call is in flight, or sleeps before it is tried again; `cached` is what
\* the runtime held for its key when the request was made.
Call == [key : Keys, phase : {"flying", "sleeping"}, cached : Seq(Nat), tries : 0..1]
Flying == {i \in DOMAIN calls : calls[i].phase = "flying"}
Meter == [active |-> 0, count |-> 0]
Started(meter) == [active |-> meter.active + 1, count |-> meter.count + 1]
Ended(meter) == [meter EXCEPT !.active = @ - 1]
-----------------------------------------------------------------------------
(* Asking.                                                                 *)

\* The meter has room for one more request.
Room(meter) == meter.active < Concurrent /\ meter.count < RequestLimit
Known(k) == responses[k]

\* Adds the call, or wakes a sleeping one, at the end of the calls.
Fly(k, others, tries) ==
  /\ Room(lease) /\ Room(transport)
  /\ calls' = Append(others, [key |-> k, phase |-> "flying", cached |-> Known(k), tries |-> tries])
  /\ lease' = Started(lease)
  /\ transport' = Started(transport)
(* The capacity meter counts a request the transport then refuses, for its *)
(* page, its target or its own limits.                                     *)
Refused(others) ==
  /\ Room(lease)
  /\ lease' = [lease EXCEPT !.count = @ + 1]
  /\ calls' = others
  /\ UNCHANGED transport
Asked(k, others, tries) == Fly(k, others, tries) \/ Refused(others)

\* What a stage left behind goes on asking when the stage is over.
Issue(k) ==
  /\ stage.open \/ failed
  /\ ~replay.on
  /\ Asked(k, calls, 0)
  /\ UNCHANGED <<pages, retry, responses, received, stage, accepted, failed, replay>>

Wake(i) ==
  /\ calls[i].phase = "sleeping" /\ ~replay.on
  /\ \/ Asked(calls[i].key, RemoveAt(calls, i), calls[i].tries)
     \/ /\ ~Room(lease)
        /\ calls' = RemoveAt(calls, i)
        /\ UNCHANGED <<lease, transport>>
  /\ UNCHANGED <<pages, retry, responses, received, stage, accepted, failed, replay>>
-----------------------------------------------------------------------------
(* Answers and failures.                                                   *)

(* An answer is counted, hashed and kept for the replay; then the page of  *)
(* a search is counted, which throws when there are too many.              *)
Answer(i) ==
  LET k == calls[i].key
  IN  /\ i \in Flying
      /\ received' = received + 1
      /\ responses' = [responses EXCEPT ![k] = Append(calls[i].cached, received + 1)]
      /\ pages' = IF k \in Searches /\ pages < PageLimit THEN pages + 1 ELSE pages
      /\ calls' = RemoveAt(calls, i)
      /\ lease' = Ended(lease) /\ transport' = Ended(transport)
      /\ UNCHANGED <<retry, stage, accepted, failed, replay>>

\* The operation asks to be tried again after w, and may.
MayRetry(i, w) ==
  /\ calls[i].tries = 0 /\ retry.runs < RunRetries
  /\ w <= MaxWait /\ retry.waited + w <= MaxTotalWait
TryAgain(i, w) ==
  /\ MayRetry(i, w)
  /\ retry' = [runs |-> retry.runs + 1, waited |-> retry.waited + w]
  /\ calls' = [calls EXCEPT ![i].phase = "sleeping", ![i].tries = 1, ![i].cached = <<>>]
\* Any other error, or a retry that is one too many.
GiveUp(i) == calls' = RemoveAt(calls, i) /\ UNCHANGED retry

\* Fault: a request that fails keeps its lease.
FailLeased(i) ==
  /\ i \in Flying
  /\ transport' = Ended(transport)
  /\ GiveUp(i) \/ \E w \in Waits : TryAgain(i, w)
  /\ UNCHANGED <<lease, pages, responses, received, stage, accepted, failed, replay>>
(* The request times out, fails, or its answer is too long or malformed.   *)
Fail(i) ==
  /\ i \in Flying
  /\ transport' = Ended(transport) /\ lease' = Ended(lease)
  /\ GiveUp(i) \/ \E w \in Waits : TryAgain(i, w)
  /\ UNCHANGED <<pages, responses, received, stage, accepted, failed, replay>>
-----------------------------------------------------------------------------
(* Stages and the replay.                                                  *)

OpenStage ==
  /\ ~stage.open /\ ~replay.on /\ stage.count < MaxStages
  /\ stage' = [open |-> TRUE, offset |-> received, count |-> stage.count + 1]
  /\ UNCHANGED <<calls, lease, transport, pages, retry, responses, received, accepted, failed,
                 replay>>

(* An operation that returns has awaited its calls; those of earlier       *)
(* stages may still be under way.                                          *)
EndStage ==
  /\ stage.open
  /\ failed \/ calls = <<>>
  /\ accepted' = accepted \cup (stage.offset + 1)..received
  /\ stage' = [stage EXCEPT !.open = FALSE]
  /\ UNCHANGED <<calls, lease, transport, pages, retry, responses, received, failed, replay>>

(* The operation throws: nothing of it is accepted.                        *)
FailStage ==
  /\ stage.open
  /\ failed' = TRUE
  /\ stage' = [stage EXCEPT !.open = FALSE]
  /\ UNCHANGED <<calls, lease, transport, pages, retry, responses, received, accepted, replay>>

BeginReplay ==
  /\ ~stage.open /\ ~replay.on
  /\ replay' = [on |-> TRUE, cursors |-> [k \in Keys |-> 0], read |-> {}]
  /\ UNCHANGED <<calls, lease, transport, pages, retry, responses, received, stage, accepted,
                 failed>>

(* A replayed request is answered from what was kept, in the order it came; *)
(* one that has no answer left fails the preparation.                      *)
Take(k) ==
  LET at == replay.cursors[k] + 1
  IN  /\ replay.on /\ at \in DOMAIN responses[k]
      /\ replay' = [replay EXCEPT !.cursors[k] = at, !.read = @ \cup {responses[k][at]}]
      /\ UNCHANGED <<lease, transport, pages, retry, responses, received, stage, accepted,
                     failed>>
Replay(k) == Take(k) /\ UNCHANGED calls
\* A call of a stage that threw wakes up in the replay, and takes an answer of it.
Straggle(i) ==
  /\ calls[i].phase = "sleeping"
  /\ Take(calls[i].key)
  /\ calls' = RemoveAt(calls, i)
-----------------------------------------------------------------------------
Init ==
  /\ calls = <<>> /\ lease = Meter /\ transport = Meter /\ pages = 0
  /\ retry = [runs |-> 0, waited |-> 0]
  /\ responses = [k \in Keys |-> <<>>] /\ received = 0
  /\ stage = [open |-> FALSE, offset |-> 0, count |-> 0]
  /\ accepted = {} /\ failed = FALSE
  /\ replay = [on |-> FALSE, cursors |-> [k \in Keys |-> 0], read |-> {}]

Next ==
  \/ OpenStage \/ EndStage \/ FailStage \/ BeginReplay
  \/ \E k \in Keys : Issue(k) \/ Replay(k)
  \/ \E i \in DOMAIN calls : Wake(i) \/ Straggle(i) \/ Answer(i) \/ Fail(i)

Spec == Init /\ [][Next]_runtimeVars
-----------------------------------------------------------------------------
(* Properties.                                                             *)

\* Every variable keeps its type.
TypeOK ==
  /\ calls \in Seq(Call)
  /\ lease \in [active : Nat, count : Nat] /\ transport \in [active : Nat, count : Nat]
  /\ pages \in 0..PageLimit
  /\ retry \in [runs : Nat, waited : Nat]
  /\ responses \in [Keys -> Seq(1..received)] /\ received \in Nat
  /\ stage \in [open : BOOLEAN, offset : 0..received, count : 0..MaxStages]
  /\ accepted \subseteq 1..received /\ failed \in BOOLEAN
  /\ replay.on \in BOOLEAN

(* Two counters that know nothing of each other agree with the requests in *)
(* flight on every path, so that none leaks; every answer and every        *)
(* request in flight was counted as sent, and no page but of an answer; no *)
(* path goes past a limit, a request is tried again at most once. A replay *)
(* reads answers that arrived, and, if no stage threw, only answers whose  *)
(* hashes were accepted (createPreparationRuntime, createRequestLease,     *)
(* performRequest, createRetryController).                                 *)
RequestsAreAccountedFor ==
  /\ lease.active = Cardinality(Flying) /\ transport.active = Cardinality(Flying)
  /\ lease.active <= Concurrent
  /\ transport.count <= lease.count /\ lease.count <= RequestLimit
  /\ received + Cardinality(Flying) <= transport.count
  /\ pages <= received /\ pages <= PageLimit
  /\ Cardinality({i \in DOMAIN calls : calls[i].tries = 1}) <= retry.runs
  /\ retry.runs <= RunRetries /\ retry.waited <= MaxTotalWait
  /\ replay.read \subseteq 1..received
  /\ ~failed => replay.read \subseteq accepted
=============================================================================
