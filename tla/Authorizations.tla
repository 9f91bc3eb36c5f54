---------------------------- MODULE Authorizations ----------------------------
(***************************************************************************)
(* Who may acquire what, and under which source regime: the registers of   *)
(* approved policies and operators, the run descriptor an operator holds,  *)
(* the authorization of a run, of GitHub's first answer to it and of its   *)
(* resumption after a rate limit, and the control of the source regime.    *)
(*                                                                         *)
(* The registers are revised while operators hold older copies of them. A  *)
(* register is a set of entries and its hash the set itself; two entries   *)
(* of one register may share an identifier until somebody looks.           *)
(***************************************************************************)
EXTENDS Integers, FiniteSets

CONSTANTS
  Requests,   \* [repository and subtree, purpose] pairs
  Entries,    \* [class, id, permits, from, through, approvals]: what may be approved
  Registers,  \* sets of entries that are kept as registers
  Bindings,   \* [class -> id]: the entries a descriptor names
  Regimes,    \* [selection, at, signed, effective]: source regimes that may be selected
  Skew,       \* MAX_CLOCK_SKEW_MS
  MaxTime,    \* bound on the instants
  MaxRuns,    \* bound on the runs begun
  None

\* Assumed of the constants, and evaluated where the module is composed.
AuthorizationsAssumption ==
  /\ Skew \in Nat /\ MaxTime \in Nat /\ MaxRuns \in Nat
  /\ Registers \subseteq SUBSET Entries
  /\ \A entry \in Entries : IsFiniteSet(entry.approvals)
  /\ \A r \in Regimes :
       {r.at} \cup (IF r.signed = None THEN {} ELSE {r.signed, r.effective}) \subseteq Int

VARIABLES
  time,        \* host clock, and GitHub's
  controls,    \* project controls: the register in force
  descriptor,  \* run descriptor: request, register and entries
  run,         \* the command at work, or None
  pause,       \* the pause checkpoint it can resume from, or None
  sources,     \* source receipts issued
  regime       \* SourceRegimeControl, or None

authorizationVars == <<time, controls, descriptor, run, pause, sources, regime>>

PolicyClasses == {"REPOSITORY_ADMISSION", "ATTRIBUTION_MARKER"}
Classes == PolicyClasses \cup {"OPERATOR"}
RolesOf(class) ==
  IF class = "OPERATOR" THEN {"Release Operator", "Security Reviewer"}
  ELSE {"Don", "Rights/Safety Reviewer"}
-----------------------------------------------------------------------------
(* authorizePolicy and authorizeOperatorRun, of one entry at one instant.  *)

\* Fault: one person approves in both roles.
ApprovedInRoles(entry, t) ==
  /\ {approval.role : approval \in entry.approvals} = RolesOf(entry.class)
  /\ Cardinality(entry.approvals) = 2
  /\ \A approval \in entry.approvals : approval.at <= t
Approved(entry, t) ==
  /\ {approval.role : approval \in entry.approvals} = RolesOf(entry.class)
  /\ Cardinality(entry.approvals) = 2
  /\ Cardinality({approval.who : approval \in entry.approvals}) = 2
  /\ \A approval \in entry.approvals : approval.at <= t

\* validThrough may be left out of an entry.
Valid(entry, t) ==
  /\ entry.from <= t
  /\ entry.through # None => entry.from <= entry.through /\ t <= entry.through

(* Policies and operators have a register each, and in either an           *)
(* identifier names one entry.                                             *)
Unique(register) ==
  \A e, f \in register :
    e.id = f.id /\ (e.class = "OPERATOR" <=> f.class = "OPERATOR") => e = f
Bound(register, class, id) == {e \in register : e.class = class /\ e.id = id}

Authorized(d, t) ==
  /\ Unique(d.register)
  /\ \A class \in Classes :
       \E entry \in Bound(d.register, class, d.binding[class]) :
         Valid(entry, t) /\ Approved(entry, t) /\ d.request \in entry.permits

-----------------------------------------------------------------------------
(* The registers are revised, and descriptors written, at any time.        *)

Tick ==
  /\ time < MaxTime
  /\ time' = time + 1
  /\ UNCHANGED <<controls, descriptor, run, pause, sources, regime>>

Publish(register) ==
  /\ controls' = register
  /\ UNCHANGED <<time, descriptor, run, pause, sources, regime>>

Describe(request, binding) ==
  /\ descriptor' = [request |-> request, register |-> controls, binding |-> binding]
  /\ UNCHANGED <<time, controls, run, pause, sources, regime>>
-----------------------------------------------------------------------------
(* A command: the host clock is read, the descriptor and the controls are  *)
(* loaded in turn and compared, and all is judged at the instant read      *)
(* first.                                                                  *)

Begin(mode) ==
  /\ run = None
  /\ descriptor # None
  /\ mode = "resume" => pause # None
  /\ run' = [mode |-> mode, at |-> time, phase |-> "loading", bindings |-> None]
  /\ UNCHANGED <<time, controls, descriptor, pause, sources, regime>>

LoadDescriptor ==
  /\ run # None /\ run.phase = "loading"
  /\ run' = [run EXCEPT !.phase = "loaded", !.bindings = descriptor]
  /\ UNCHANGED <<time, controls, descriptor, pause, sources, regime>>

AuthorizeExecution ==
  /\ run # None /\ run.phase = "loaded"
  /\ run' = IF run.bindings.register = controls /\ Authorized(run.bindings, run.at)
            THEN [run EXCEPT !.phase = IF run.mode = "resume" THEN "resuming" ELSE "asking"]
            ELSE None
  /\ UNCHANGED <<time, controls, descriptor, pause, sources, regime>>

(* authorizeRateLimitResume: the checkpoint has the bindings of the run,   *)
(* its request, registers and entries, and its instant has come.           *)
\* Fault: the bindings are not compared.
ReadyWhenDue == pause.after <= time
Ready == pause.bindings = run.bindings /\ pause.after <= time

ResumeRun ==
  /\ run # None /\ run.phase = "resuming"
  /\ run' = IF Ready THEN [run EXCEPT !.phase = "asking"] ELSE None
  /\ UNCHANGED <<time, controls, descriptor, pause, sources, regime>>

(* GitHub's first answer carries its date, and the run is authorized again *)
(* with it; the answer may take any time.                                  *)
Receive ==
  /\ run # None /\ run.phase = "asking"
  /\ IF time - run.at <= Skew
     THEN /\ run' = [run EXCEPT !.phase = "working"]
          /\ sources' = sources \cup {[bindings |-> run.bindings, at |-> run.at, date |-> time,
                                       resumed |-> IF run.mode = "resume" THEN pause ELSE None]}
     ELSE run' = None /\ UNCHANGED sources
  /\ UNCHANGED <<time, controls, descriptor, pause, regime>>

(* A rate limit pauses a command at work; it may also end or die.          *)
PauseRun(after) ==
  /\ run # None /\ run.phase \in {"asking", "working"}
  /\ after > time
  /\ pause' = [bindings |-> run.bindings, after |-> after]
  /\ run' = None
  /\ UNCHANGED <<time, controls, descriptor, sources, regime>>

End ==
  /\ run # None
  /\ run' = None
  /\ UNCHANGED <<time, controls, descriptor, pause, sources, regime>>
-----------------------------------------------------------------------------
(* SourceRegimeControl: select and replace, and startInvitations.          *)

(* Posts of Stack Overflow need a determination, signed and in effect when *)
(* the regime is selected; the other regimes must not have one.            *)
RegimeIsSound(r) ==
  IF r.selection = "stack-overflow-enabled"
  THEN r.signed # None /\ r.signed <= r.at /\ r.effective <= r.at
  ELSE r.signed = None

SelectRegime(r) ==
  /\ RegimeIsSound(r)
  /\ regime # None => regime.started = None
  /\ regime' = [selected |-> r, started |-> None]
  /\ UNCHANGED <<time, controls, descriptor, run, pause, sources>>

StartInvitations(at) ==
  /\ regime # None /\ regime.started = None
  /\ at >= regime.selected.at
  /\ regime' = [regime EXCEPT !.started = at]
  /\ UNCHANGED <<time, controls, descriptor, run, pause, sources>>
-----------------------------------------------------------------------------
Init ==
  /\ time = 0
  /\ controls \in Registers
  /\ descriptor = None /\ run = None /\ pause = None /\ sources = {} /\ regime = None

RunNext ==
  \/ Tick \/ LoadDescriptor \/ AuthorizeExecution \/ ResumeRun \/ Receive \/ End
  \/ \E register \in Registers : Publish(register)
  \/ \E request \in Requests, binding \in Bindings : Describe(request, binding)
  \/ Cardinality(sources) < MaxRuns /\ \E mode \in {"run", "resume"} : Begin(mode)
  \/ \E after \in 1..MaxTime : PauseRun(after)

RegimeNext ==
  \/ \E r \in Regimes : SelectRegime(r)
  \/ \E at \in 0..MaxTime : StartInvitations(at)

Next == RunNext \/ RegimeNext

Spec == Init /\ [][Next]_authorizationVars
-----------------------------------------------------------------------------
(* Properties.                                                             *)

\* Every variable keeps its type.
TypeOK ==
  /\ time \in 0..MaxTime /\ controls \in Registers
  /\ run # None => run.at \in 0..time /\ run.phase \in {"loading", "loaded", "resuming", "asking", "working"}
  /\ \A source \in sources : source.at \in 0..MaxTime /\ source.date \in 0..MaxTime

(* An entry two people had approved, one in each role, by that instant,    *)
(* and that permits the request then.                                      *)
Permits(register, class, request, t) ==
  \E entry \in register :
    /\ entry.class = class /\ request \in entry.permits
    /\ entry.from <= t /\ (entry.through # None => t <= entry.through)
    /\ \E a, b \in entry.approvals :
         a.who # b.who /\ {a.role, b.role} = RolesOf(class) /\ a.at <= t /\ b.at <= t

(* Whoever revises the registers meanwhile, a source is received only for  *)
(* a request that both policies and the operator's entry permitted when    *)
(* the command read its clock, with GitHub's date close to that instant;   *)
(* a resumed one is the paused run's, after its pause, under the registers *)
(* it was paused under. A beta starts its invitations under a regime       *)
(* chosen before, with the rights it needs (authorizeExecutionDescriptor,  *)
(* authorizeResponseDate, authorizeRateLimitResume, SourceRegimeControl).  *)
RunsAreAuthorized ==
  /\ \A source \in sources :
       /\ \A class \in Classes :
            Permits(source.bindings.register, class, source.bindings.request, source.at)
       /\ source.date - source.at <= Skew
       /\ source.resumed # None =>
            source.resumed.bindings = source.bindings /\ source.resumed.after <= source.date
  /\ regime # None /\ regime.started # None =>
       /\ regime.selected.at <= regime.started
       /\ regime.selected.selection = "stack-overflow-enabled" =>
            regime.selected.signed <= regime.started /\ regime.selected.effective <= regime.started
=============================================================================
