--------------------------- MODULE PlanPublication ---------------------------
(***************************************************************************)
(* How the RCE and the tariff sensor calculate a plan and make it current   *)
(* (rce_sensor.py, tariff_sensor.py, optimizer_revision.py).  The solver    *)
(* runs in an executor while the event loop goes on, and the inputs are of  *)
(* four sorts: helpers whose events withdraw the plan and arm a debounce;   *)
(* inputs without an event, which only the fingerprint of a solved plan     *)
(* meets; values that move all the time, which the tariff samples once for  *)
(* a solver pass and RCE samples again to revalidate what the solver found; *)
(* and the three readbacks of GCF, which arrive one by one and are a policy *)
(* only together.  One lock makes the batches of calculations take turns; a *)
(* batch has three attempts.                                                *)
(*                                                                         *)
(* The two sensors share this state machine and differ in details, which    *)
(* name the policy.  The prices of Pstryk, which replace both, are in       *)
(* DynamicPlan.                                                             *)
(***************************************************************************)
EXTENDS Naturals, Sequences

CONSTANTS
    Whole,          \* the policies a complete set of GCF readbacks may mean
    MaxTurns,       \* bound: batches that wait for the lock
    MaxChanges,     \* bound: changes of inputs, and refreshes that meet a batch
    MaxErrors       \* bound: exceptions, failed revalidations and cohort waits

ASSUME BoundsAssumption == MaxTurns \in Nat /\ MaxChanges \in Nat /\ MaxErrors \in Nat
ASSUME WholeAssumption == "mixed" \notin Whole

VARIABLES
    policy,         \* which sensor this is
    user, mail,     \* the version of the inputs with an event; events not delivered yet
    quiet,          \* the version of those without, which the fingerprint holds
    sampled,        \* the version of those the fingerprint lets move
    gcf,            \* what the GCF readbacks mean
    valid,          \* the required physical inputs are there
    applied,        \* _forecast_gcf_policy_signature
    cohort,         \* _forecast_gcf_policy_evaluation_cancel: its deadline is armed
    result,         \* the inputs of the result shown; whether a solver made it
    current,        \* result_current, the negation of recalculation_pending
    missing,        \* missing_entities is not empty
    debounce,       \* _recalculate_cancel: armed for seconds or for five minutes
    retry,          \* _stale_result_retry_cancel is armed
    dirty,          \* _shared_inputs_dirty
    recovering,     \* _required_input_recovery_pending
    turns,          \* who waits for _optimizer_lock
    batch,          \* the batch that holds it
    ended,          \* history: how the last batch ended
    changes, errors
inputs == <<user, quiet, sampled, gcf, valid>>
shows == <<result, missing>>
counts == <<changes, errors>>
publicationVars == <<policy, inputs, mail, applied, cohort, shows, current, debounce, retry,
                     dirty, recovering, turns, batch, ended, counts>>


Tariff == policy = "tariff"
Attempts == 3               \* MAX_IMMEDIATE_RECALCULATIONS
Triggers == {"debounced", "timer", "retry", "refresh"}
Delays == {"none", "soon", "late"}
Snapshots == [user : Nat, quiet : Nat, sampled : Nat, gcf : Whole \cup {"mixed"}]
Snapshot == [user |-> user, quiet |-> quiet, sampled |-> sampled, gcf |-> gcf]
NoSnapshot == [user |-> 0, quiet |-> 0, sampled |-> 0, gcf |-> "mixed"]
\* What the fingerprint of a solver holds on to.
Guarded(s) == [user |-> s.user, quiet |-> s.quiet, gcf |-> s.gcf]
Attempt(by, try, drifts) == [by |-> by, try |-> try, drifts |-> drifts, solving |-> FALSE,
                             moved |-> FALSE, of |-> NoSnapshot]
Free == Attempt("none", 0, 0)
Batches == [by : Triggers \cup {"none"}, try : 0..Attempts, drifts : 0..Attempts,
            solving : BOOLEAN, moved : BOOLEAN, of : Snapshots]

PublicationTypeOK ==
    /\ policy \in {"rce", "tariff"}
    /\ Snapshot \in Snapshots /\ valid \in BOOLEAN /\ mail \in Nat
    /\ applied \in Whole \cup {"mixed"} /\ cohort \in BOOLEAN
    /\ result \in [of : Snapshots, solved : BOOLEAN]
    /\ current \in BOOLEAN /\ missing \in BOOLEAN
    /\ debounce \in Delays /\ retry \in BOOLEAN /\ dirty \in BOOLEAN /\ recovering \in BOOLEAN
    /\ turns \in Seq(Triggers) /\ batch \in Batches
    /\ ended \in {"none", "committed", "blocked", "missing", "failed", "drifted"}
    /\ changes \in Nat /\ errors \in Nat

\* The warm-up has read the recorder and starts the first batch.
PublicationInit ==
    /\ policy \in {"rce", "tariff"}
    /\ user = 0 /\ mail = 0 /\ quiet = 0 /\ sampled = 0 /\ gcf \in Whole /\ valid \in BOOLEAN
    /\ applied = gcf /\ cohort = FALSE
    /\ result = [of |-> NoSnapshot, solved |-> FALSE] /\ current = FALSE /\ missing = FALSE
    /\ debounce = "none" /\ retry = FALSE /\ dirty = FALSE /\ recovering = FALSE
    /\ turns = <<>> /\ batch = Attempt("refresh", 1, 0) /\ ended = "none"
    /\ changes = 0 /\ errors = 0

-----------------------------------------------------------------------------
\* RCE goes without an await from the lock to the solver; the tariff awaits the
\* evidence of a running transaction first.
Starting == batch.try > 0 /\ ~batch.solving
Awaits == Tariff \/ ~Starting
Changes == Awaits /\ changes < MaxChanges /\ changes' = changes + 1 /\ UNCHANGED errors
Errs == errors < MaxErrors /\ errors' = errors + 1 /\ UNCHANGED changes

\* _mark_recalculation_pending; with _invalidate_internal_inputs also the revision
\* moves on, which matters to a solver that runs.
Withdraw == current' = FALSE /\ retry' = FALSE
Moved == [batch EXCEPT !.moved = batch.solving]
Invalidate == Withdraw /\ batch' = Moved
\* Nobody arms over a delay that runs, except to recover and after the load is ready.
Arm(delay) == debounce' = IF debounce = "none" THEN delay ELSE debounce
Rearm == debounce' = "soon"

\* A batch takes the lock if nobody has it or waits for it.
Idle == batch.try = 0 /\ turns = <<>>
Enter(by, busy) ==
    \/ Idle /\ batch' = Attempt(by, 1, 0) /\ UNCHANGED turns
    \/ ~Idle /\ Len(turns) < MaxTurns /\ turns' = Append(turns, by) /\ batch' = busy

-----------------------------------------------------------------------------
(* The inputs.                                                             *)

\* A helper of the user, and its event, which Home Assistant may deliver later.
UserChange ==
    /\ Changes /\ user' = user + 1 /\ mail' = mail + 1
    /\ UNCHANGED <<policy, quiet, sampled, gcf, valid, applied, cohort, shows, current, debounce,
                   retry, dirty, recovering, turns, batch, ended>>
InputChanged ==
    /\ Awaits /\ mail > 0 /\ mail' = mail - 1
    /\ Invalidate /\ Arm("soon")
    /\ UNCHANGED <<policy, inputs, applied, cohort, shows, dirty, recovering, turns, ended,
                   counts>>

\* _schedule_available_required_input_recovery: what the last plan missed is there.
Recovers(there) == Tariff /\ there /\ missing /\ ~recovering
Recover(there) ==
    \/ Recovers(there) /\ Invalidate /\ Rearm /\ recovering' = TRUE
    \/ ~Recovers(there) /\ UNCHANGED <<current, retry, batch, debounce, recovering>>

\* The shared inputs make a note, and may be what was missing; the forecasts and the
\* evidence of a transaction do not even do that.
Noted ==
    \/ dirty' \in {dirty, TRUE}
       /\ UNCHANGED <<current, retry, batch, debounce, recovering>>
    \/ dirty' = TRUE /\ Recover(valid)
\* An input without an event that the fingerprint holds: for RCE the forecasts and the
\* sources, for the tariff the capabilities and the transaction it may continue.
QuietChange ==
    /\ Changes /\ quiet' = quiet + 1 /\ Noted
    /\ UNCHANGED <<policy, user, mail, sampled, gcf, valid, applied, cohort, shows, turns, ended>>
\* One it lets move: state of charge, powers and energies, for the tariff the forecasts.
SampleChange ==
    /\ Changes /\ sampled' = sampled + 1 /\ Noted
    /\ UNCHANGED <<policy, user, mail, quiet, gcf, valid, applied, cohort, shows, turns, ended>>
\* The shared inputs that ask for a calculation: the first, or for the tariff a load that
\* has become ready; for RCE also the prices of the tariff.
SharedReady ==
    /\ Changes /\ quiet' = quiet + 1
    /\ \/ ~Tariff /\ Invalidate /\ Arm("soon") /\ UNCHANGED dirty
       \/ Tariff /\ ~recovering /\ ~Recovers(valid)
          /\ Invalidate /\ Rearm /\ dirty' = FALSE
    /\ UNCHANGED <<policy, user, mail, sampled, gcf, valid, applied, cohort, shows, recovering,
                   turns, ended>>

InputsLost ==
    /\ Changes /\ valid /\ valid' = FALSE
    /\ UNCHANGED <<policy, user, mail, quiet, sampled, gcf, applied, cohort, shows, current,
                   debounce, retry, dirty, recovering, turns, batch, ended>>
InputsBack ==
    /\ Awaits /\ ~valid /\ valid' = TRUE
    /\ Recover(TRUE)
    /\ UNCHANGED <<policy, user, mail, quiet, sampled, gcf, applied, cohort, shows, dirty, turns,
                   ended, counts>>

\* _async_forecast_gcf_policy_changed: an incomplete set may still become complete.
GcfIncomplete ==
    /\ Changes /\ gcf # "mixed" /\ gcf' = "mixed"
    /\ cohort' = (cohort \/ applied # "mixed")
    /\ UNCHANGED <<policy, user, mail, quiet, sampled, valid, applied, shows, current, debounce,
                   retry, dirty, recovering, turns, batch, ended>>
ApplyLater(meant) ==    \* mutant: the plan stays current until the debounce fires
    /\ applied' = meant /\ Arm("soon")
    /\ UNCHANGED <<current, retry, batch>>
\* _apply_forecast_gcf_policy: the tariff gives itself five minutes, which are more than
\* the 120 seconds of its timer.
Apply(meant) ==
    /\ applied' = meant
    /\ Invalidate /\ Arm(IF Tariff THEN "late" ELSE "soon")
NotArmed ==             \* mutant: a set that means what it meant before arms nothing
    UNCHANGED <<debounce, applied, current, retry, batch>>
\* _schedule_forecast_gcf_recovery_if_pending, which finds it armed after Apply.
ArmIfPending ==
    /\ \/ Tariff /\ ~current /\ Arm("soon")
       \/ ~(Tariff /\ ~current) /\ UNCHANGED debounce
    /\ UNCHANGED <<applied, current, retry, batch>>
GcfComplete ==
    /\ \/ gcf = "mixed" /\ Awaits /\ UNCHANGED counts
       \/ gcf # "mixed" /\ Changes
    /\ gcf' \in Whole \ {gcf}
    /\ cohort' = FALSE
    /\ \/ gcf' # applied /\ Apply(gcf')
       \/ gcf' = applied /\ cohort /\ ArmIfPending
       \/ gcf' = applied /\ ~cohort /\ UNCHANGED <<applied, current, retry, batch, debounce>>
    /\ UNCHANGED <<policy, user, mail, quiet, sampled, valid, shows, dirty, recovering, turns,
                   ended>>
DeadlineKept ==         \* mutant: the handle of the deadline is not dropped when it fires
    /\ Awaits /\ cohort /\ UNCHANGED cohort
    /\ Apply(gcf)
    /\ UNCHANGED <<policy, inputs, mail, shows, dirty, recovering, turns, ended, counts>>
\* Five seconds after the first readback.
GcfDeadline ==
    /\ Awaits /\ cohort /\ cohort' = FALSE
    /\ Apply(gcf)
    /\ UNCHANGED <<policy, inputs, mail, shows, dirty, recovering, turns, ended, counts>>

-----------------------------------------------------------------------------
(* What starts a batch.                                                    *)

\* Five minutes never pass: the timer comes first and cancels the delay.
DebounceFires ==
    /\ Awaits /\ debounce = "soon" /\ debounce' = "none"
    /\ \/ dirty /\ Withdraw /\ Enter("debounced", Moved)
       \/ ~dirty /\ Enter("debounced", batch) /\ UNCHANGED <<current, retry>>
    /\ dirty' = FALSE
    /\ UNCHANGED <<policy, inputs, mail, applied, cohort, shows, recovering, ended, counts>>

\* Every 120 s; that it meets a batch counts as a change.
Timer ==
    /\ Awaits /\ (Idle \/ changes < MaxChanges)
    /\ changes' = IF Idle THEN changes ELSE changes + 1
    /\ debounce' = "none" /\ recovering' = FALSE /\ dirty' = FALSE
    /\ Withdraw /\ Enter("timer", Moved)
    /\ UNCHANGED <<policy, inputs, mail, applied, cohort, shows, ended, errors>>

RetryFires ==
    /\ Awaits /\ retry /\ retry' = FALSE
    /\ Enter("retry", batch)
    /\ UNCHANGED <<policy, inputs, mail, applied, cohort, shows, current, debounce, dirty,
                   recovering, ended, counts>>

\* The recorder's models were read again, a slot begins or a command has settled.
Refresh ==
    /\ Changes
    /\ dirty' \in IF Tariff THEN {dirty} ELSE {dirty, FALSE}
    /\ Withdraw /\ Enter("refresh", Moved)
    /\ UNCHANGED <<policy, inputs, mail, applied, cohort, shows, debounce, recovering, ended>>

NextTurn ==
    /\ batch.try = 0 /\ turns # <<>>
    /\ batch' = Attempt(Head(turns), 1, 0) /\ turns' = Tail(turns)
    /\ UNCHANGED <<policy, inputs, mail, applied, cohort, shows, current, debounce, retry,
                   dirty, recovering, ended, counts>>

-----------------------------------------------------------------------------
(* A batch: _recalculate_and_write, and _recalculate_locked in it.         *)
Unlocked ==             \* with the finally of _async_debounced_recalculate
    /\ batch' = Free
    /\ recovering' = (recovering /\ batch.by # "debounced")

\* An attempt without a result, for the reason `why'; r: the retry is armed after it.
\* After three that inputs drifted away from, the batch arms it, unless it is the retry.
Again(why, r) ==
    LET drifts == batch.drifts + (IF why = "drifted" THEN 1 ELSE 0)
    IN  \/ /\ batch.try < Attempts /\ batch' = Attempt(batch.by, batch.try + 1, drifts)
           /\ retry' = r /\ UNCHANGED <<recovering, ended>>
        \/ /\ batch.try = Attempts /\ Unlocked /\ ended' = why
           /\ retry' = (r \/ (batch.by # "retry" /\ drifts = Attempts))

\* The debounce is for what this result has seen, unless the tariff has a note left.
Commit(shown) ==
    /\ result' = shown /\ current' = TRUE /\ retry' = FALSE
    /\ debounce' = IF Tariff /\ dirty THEN debounce ELSE "none"
    /\ Unlocked /\ ended' = "committed"

Unarmed == UNCHANGED <<policy, inputs, mail, applied, cohort, dirty, turns>>

\* The tariff does not get the evidence of the transaction within half a second.
NoEvidence ==
    /\ Tariff /\ Starting /\ Errs
    /\ current' = FALSE /\ Again("failed", FALSE)
    /\ Unarmed /\ UNCHANGED <<shows, debounce>>
\* The readbacks of GCF may still be a policy.
Blocked ==
    /\ Starting /\ cohort
    /\ \/ Tariff /\ current' = FALSE /\ Again("blocked", FALSE)
       \/ ~Tariff /\ UNCHANGED current /\ Again("blocked", retry)
    /\ Unarmed /\ UNCHANGED <<shows, debounce, counts>>

\* Required inputs are missing: the last plan stays on display for fifteen minutes,
\* or the gap itself is the result.
MissingRetained ==
    /\ Starting /\ ~cohort /\ ~valid /\ result.solved
    /\ current' = FALSE /\ missing' = TRUE /\ UNCHANGED <<result, debounce>>
    /\ Again("missing", retry)
    /\ Unarmed /\ UNCHANGED counts
MissingShown ==
    /\ Starting /\ ~cohort /\ ~valid
    /\ missing' = TRUE /\ Commit([of |-> Snapshot, solved |-> FALSE])
    /\ Unarmed /\ UNCHANGED counts
Solve ==
    /\ Starting /\ ~cohort /\ valid
    /\ batch' = [batch EXCEPT !.solving = TRUE, !.of = Snapshot]
    /\ Unarmed
    /\ UNCHANGED <<shows, current, debounce, retry, recovering, ended, counts>>

\* The solver returns; the evidence of the transaction is awaited again.
NoLateEvidence ==
    /\ batch.solving /\ Errs
    /\ current' = FALSE /\ Again("failed", ~Tariff)
    /\ Unarmed /\ UNCHANGED <<shows, debounce>>
StaleByRevision ==      \* mutant: what has no event is not compared
    batch.moved
\* _reject_stale_executor_result
Stale == batch.moved \/ Guarded(batch.of) # Guarded(Snapshot)
Rejected ==
    /\ batch.solving /\ (Stale \/ ~valid)
    /\ current' = FALSE /\ Again("drifted", FALSE)
    /\ Unarmed /\ UNCHANGED <<shows, debounce, counts>>
\* RCE fixes what the solver selected and checks it on the samples of now.
NotRevalidated ==
    /\ ~Tariff /\ batch.solving /\ ~Stale
    /\ \/ ~valid /\ UNCHANGED counts
       \/ valid /\ Errs
    /\ \/ result.solved /\ UNCHANGED result
       \/ result' = [of |-> Snapshot, solved |-> FALSE]
    /\ current' = FALSE /\ missing' = ~valid /\ Again("failed", retry)
    /\ Unarmed /\ UNCHANGED debounce
Raised ==
    /\ batch.solving /\ ~Stale /\ Errs /\ missing' = FALSE
    /\ \/ result.solved /\ current' = FALSE /\ Again("failed", retry)
          /\ UNCHANGED <<result, debounce>>
       \/ Commit([of |-> Snapshot, solved |-> FALSE])
    /\ Unarmed
Revalidated == IF Tariff THEN batch.of ELSE Snapshot
Published ==
    /\ batch.solving /\ ~Stale /\ (Tariff \/ valid)
    /\ missing' = FALSE /\ Commit([of |-> Revalidated, solved |-> TRUE])
    /\ Unarmed /\ UNCHANGED counts

Inputs == UserChange \/ InputChanged \/ QuietChange \/ SampleChange \/ SharedReady
          \/ InputsLost \/ InputsBack \/ GcfIncomplete \/ GcfComplete \/ GcfDeadline
Starts == DebounceFires \/ Timer \/ RetryFires \/ Refresh \/ NextTurn
BatchStep == NoEvidence \/ Blocked \/ MissingRetained \/ MissingShown \/ Solve
             \/ NoLateEvidence \/ Rejected \/ NotRevalidated \/ Raised \/ Published
PublicationNext == Inputs \/ Starts \/ BatchStep
PublicationSpec == PublicationInit /\ [][PublicationNext]_publicationVars

\* The periodic timer finds the sensor idle, the lock is handed on, and a batch goes
\* on, its cohort wait and its solver being bounded.  The deadline of GCF is due while
\* batches come and go: five seconds against 120.
PublicationFairness ==
    /\ WF_publicationVars(Timer) /\ WF_publicationVars(NextTurn)
    /\ WF_publicationVars(BatchStep) /\ SF_publicationVars(GcfDeadline)

-----------------------------------------------------------------------------
(* A plan that is current knows every change whose event was delivered, and *)
(* GCF as it is, unless its readbacks are being collected.                  *)
CurrentIsFresh ==
    current => /\ result.of.user + mail >= user
               /\ ~cohort => result.of.gcf = gcf

(* What is shown agrees with everything the fingerprint holds at that       *)
(* moment, also the inputs without an event.  The sampled values may have   *)
(* moved under the solver: what RCE shows was revalidated on those of this  *)
(* moment, what the tariff shows has those of the start of the solver.      *)
PublishedOnOneSnapshot ==
    [][result' # result => /\ Guarded(result'.of) = Guarded(Snapshot)
                           /\ ~Tariff => result'.of.sampled = sampled]_publicationVars

(* A tariff plan that gave way to the readbacks of GCF does not wait for    *)
(* the next 120 seconds when they turn out to mean what they meant before:  *)
(* something calculates it or is about to.  The exception is a delay of     *)
(* five minutes that runs because their meaning did change (or they were    *)
(* late): nothing replaces it, so the plan waits for the timer.             *)
Planned == debounce = "soon" \/ batch.try > 0 \/ turns # <<>>
NotLeftWaiting ==
    Tariff /\ ended = "blocked" /\ ~current /\ debounce # "late" => Planned \/ cohort

(* A plan that was withdrawn is replaced by a current result, unless the     *)
(* required inputs are missing: it is not withheld for ever.                *)
Withheld == ~current /\ valid
PlanComesBack == []<>~Withheld
=============================================================================
