------------------------ MODULE PlanPublicationProofs ------------------------
(***************************************************************************)
(* A plan that is current knows every input whose event was delivered; what *)
(* is shown agrees with all that the fingerprint holds, and for RCE with    *)
(* the samples of the moment; and no tariff plan is left waiting for the    *)
(* readbacks of GCF: for any number of changes, errors, waiting batches and *)
(* GCF policies.                                                            *)
(*                                                                         *)
(* The argument: whatever is delivered, and whatever GCF policy is applied, *)
(* withdraws the plan in the same step and moves the revision of a solver   *)
(* that runs; what changes silently differs from the captured inputs.       *)
(***************************************************************************)
EXTENDS PlanPublication, TLAPS

\* What the proofs need of the types.
Fields(b) == [by |-> b.by, try |-> b.try, drifts |-> b.drifts, solving |-> b.solving,
              moved |-> b.moved, of |-> b.of]
Typed ==
    /\ user \in Nat /\ mail \in Nat /\ result.of.user \in Nat
    /\ batch = Fields(batch)

\* The policy of GCF that was applied is the one its readbacks mean, unless they are
\* being collected.
GcfApplied == ~cohort => applied = gcf
\* A solver whose revision is current has captured it,
SolverKnows == batch.solving /\ ~batch.moved => batch.of.gcf = applied
\* and a current result was made of it, and of every helper's value that was delivered.
ResultKnows ==
    current => result.of.gcf = applied /\ result.of.user + mail >= user
KnowsInv == Typed /\ GcfApplied /\ SolverKnows /\ ResultKnows

LEMMA KnowsInit == PublicationInit => KnowsInv
<1> SUFFICES ASSUME PublicationInit PROVE KnowsInv
    OBVIOUS
<1>1. Typed
  BY DEF PublicationInit, Typed, Fields, Attempt, NoSnapshot
<1>2. GcfApplied /\ SolverKnows /\ ResultKnows
  BY DEF PublicationInit, GcfApplied, SolverKnows, ResultKnows, Attempt
<1> QED
  BY <1>1, <1>2 DEF KnowsInv

-----------------------------------------------------------------------------
(* What a step may do with the batch and the result.                       *)


LEMMA SameLead ==
    ASSUME NEW k \in Nat, NEW m \in Nat, NEW n \in Nat, NEW u \in Nat, NEW v \in Nat,
           v - n = u - m, k + m >= u
    PROVE  k + n >= v
OBVIOUS

\* Nothing becomes current: the result is withdrawn, or stays and no input of it moved.
\* The batch stays, or does not solve, or its revision moved on.
LEMMA NothingShown ==
    ASSUME KnowsInv, Typed', GcfApplied',
           \/ ~batch'.solving \/ batch'.moved
           \/ batch' = batch /\ applied' = applied,
           \/ current' = FALSE
           \/ /\ current' = current /\ result'.of = result.of /\ applied' = applied
              /\ user' - mail' = user - mail
    PROVE  KnowsInv'
<1>1. SolverKnows'
  BY DEF KnowsInv, SolverKnows
<1>2. ASSUME current' PROVE result'.of.gcf = applied' /\ result'.of.user + mail' >= user'
  <2>1. /\ result'.of = result.of /\ result.of.gcf = applied /\ applied' = applied
        /\ user' - mail' = user - mail /\ result.of.user + mail >= user
    <3>1. current /\ result'.of = result.of /\ applied' = applied
          /\ user' - mail' = user - mail
      BY <1>2
    <3> QED
      BY <3>1 DEF KnowsInv, ResultKnows
  <2>2. /\ user \in Nat /\ mail \in Nat /\ user' \in Nat /\ mail' \in Nat
        /\ result.of.user \in Nat
    BY DEF KnowsInv, Typed
  <2>3. result.of.user + mail' >= user'
    BY <2>1, <2>2, SameLead
  <2>4. result'.of.gcf = applied' /\ result'.of.user = result.of.user
    BY <2>1
  <2> QED
    BY <2>3, <2>4
<1> QED
  BY <1>1, <1>2 DEF KnowsInv, ResultKnows

\* Snapshots that agree in what the fingerprint holds agree in its parts.
LEMMA GuardedParts ==
    ASSUME NEW s, NEW t, Guarded(s) = Guarded(t)
    PROVE  s.user = t.user /\ s.quiet = t.quiet /\ s.gcf = t.gcf
BY DEF Guarded

\* A step that changes neither the inputs nor the applied policy keeps the types and
\* the policy, as long as the batch it leaves has the fields of one.
LEMMA InputsStay ==
    ASSUME KnowsInv, UNCHANGED <<inputs, mail, applied, cohort>>,
           result'.of = result.of \/ Guarded(result'.of) = Guarded(Snapshot),
           batch' = Fields(batch')
    PROVE  Typed' /\ GcfApplied'
<1>1. Guarded(result'.of) = Guarded(Snapshot) => result'.of.user = user
  BY GuardedParts DEF Snapshot
<1> QED
  BY <1>1 DEF KnowsInv, Typed, GcfApplied, inputs

\* A batch whose revision moved on, a new one, and one that enters.
LEMMA MovedBatch ==
    ASSUME Typed
    PROVE  Moved = Fields(Moved) /\ (~Moved.solving \/ Moved.moved)
BY DEF Typed, Fields, Moved
LEMMA NewBatch ==
    ASSUME NEW by, NEW try, NEW drifts
    PROVE  /\ Attempt(by, try, drifts) = Fields(Attempt(by, try, drifts))
           /\ ~Attempt(by, try, drifts).solving
BY DEF Attempt, Fields
LEMMA EnterBatch ==
    ASSUME Typed, NEW by, NEW busy \in {batch, Moved}, Enter(by, busy)
    PROVE  /\ batch' = Fields(batch')
           /\ ~batch'.solving \/ batch'.moved \/ batch' = batch
BY MovedBatch, NewBatch DEF Enter, Typed
LEMMA AgainBatch ==
    ASSUME NEW why, NEW r, Again(why, r)
    PROVE  batch' = Fields(batch') /\ ~batch'.solving
BY NewBatch DEF Again, Unlocked, Free

-----------------------------------------------------------------------------
(* The inputs.                                                             *)
LEMMA InputsKnow ==
    ASSUME KnowsInv, Inputs
    PROVE  KnowsInv'
<1> USE DEF inputs, shows, counts
<1>1. CASE UserChange
  <2>1. Typed' /\ GcfApplied'
    BY <1>1 DEF UserChange, KnowsInv, Typed, Fields, GcfApplied
  <2>2. user' - mail' = user - mail
    BY <1>1 DEF UserChange, KnowsInv, Typed
  <2> QED
    BY <1>1, <2>1, <2>2, NothingShown DEF UserChange
<1>2. CASE InputChanged
  <2>1. batch' = Moved /\ current' = FALSE
    BY <1>2 DEF InputChanged, Invalidate, Withdraw
  <2>2. Typed' /\ GcfApplied'
    BY <1>2, <2>1, MovedBatch DEF InputChanged, KnowsInv, Typed, GcfApplied
  <2> QED
    BY <2>1, <2>2, MovedBatch, NothingShown DEF KnowsInv
<1>3. CASE QuietChange \/ SampleChange \/ SharedReady \/ InputsBack
  <2>1. \/ UNCHANGED <<current, batch>>
        \/ current' = FALSE /\ batch' = Moved
    BY <1>3 DEF QuietChange, SampleChange, SharedReady, InputsBack, Noted, Recover, Invalidate,
                Withdraw
  <2>2. UNCHANGED <<user, mail, gcf, applied, cohort, result>>
    BY <1>3 DEF QuietChange, SampleChange, SharedReady, InputsBack
  <2>3. Typed' /\ GcfApplied'
    BY <2>1, <2>2, MovedBatch DEF KnowsInv, Typed, GcfApplied
  <2> QED
    BY <2>1, <2>2, <2>3, MovedBatch, NothingShown DEF KnowsInv
<1>4. CASE InputsLost
  <2>1. Typed' /\ GcfApplied'
    BY <1>4 DEF InputsLost, KnowsInv, Typed, GcfApplied
  <2> QED
    BY <1>4, <2>1, NothingShown DEF InputsLost
<1>5. CASE GcfIncomplete
  <2>1. Typed' /\ GcfApplied'
    BY <1>5 DEF GcfIncomplete, KnowsInv, Typed, GcfApplied
  <2> QED
    BY <1>5, <2>1, NothingShown DEF GcfIncomplete
<1>6. CASE GcfComplete \/ GcfDeadline
  <2>1. \/ UNCHANGED <<applied, current, batch>>
        \/ current' = FALSE /\ batch' = Moved
    BY <1>6 DEF GcfComplete, GcfDeadline, Apply, ArmIfPending, Invalidate, Withdraw
  <2>2. UNCHANGED <<user, mail, result>> /\ applied' = gcf'
    BY <1>6 DEF GcfComplete, GcfDeadline, Apply, ArmIfPending
  <2>3. Typed' /\ GcfApplied'
    BY <2>1, <2>2, MovedBatch DEF KnowsInv, Typed, GcfApplied
  <2> QED
    BY <2>1, <2>2, <2>3, MovedBatch, NothingShown DEF KnowsInv
<1> QED
  BY <1>1, <1>2, <1>3, <1>4, <1>5, <1>6 DEF Inputs

-----------------------------------------------------------------------------
(* What starts a batch.                                                    *)
LEMMA StartsKnow ==
    ASSUME KnowsInv, Starts
    PROVE  KnowsInv'
<1> USE DEF shows
<1>1. UNCHANGED <<inputs, mail, applied, cohort, shows>>
  BY DEF Starts, DebounceFires, Timer, RetryFires, Refresh, NextTurn
<1>2. batch' = Fields(batch') /\ (~batch'.solving \/ batch'.moved \/ batch' = batch)
  <2>1. CASE DebounceFires
    BY <2>1, EnterBatch DEF DebounceFires, KnowsInv
  <2>2. CASE Timer \/ Refresh
    BY <2>2, EnterBatch DEF Timer, Refresh, KnowsInv
  <2>3. CASE RetryFires
    BY <2>3, EnterBatch DEF RetryFires, KnowsInv
  <2>4. CASE NextTurn
    BY <2>4, NewBatch DEF NextTurn
  <2> QED
    BY <2>1, <2>2, <2>3, <2>4 DEF Starts
<1>3. current' \in {current, FALSE}
  BY DEF Starts, DebounceFires, Timer, RetryFires, Refresh, NextTurn, Withdraw
<1>4. Typed' /\ GcfApplied'
  BY <1>1, <1>2, InputsStay
<1> QED
  BY <1>1, <1>2, <1>3, <1>4, NothingShown DEF inputs

-----------------------------------------------------------------------------
(* A batch.                                                                *)

\* What is shown at the end of a batch was made of the inputs as they are, and these
\* include the GCF policy that was applied.
LEMMA CommitKnows ==
    ASSUME KnowsInv, NEW shown, Commit(shown), Guarded(shown.of) = Guarded(Snapshot),
           gcf = applied, UNCHANGED <<inputs, mail, applied, cohort>>
    PROVE  KnowsInv'
<1>1. batch' = Fields(batch') /\ ~batch'.solving /\ result' = shown
  BY NewBatch DEF Commit, Unlocked, Free
<1>2. Typed' /\ GcfApplied'
  BY <1>1, InputsStay
<1>3. SolverKnows'
  BY <1>1 DEF SolverKnows
<1>4. result'.of.gcf = applied' /\ result'.of.user = user
  BY <1>1, GuardedParts DEF Snapshot
<1>5. ResultKnows'
  BY <1>4 DEF ResultKnows, KnowsInv, Typed, inputs
<1> QED
  BY <1>2, <1>3, <1>5 DEF KnowsInv

\* A solver that is not stale has the applied GCF policy as well.
LEMMA NotStale ==
    ASSUME KnowsInv, batch.solving, ~Stale
    PROVE  Guarded(batch.of) = Guarded(Snapshot) /\ gcf = applied
<1>1. Guarded(batch.of) = Guarded(Snapshot) /\ ~batch.moved
  BY DEF Stale
<1> QED
  BY <1>1, GuardedParts DEF KnowsInv, SolverKnows, Snapshot

LEMMA BatchKnows ==
    ASSUME KnowsInv, BatchStep
    PROVE  KnowsInv'
<1>1. UNCHANGED <<inputs, mail, applied, cohort>>
  BY DEF BatchStep, NoEvidence, Blocked, MissingRetained, MissingShown, Solve, NoLateEvidence,
         Rejected, NotRevalidated, Raised, Published, Unarmed
<1> USE DEF shows
<1>2. ASSUME NEW why, NEW r, Again(why, r), current' = FALSE,
             result'.of \in {result.of, Snapshot}
      PROVE  KnowsInv'
  <2>1. batch' = Fields(batch') /\ ~batch'.solving
    BY <1>2, AgainBatch
  <2>2. Typed' /\ GcfApplied'
    BY <1>1, <1>2, <2>1, InputsStay
  <2> QED
    BY <1>2, <2>1, <2>2, NothingShown
<1>3. CASE NoEvidence \/ NoLateEvidence \/ Rejected \/ MissingRetained \/ NotRevalidated
  <2>1. current' = FALSE /\ (result' = result \/ result'.of = Snapshot)
    <3>1. CASE NotRevalidated
      BY <3>1 DEF NotRevalidated
    <3>2. CASE NoEvidence \/ NoLateEvidence \/ Rejected \/ MissingRetained
      BY <3>2 DEF NoEvidence, NoLateEvidence, Rejected, MissingRetained
    <3> QED
      BY <1>3, <3>1, <3>2
  <2>2. \E why, r : Again(why, r)
    BY <1>3, Zenon DEF NoEvidence, NoLateEvidence, Rejected, MissingRetained, NotRevalidated
  <2> QED
    BY <1>2, <2>1, <2>2
<1>4. CASE Blocked
  <2>1. \/ current' = FALSE /\ Again("blocked", FALSE)
        \/ current' = current /\ Again("blocked", retry)
    BY <1>4 DEF Blocked
  <2>2. result' = result /\ batch' = Fields(batch') /\ ~batch'.solving
    BY <1>4, <2>1, AgainBatch DEF Blocked
  <2>3. Typed' /\ GcfApplied'
    BY <1>1, <2>2, InputsStay
  <2> QED
    BY <1>1, <2>1, <2>2, <2>3, NothingShown DEF inputs
<1>5. CASE MissingShown
  <2>1. gcf = applied
    BY <1>5 DEF MissingShown, KnowsInv, GcfApplied
  <2> QED
    BY <1>1, <1>5, <2>1, CommitKnows DEF MissingShown
<1>6. CASE Solve
  <2>1. /\ batch' = [batch EXCEPT !.solving = TRUE, !.of = Snapshot]
        /\ result' = result /\ current' = current /\ ~cohort
    BY <1>6 DEF Solve
  <2>2. batch' = Fields(batch') /\ batch'.of = Snapshot
    BY <2>1 DEF KnowsInv, Typed, Fields
  <2>3. Typed' /\ GcfApplied'
    BY <1>1, <2>1, <2>2, InputsStay
  <2>4. SolverKnows'
    BY <1>1, <2>1, <2>2 DEF SolverKnows, Snapshot, KnowsInv, GcfApplied
  <2>5. ResultKnows'
    BY <1>1, <2>1 DEF ResultKnows, KnowsInv, inputs
  <2> QED
    BY <2>3, <2>4, <2>5 DEF KnowsInv
<1>7. CASE Raised
  <2>1. CASE result.solved /\ current' = FALSE /\ Again("failed", retry) /\ result' = result
    BY <1>2, <2>1
  <2>2. CASE Commit([of |-> Snapshot, solved |-> FALSE])
    BY <1>1, <1>7, <2>2, NotStale, CommitKnows DEF Raised
  <2> QED
    BY <1>7, <2>1, <2>2 DEF Raised
<1>8. CASE Published
  <2>1. Guarded(Revalidated) = Guarded(Snapshot) /\ gcf = applied
    BY <1>8, NotStale DEF Published, Revalidated
  <2> QED
    BY <1>1, <1>8, <2>1, CommitKnows DEF Published
<1> QED
  BY <1>3, <1>4, <1>5, <1>6, <1>7, <1>8 DEF BatchStep

-----------------------------------------------------------------------------
\* KnowsInv holds of every behaviour.
THEOREM AlwaysKnows == PublicationSpec => []KnowsInv
<1>1. KnowsInv /\ [PublicationNext]_publicationVars => KnowsInv'
  <2> SUFFICES ASSUME KnowsInv, [PublicationNext]_publicationVars
               PROVE  KnowsInv'
      OBVIOUS
  <2>1. CASE PublicationNext
    BY <2>1, InputsKnow, StartsKnow, BatchKnows DEF PublicationNext
  <2>2. CASE UNCHANGED publicationVars
    BY <2>2 DEF publicationVars, inputs, shows, KnowsInv, Typed, Fields, GcfApplied,
                SolverKnows, ResultKnows
  <2> QED
    BY <2>1, <2>2
<1> QED
  BY KnowsInit, <1>1, PTL DEF PublicationSpec

\* A plan that is current knows every input whose event was delivered, and GCF as it is
\* unless its readbacks are being collected.
THEOREM AlwaysFresh == PublicationSpec => []CurrentIsFresh
<1>1. KnowsInv => CurrentIsFresh
  BY DEF KnowsInv, ResultKnows, GcfApplied, CurrentIsFresh
<1> QED
  BY AlwaysKnows, <1>1, PTL

\* What is shown agrees with all that the fingerprint holds at that moment; the samples
\* of what RCE shows are those of the moment as well.
THEOREM OneSnapshot == PublicationSpec => PublishedOnOneSnapshot
<1>1. KnowsInv /\ [PublicationNext]_publicationVars
        => [result' # result => /\ Guarded(result'.of) = Guarded(Snapshot)
                                /\ ~Tariff => result'.of.sampled = sampled]_publicationVars
  <2> SUFFICES ASSUME KnowsInv, PublicationNext, result' # result
               PROVE  /\ Guarded(result'.of) = Guarded(Snapshot)
                      /\ ~Tariff => result'.of.sampled = sampled
      OBVIOUS
  <2>1. BatchStep
    BY DEF PublicationNext, Inputs, Starts, UserChange, InputChanged, QuietChange, SampleChange,
           SharedReady, InputsLost, InputsBack, GcfIncomplete, GcfComplete, GcfDeadline,
           DebounceFires, Timer, RetryFires, Refresh, NextTurn, shows
  <2>2. CASE MissingShown
    BY <2>2 DEF MissingShown, Commit, Snapshot
  <2>3. CASE NotRevalidated
    BY <2>3 DEF NotRevalidated, Snapshot
  <2>4. CASE Raised
    BY <2>4 DEF Raised, Commit, Snapshot
  <2>5. CASE Published
    <3>1. result'.of = Revalidated
      BY <2>5 DEF Published, Commit
    <3>2. Guarded(batch.of) = Guarded(Snapshot)
      BY <2>5, NotStale DEF Published
    <3> QED
      BY <3>1, <3>2 DEF Revalidated, Snapshot
  <2> QED
    BY <2>1, <2>2, <2>3, <2>4, <2>5
       DEF BatchStep, NoEvidence, Blocked, MissingRetained, Solve, NoLateEvidence, Rejected,
           shows
<1> QED
  BY AlwaysKnows, <1>1, PTL DEF PublicationSpec, PublishedOnOneSnapshot

-----------------------------------------------------------------------------
(* No wake-up is lost: a step that ends what a withdrawn tariff plan waits  *)
(* for leaves something else to wait for.                                  *)
QueueTyped == turns \in Seq(Triggers) /\ batch.try \in Nat /\ debounce \in Delays /\ Typed
WaitInv == QueueTyped /\ NotLeftWaiting

LEMMA QueueInit == PublicationInit => QueueTyped
<1>1. PublicationInit => Typed
  BY KnowsInit DEF KnowsInv
<1> QED
  BY <1>1 DEF PublicationInit, QueueTyped, Attempt, Triggers, Delays

\* The debounce is off, or armed for seconds or for five minutes.
LEMMA DelaysStay ==
    ASSUME debounce \in Delays, PublicationNext
    PROVE  debounce' \in Delays
<1>1. CASE Inputs
  BY <1>1 DEF Inputs, UserChange, InputChanged, QuietChange, SampleChange, SharedReady, InputsLost,
     InputsBack, GcfIncomplete, GcfComplete, GcfDeadline, Noted, Recover, Apply, ArmIfPending,
     Arm, Rearm, Delays
<1>2. CASE Starts
  BY <1>2 DEF Starts, DebounceFires, Timer, RetryFires, Refresh, NextTurn, Delays
<1>3. CASE BatchStep
  BY <1>3 DEF BatchStep, NoEvidence, Blocked, MissingRetained, MissingShown, Solve,
     NoLateEvidence, Rejected, NotRevalidated, Raised, Published, Commit, Delays
<1> QED
  BY <1>1, <1>2, <1>3 DEF PublicationNext

LEMMA MovedTry ==
    ASSUME Typed
    PROVE  Moved.try = batch.try
BY DEF Typed, Fields, Moved

\* Whoever enters has the lock or waits for it.
LEMMA Entered ==
    ASSUME QueueTyped, NEW by \in Triggers, NEW busy \in {batch, Moved}, Enter(by, busy)
    PROVE  /\ turns' \in Seq(Triggers) /\ batch'.try \in Nat
           /\ batch'.try > 0 \/ turns' # <<>>
<1>1. busy.try = batch.try
  BY MovedTry DEF QueueTyped
<1>2. CASE Idle /\ batch' = Attempt(by, 1, 0) /\ UNCHANGED turns
  BY <1>2 DEF Attempt, QueueTyped
<1>3. CASE turns' = Append(turns, by) /\ batch' = busy
  <2>1. turns' \in Seq(Triggers) /\ turns' # <<>>
    BY <1>3 DEF QueueTyped
  <2> QED
    BY <1>1, <1>3, <2>1 DEF QueueTyped
<1> QED
  BY <1>2, <1>3 DEF Enter

\* Whatever an input does, a delay of seconds that runs goes on or is replaced by one.
LEMMA QueueInputs ==
    ASSUME WaitInv, Inputs
    PROVE  turns' \in Seq(Triggers) /\ batch'.try \in Nat /\ NotLeftWaiting'
<1>1. turns' = turns /\ ended' = ended /\ policy' = policy
  BY DEF Inputs, UserChange, InputChanged, QuietChange, SampleChange, SharedReady, InputsLost,
         InputsBack, GcfIncomplete, GcfComplete, GcfDeadline
<1>2. batch'.try = batch.try
  BY MovedTry DEF Inputs, UserChange, InputChanged, QuietChange, SampleChange, SharedReady,
     InputsLost, InputsBack, GcfIncomplete, GcfComplete, GcfDeadline, Noted, Recover, Apply,
     ArmIfPending, Invalidate, WaitInv, QueueTyped
<1>3. debounce \in Delays
  BY DEF WaitInv, QueueTyped
<1>4. ASSUME debounce' # "none", debounce' \in Delays
      PROVE  NotLeftWaiting'
  BY <1>4 DEF NotLeftWaiting, Planned, Delays
<1>5. ASSUME UNCHANGED <<current, debounce>>, cohort => cohort'
      PROVE  NotLeftWaiting'
  BY <1>1, <1>2, <1>5 DEF NotLeftWaiting, Planned, WaitInv, QueueTyped, Tariff
<1>6. CASE InputChanged \/ GcfDeadline
  <2>1. debounce' # "none" /\ debounce' \in Delays
    BY <1>3, <1>6 DEF InputChanged, GcfDeadline, Apply, Arm, Delays
  <2> QED
    BY <1>1, <1>2, <1>4, <2>1 DEF WaitInv, QueueTyped
<1>7. CASE UserChange \/ InputsLost \/ GcfIncomplete
  <2>1. UNCHANGED <<current, debounce>>
    BY <1>7 DEF UserChange, InputsLost, GcfIncomplete
  <2>2. cohort => cohort'
    BY <1>7, Zenon DEF UserChange, InputsLost, GcfIncomplete
  <2> QED
    BY <1>1, <1>2, <1>5, <2>1, <2>2 DEF WaitInv, QueueTyped
<1>8. CASE QuietChange \/ SampleChange \/ SharedReady \/ InputsBack
  <2>1. \/ debounce' # "none" /\ debounce' \in Delays
        \/ UNCHANGED <<current, debounce, cohort>>
    BY <1>3, <1>8 DEF QuietChange, SampleChange, SharedReady, InputsBack, Noted, Recover, Arm,
                      Rearm, Delays
  <2> QED
    BY <1>1, <1>2, <1>4, <1>5, <2>1 DEF WaitInv, QueueTyped
<1>9. CASE GcfComplete
  <2>1. CASE Apply(gcf')
    <3>1. debounce' # "none" /\ debounce' \in Delays
      BY <1>3, <2>1 DEF Apply, Arm, Delays
    <3> QED
      BY <1>1, <1>2, <1>4, <3>1 DEF WaitInv, QueueTyped
  <2>2. CASE ArmIfPending
    <3>1. CASE Tariff /\ ~current
      <4>1. debounce' # "none" /\ debounce' \in Delays
        BY <1>3, <2>2, <3>1 DEF ArmIfPending, Arm, Delays
      <4> QED
        BY <1>1, <1>2, <1>4, <4>1 DEF WaitInv, QueueTyped
    <3>2. CASE ~(Tariff /\ ~current)
      BY <1>1, <1>2, <2>2, <3>2 DEF NotLeftWaiting, WaitInv, QueueTyped, ArmIfPending, Tariff
    <3> QED
      BY <3>1, <3>2
  <2>3. CASE ~cohort /\ UNCHANGED <<applied, current, retry, batch, debounce>>
    BY <1>1, <1>2, <1>5, <2>3 DEF WaitInv, QueueTyped
  <2> QED
    BY <1>9, <2>1, <2>2, <2>3 DEF GcfComplete
<1> QED
  BY <1>6, <1>7, <1>8, <1>9 DEF Inputs

LEMMA QueueStarts ==
    ASSUME WaitInv, Starts
    PROVE  turns' \in Seq(Triggers) /\ batch'.try \in Nat /\ NotLeftWaiting'
<1>1. CASE DebounceFires \/ Timer \/ RetryFires \/ Refresh
  <2>1. \E by \in Triggers, busy \in {batch, Moved} : Enter(by, busy)
    BY <1>1 DEF DebounceFires, Timer, RetryFires, Refresh, Triggers
  <2> QED
    BY <2>1, Entered DEF WaitInv, NotLeftWaiting, Planned
<1>2. CASE NextTurn
  <2>1. turns' \in Seq(Triggers) /\ batch'.try = 1
    BY <1>2 DEF NextTurn, WaitInv, QueueTyped, Attempt
  <2> QED
    BY <2>1 DEF NotLeftWaiting, Planned
<1> QED
  BY <1>1, <1>2 DEF Starts

LEMMA QueueBatch ==
    ASSUME WaitInv, BatchStep
    PROVE  turns' \in Seq(Triggers) /\ batch'.try \in Nat /\ NotLeftWaiting'
<1>1. turns' = turns /\ cohort' = cohort
  BY DEF BatchStep, NoEvidence, Blocked, MissingRetained, MissingShown, Solve, NoLateEvidence,
         Rejected, NotRevalidated, Raised, Published, Unarmed
<1>2. ASSUME NEW why, NEW r, Again(why, r), why # "blocked" \/ cohort
      PROVE  turns' \in Seq(Triggers) /\ batch'.try \in Nat /\ NotLeftWaiting'
  <2>1. CASE batch'.try > 0 /\ batch'.try \in Nat
    BY <1>1, <2>1 DEF NotLeftWaiting, Planned, WaitInv, QueueTyped
  <2>2. CASE batch'.try = 0 /\ ended' = why
    BY <1>1, <1>2, <2>2 DEF NotLeftWaiting, Planned, WaitInv, QueueTyped
  <2> QED
    BY <1>2, <2>1, <2>2 DEF Again, Unlocked, Free, Attempt, WaitInv, QueueTyped
<1>3. ASSUME NEW shown, Commit(shown)
      PROVE  turns' \in Seq(Triggers) /\ batch'.try \in Nat /\ NotLeftWaiting'
  BY <1>1, <1>3 DEF Commit, Unlocked, Free, Attempt, NotLeftWaiting, WaitInv, QueueTyped
<1>4. CASE Solve
  <2>1. batch'.try = batch.try /\ batch.try > 0
    BY <1>4 DEF Solve, Starting, WaitInv, QueueTyped, Typed, Fields
  <2> QED
    BY <1>1, <2>1 DEF NotLeftWaiting, Planned, WaitInv, QueueTyped
<1>5. CASE Blocked
  BY <1>2, <1>5 DEF Blocked
<1>6. CASE MissingShown \/ Published
  BY <1>3, <1>6 DEF MissingShown, Published
<1>7. CASE NoEvidence \/ NoLateEvidence \/ Rejected \/ MissingRetained \/ NotRevalidated
  <2>1. \E why \in {"failed", "drifted", "missing"} : \E r : Again(why, r)
    BY <1>7, Zenon DEF NoEvidence, NoLateEvidence, Rejected, MissingRetained, NotRevalidated
  <2> QED
    BY <1>2, <2>1
<1>8. CASE Raised
  <2>1. CASE Again("failed", retry)
    BY <1>2, <2>1
  <2>2. CASE Commit([of |-> Snapshot, solved |-> FALSE])
    BY <1>3, <2>2
  <2> QED
    BY <1>8, <2>1, <2>2 DEF Raised
<1> QED
  BY <1>4, <1>5, <1>6, <1>7, <1>8 DEF BatchStep

\* A tariff plan that gave way to the readbacks of GCF does not wait for the next 120
\* seconds, unless a delay of five minutes runs because their meaning changed.
THEOREM NeverLeftWaiting == PublicationSpec => []NotLeftWaiting
<1>1. PublicationInit => WaitInv
  BY QueueInit DEF PublicationInit, WaitInv, NotLeftWaiting
<1>2. KnowsInv /\ KnowsInv' /\ WaitInv /\ [PublicationNext]_publicationVars => WaitInv'
  <2> SUFFICES ASSUME KnowsInv', WaitInv, [PublicationNext]_publicationVars
               PROVE  WaitInv'
      OBVIOUS
  <2>1. Typed'
    BY DEF KnowsInv
  <2>2. CASE PublicationNext
    BY <2>1, <2>2, QueueInputs, QueueStarts, QueueBatch, DelaysStay
       DEF PublicationNext, WaitInv, QueueTyped
  <2>3. CASE UNCHANGED publicationVars
    BY <2>1, <2>3 DEF publicationVars, WaitInv, QueueTyped, NotLeftWaiting, Planned, Tariff
  <2> QED
    BY <2>2, <2>3
<1>3. WaitInv => NotLeftWaiting
  BY DEF WaitInv
<1> QED
  BY <1>1, <1>2, <1>3, AlwaysKnows, PTL DEF PublicationSpec
=============================================================================
