-------------------------- MODULE SupervisorExecutor --------------------------
(***************************************************************************)
(* The record of the executor (supervisor_executor.py) and its operations,  *)
(* as pure operators: what each method makes of the record and of the last  *)
(* reading Home Assistant holds.  SupervisorController drives them.         *)
(*                                                                         *)
(* Generations and receipt times are kept relative to that reading: a       *)
(* snapshot is "same" until a newer reading is received, "newer" (there is  *)
(* one) from then on, and "lost" once the firmware has restarted and counts *)
(* its generations from 1 again, so that no reading compares as newer.  A   *)
(* deadline, a stale input or a closed gate may be found at any step.  One  *)
(* register family is written, the block 4300-4306; one block stands for    *)
(* the mode Off-Grid, its other registers already those of the base.        *)
(***************************************************************************)
EXTENDS Naturals

CONSTANTS
    SelfUse,     \* blocks with mode 0
    Forced,      \* blocks with mode 4 or 5
    OffGrid,     \* the block read while the user runs off the grid
    None

Blocks == SelfUse \cup Forced \cup {OffGrid}
ASSUME ExecutorBlocks ==
    /\ SelfUse # {} /\ SelfUse \cap Forced = {}
    /\ OffGrid \notin SelfUse \cup Forced /\ None \notin Blocks

Ages == {"same", "newer", "lost"}
Snapshots == [b : Blocks, age : Ages]
States == {"idle", "selected", "starting", "waiting", "executing", "retargeting",
           "stopping", "restoring", "blocked", "fault"}
Transactions ==
    [st : States, own : {"none", "auto", "manual"}, b : Blocks, base : Blocks,
     pre : Snapshots \cup {None},      \* prewrite_snapshot
     sent : Ages \cup {"no"},          \* command_sent_at
     ack : BOOLEAN,                    \* readback_result is CONFIRMED
     rb : {"pending", "failed"},       \* rollback_status
     rcmd : BOOLEAN,                   \* restore_command
     rsnap : Snapshots \cup {None},    \* restore_snapshot
     moved : BOOLEAN,                  \* rsnap is no longer the expected base
     rsent : Ages \cup {"no"},         \* restore_sent_at
     att : 0..2,                       \* restore_attempts
     refused : 0..2,                   \* restore_not_queued_count
     lid : Nat,                        \* lease_identity: its arm, 0 for none
     master : BOOLEAN]                 \* master_stop_requested
ASSUME NoTransaction == None \notin Transactions
Records ==
    [st : States, tx : Transactions \cup {None},
     allowed : BOOLEAN,    \* starts_allowed and automatic_policies_enabled
     mst : {"no", "running", "completed", "blocked", "failed"},
     held : BOOLEAN]       \* reason is COMMAND_NOT_QUEUED

IdleRecord == [st |-> "idle", tx |-> None, allowed |-> TRUE, mst |-> "no", held |-> FALSE]

Snap(v) == [b |-> v, age |-> "same"]

\* A transaction that owns nothing is known by the block it wants.
Unowned(st, b) ==
    [st |-> st, own |-> "none", b |-> b, base |-> b, pre |-> None, sent |-> "no",
     ack |-> FALSE, rb |-> "pending", rcmd |-> FALSE, rsnap |-> None, moved |-> FALSE,
     rsent |-> "no", att |-> 0, refused |-> 0, lid |-> 0, master |-> FALSE]

Owned(r) == r.tx # None /\ r.tx.own # "none"

\* A newer reading was received, or the first one of a restarted firmware.
Aged(a, boot) == IF a \in {"no", "lost"} THEN a ELSE IF boot THEN "lost" ELSE "newer"
AgedSnap(s, boot) == IF s = None THEN None ELSE [s EXCEPT !.age = Aged(@, boot)]
AgedTx(t, boot) ==
    IF t = None THEN None
    ELSE [t EXCEPT !.pre = AgedSnap(@, boot), !.rsnap = AgedSnap(@, boot),
                   !.sent = Aged(@, boot), !.rsent = Aged(@, boot)]

\* _publish: the record and its transaction change state together.
Publish(r, st, t) ==
    [r EXCEPT !.st = st, !.tx = [t EXCEPT !.st = st], !.held = FALSE]
Blocked(r) == Publish(r, "blocked", Unowned("blocked", r.tx.b))
Fault(r, t) == Publish(r, "fault", [t EXCEPT !.rb = "pending"])
Finished(r) ==
    [r EXCEPT !.st = "idle", !.tx = None, !.held = FALSE,
              !.mst = IF r.tx.master THEN "completed" ELSE @]

\* What _validate_record refuses to store.
Valid(r) ==
    IF r.tx = None THEN r.st \in {"idle", "blocked"}
    ELSE /\ r.st # "idle" /\ r.tx.st = r.st
         /\ (r.tx.own = "none") = (r.st \in {"selected", "blocked"})
         /\ r.st = "waiting" => r.tx.sent # "no"
         /\ r.st = "retargeting" => r.tx.pre # None /\ r.tx.own = "auto"
         /\ r.st = "executing" => r.tx.ack
         /\ r.st = "restoring" =>
              r.tx.rcmd /\ r.tx.rsnap # None /\ r.tx.rsent # "no" /\ r.tx.att >= 1

-----------------------------------------------------------------------------
(* Start. *)

SelectIntent(r, b) ==
    IF r.allowed THEN Publish(r, "selected", Unowned("selected", b))
                 ELSE Publish(r, "blocked", Unowned("blocked", b))

\* start: gates, freshness and the deadline may always refuse.
StartOn(r, v) ==
    {Blocked(r)} \cup
    IF v = OffGrid THEN {}
    ELSE {Publish(r, "starting", [r.tx EXCEPT !.own = "auto", !.base = v])}

\* prepare_command: the base is still there and the cohort is the prepared one.
PrewriteOk(t, v) == v = t.base /\ (t.pre # None => t.pre.age = "same")
Prepared(r, v) == [r EXCEPT !.tx.pre = Snap(v)]
PrepareCommand(r, v) ==
    {Blocked(r)} \cup IF PrewriteOk(r.tx, v) THEN {Prepared(r, v)} ELSE {}

\* defer_pv_start_before_dispatch
Deferred(r) == [r EXCEPT !.tx.pre = None]

\* reprepare_unsent_start, after a proven refusal: a newer reading of the base.
Reprepare(r, v) ==
    {Blocked(r)} \cup
    IF r.tx.pre.age = "newer" /\ v = r.tx.base THEN {Prepared(r, v)} ELSE {}

\* mark_command_sent and mark_retarget_sent; a fault when past the deadline.
MarkSent(r, lid) ==
    LET t == [r.tx EXCEPT !.sent = "same", !.lid = lid] IN
    {Publish(r, IF r.st = "starting" THEN "waiting" ELSE r.st, t), Fault(r, t)}

OutcomeUnknown(r) == Fault(r, r.tx)

-----------------------------------------------------------------------------
(* Acknowledgement, execution, retarget, stop. *)

Contradicted(r) == Fault(r, [r.tx EXCEPT !.ack = FALSE])

\* observe_readback
ObserveReadback(r, v) ==
    LET t == r.tx IN
    {Fault(r, t)} \cup
    IF t.sent # "newer" THEN {r}
    ELSE IF v = t.b THEN {[r EXCEPT !.tx.ack = TRUE]}
    ELSE IF ~t.ack /\ v = t.pre.b THEN {r}
    ELSE {Contradicted(r)}

\* observe_physical_verification, of a readback that is confirmed
ObservePhysical(r) == {r, Fault(r, r.tx), Publish(r, "executing", r.tx)}

\* request_stop
StopRequested(r) ==
    IF Owned(r) THEN Publish(r, "stopping", [r.tx EXCEPT !.rb = "pending"])
                ELSE Finished(r)

\* check_continuation_authority
Continue(r, v) ==
    {StopRequested(r)} \cup
    IF r.tx.sent # "newer" THEN {} ELSE IF v = r.tx.b THEN {r} ELSE {Contradicted(r)}

\* prepare_same_owner_retarget and prepare_same_owner_rearm (b = r.tx.b)
PrepareRetarget(r, v, b) ==
    {StopRequested(r)} \cup
    IF r.tx.sent # "newer" THEN {} ELSE IF v # r.tx.b THEN {Contradicted(r)}
    ELSE {Publish(r, "retargeting",
            [r.tx EXCEPT !.b = b, !.pre = Snap(v), !.sent = "no", !.ack = FALSE,
               !.rb = "pending", !.rcmd = FALSE, !.rsnap = None, !.rsent = "no",
               !.moved = FALSE, !.att = 0])}

\* cancel_unsent_same_owner_retarget: back to the predecessor p, read again.
CancelRetarget(r, p, v) ==
    {StopRequested(r)} \cup
    IF r.allowed /\ p.sent = "newer" /\ v = p.b THEN {Publish(r, "executing", p)} ELSE {}

-----------------------------------------------------------------------------
(* Restore. *)

\* _restore_command; MASTER STOP restores the same block in mode 0.
Neutral(b) == IF b \in SelfUse THEN b ELSE CHOOSE n \in SelfUse : TRUE
Target(t) == IF t.master THEN Neutral(t.base) ELSE t.base

FailedStop(r) == IF r.tx.master THEN "failed" ELSE r.mst
RollbackFailed(r) ==
    [Publish(r, "fault", [r.tx EXCEPT !.rb = "failed"]) EXCEPT !.mst = FailedStop(r)]
Hold(r) ==
    IF r.st = "fault" /\ r.held THEN r
    ELSE [Fault(r, r.tx) EXCEPT !.held = TRUE, !.mst = FailedStop(r)]

NoPriorWrite(t) == t.own = "manual" /\ t.sent = "no"
NeutralConfirmed(t) == t.refused = 0 /\ t.ack /\ t.sent = "newer"

\* A base that is read before any acknowledgement may be older than the write.
Suspicious(t, v) ==
    /\ t.att = 0 /\ ~t.rcmd /\ t.pre # None
    /\ v = Target(t) /\ v # OffGrid
    /\ ~NoPriorWrite(t) /\ ~NeutralConfirmed(t)
Advanced(t) == IF t.sent = "no" THEN t.pre.age = "newer" ELSE t.sent = "newer"

AwaitsNewer(t, v) ==
    \/ t.refused > 0 /\ (t.rsnap = None \/ t.rsnap.age # "newer")
    \/ Suspicious(t, v) /\ (~Advanced(t) \/ (t.rsnap # None /\ t.rsnap.age # "newer"))

\* Mutation: the base is there, so it is restored.
DoneOnSight(t, v) == v = OffGrid \/ v = Target(t)
RestoreDone(t, v) ==
    v = OffGrid \/ (v = Target(t) /\ (NoPriorWrite(t) \/ NeutralConfirmed(t)))

StillCommanded(t, v) ==
    /\ t.rsnap.b = t.base /\ t.pre # None /\ t.sent = "newer" /\ v = t.b
RetryLost(t, v) ==
    t.att > 0 /\ (t.rsnap = None \/ (t.rsnap.b # v /\ ~StillCommanded(t, v)))
PreparedUnsent(t) == t.rcmd /\ t.rsent = "no"

RestorePrepared(r, v) ==
    [r EXCEPT !.tx = [r.tx EXCEPT
                        !.rcmd = TRUE, !.rsnap = Snap(v), !.moved = FALSE,
                        !.rb = "pending", !.rsent = "no",
                        !.att = r.tx.att + (IF PreparedUnsent(r.tx) THEN 0 ELSE 1)],
              !.held = FALSE,
              !.mst = IF r.tx.master THEN "running" ELSE @]

\* Mutation: the refusals are not limited.
VerdictNeverHolds(t, v) ==
    IF AwaitsNewer(t, v) THEN "wait"
    ELSE IF t.rsnap = None /\ Suspicious(t, v) THEN "barrier"
    ELSE IF RestoreDone(t, v) THEN "done"
    ELSE IF RetryLost(t, v) \/ (~PreparedUnsent(t) /\ t.att >= 2) THEN "failed"
    ELSE "write"

\* prepare_restore, past the freshness and the gates
Verdict(t, v) ==
    IF AwaitsNewer(t, v) THEN "wait"
    ELSE IF t.rsnap = None /\ Suspicious(t, v) THEN "barrier"
    ELSE IF RestoreDone(t, v) THEN "done"
    ELSE IF RetryLost(t, v) THEN "failed"
    ELSE IF t.refused >= 2 THEN "hold"
    ELSE IF ~PreparedUnsent(t) /\ t.att >= 2 THEN "failed" ELSE "write"
RestoreOn(r, v, verdict) ==
    CASE verdict = "wait"    -> r
      [] verdict = "barrier" -> [r EXCEPT !.tx.rsnap = Snap(v)]
      [] verdict = "done"    -> Finished(r)
      [] verdict = "failed"  -> RollbackFailed(r)
      [] verdict = "hold"    -> Hold(r)
      [] verdict = "write"   -> RestorePrepared(r, v)

\* A closed gate is final; a refusal that is too old is held for the firmware.
RestoreDenied(r) == {RollbackFailed(r)} \cup IF r.tx.refused > 0 THEN {Hold(r)} ELSE {}

RestorePrewriteOk(t, v) == t.rcmd /\ t.rsnap # None /\ t.rsnap.age = "same" /\ v # OffGrid

MarkRestoreSent(r) == Publish(r, "restoring", [r.tx EXCEPT !.rsent = "same"])
RestoreDropped(t) == [t EXCEPT !.rcmd = FALSE, !.rsent = "no", !.moved = FALSE]
\* Mutation: a restore without an answer is not charged.
RestoreRefunded(r) == Fault(r, [RestoreDropped(r.tx) EXCEPT !.att = 0])
RestoreUnknown(r) == Fault(r, RestoreDropped(r.tx))

\* Mutation: a refusal is refunded and not counted.
RefusalForgotten(r) ==
    {Publish(r, "stopping", [RestoreDropped(r.tx) EXCEPT
        !.rb = "pending", !.att = IF @ = 0 THEN 0 ELSE @ - 1])}

\* mark_restore_not_queued
RestoreNotQueued(r) ==
    LET t == [RestoreDropped(r.tx) EXCEPT !.rb = "pending",
                !.att = IF @ = 0 THEN 0 ELSE @ - 1, !.refused = @ + 1]
        out == {[Fault(r, t) EXCEPT !.held = TRUE]}
    IN IF t.refused >= 2 THEN out ELSE out \cup {Publish(r, "stopping", t)}

\* observe_restore_readback
ObserveRestore(r, v) ==
    LET t == r.tx IN
    IF t.rsent # "newer" THEN r
    ELSE IF v = Target(t) THEN Finished(r)
    ELSE IF ~t.moved /\ t.rsnap.b = v THEN
        [r EXCEPT !.tx = [@ EXCEPT !.rsnap = Snap(v), !.moved = TRUE]]
    ELSE IF t.moved /\ t.rsnap.age # "newer" THEN r
    ELSE IF t.moved /\ t.rsnap.b = v /\ t.att < 2 THEN
        Publish(r, "stopping", [RestoreDropped(t) EXCEPT !.rsnap = Snap(v)])
    ELSE RollbackFailed(r)

\* settle_late_terminal_fallback, of a proof that names this very lease
SettledBy(t, v, proof) ==
    /\ t.own # "none" /\ t.refused > 0 /\ t.rsent = "no" /\ t.sent = "newer"
    /\ t.lid # 0 /\ proof = t.lid
    /\ t.base \in SelfUse /\ v = t.base
    /\ t.rsnap # None => t.rsnap.age = "newer"

-----------------------------------------------------------------------------
(* MASTER STOP and restart. *)

Latched(r) == [r EXCEPT !.allowed = FALSE, !.mst = "running", !.held = FALSE]

\* _master_stop_blocked: stale input, foreign owner
StopBlocked(r) ==
    IF Owned(r)
    THEN [Publish(Latched(r), "fault", [r.tx EXCEPT !.master = TRUE]) EXCEPT !.mst = "blocked"]
    ELSE [Latched(r) EXCEPT !.st = "blocked", !.mst = "blocked"]

StopTakesOver(r) ==
    Publish(Latched(r), "stopping",
        [RestoreDropped(r.tx) EXCEPT !.rb = "pending", !.rsnap = None, !.att = 0,
                                     !.master = TRUE])
StopFromRest(r, v) ==
    IF v = OffGrid
    THEN [Latched(r) EXCEPT !.st = "idle", !.tx = None, !.mst = "completed"]
    ELSE Publish(Latched(r), "stopping",
            [Unowned("stopping", Neutral(v)) EXCEPT
                !.own = "manual", !.base = v, !.master = TRUE])

\* Mutation: an owner whose command is not marked sent has nothing to restore.
MasterStopOfSent(r, v) ==
    {StopBlocked(r),
     IF Owned(r) /\ r.tx.sent # "no" THEN StopTakesOver(r) ELSE StopFromRest(r, v)}
MasterStop(r, v) ==
    {StopBlocked(r), IF Owned(r) THEN StopTakesOver(r) ELSE StopFromRest(r, v)}

Rearmed(r) == [r EXCEPT !.allowed = TRUE, !.mst = "no", !.held = FALSE]

\* recover
RestoreInFlight(r) == r.st = "restoring" /\ r.tx.rb = "pending"
\* Mutation: a restart goes on where the record stood.
RecoveredAsSaved(r) == IF r.tx # None /\ ~Owned(r) THEN Finished(r) ELSE r
Recovered(r) ==
    IF r.tx = None THEN r
    ELSE IF ~Owned(r) THEN Finished(r)
    ELSE IF RestoreInFlight(r) THEN r
    ELSE [Publish(r, "stopping", [RestoreDropped(r.tx) EXCEPT !.rb = "pending"])
            EXCEPT !.mst = r.mst]
=============================================================================
