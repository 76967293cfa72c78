------------------------- MODULE SupervisorController -------------------------
(***************************************************************************)
(* The active controller (supervisor_active_controller.py): it drives the   *)
(* executor under a lock, saves the record before it lets a write leave and *)
(* reads the inverter back through the ESP32.                              *)
(*                                                                         *)
(* One action is what runs between two awaits of the coroutine that holds   *)
(* the lock, the save that ends it included.  ha is where that coroutine    *)
(* stands: "free" when nobody holds the lock, "loop" between two steps of   *)
(* one reconciliation, otherwise the dispatch of a start, a retarget or a   *)
(* restore that is saved and ready to leave, awaits its answer, or waits    *)
(* for a newer reading after a stale-snapshot refusal.                     *)
(*                                                                         *)
(* The firmware is reduced to what these steps meet (EspLease has the rest):*)
(* the Modbus FIFO, the write barrier, the lease with its fallback and the  *)
(* terminal proof.  An arm is numbered; the number is its lease identity.   *)
(* A restore has number 1 while its owner is the one that sent it.          *)
(***************************************************************************)
EXTENDS SupervisorExecutor, FiniteSets, Sequences

CONSTANTS
    Poll,        \* an FC03 read waiting in the Modbus queue
    Kinds,       \* the mishaps that may happen
    MaxMishaps,  \* bound on their number
    MaxArms,     \* bound on the arms dispatched
    MaxStops     \* bound on the MASTER STOPs requested
ASSUME ControllerBounds ==
    MaxArms \in Nat \ {0} /\ MaxStops \in Nat /\ MaxMishaps \in Nat
ASSUME PollIsNoWrite == Poll \notin Blocks

VARIABLES
    rec,         \* the executor's record in RAM
    saved,       \* the record in the Store
    unsaved,     \* _persistence_error is set
    view,        \* the last reading Home Assistant received
    ha,          \* where the coroutine that holds the lock stands
    reply,       \* the answer to the request it awaits
    net,         \* requests on their way to the ESP32
    seen, lag,   \* the ESP32's last reading; whether it is newer than view
    bus, phys,   \* the Modbus FIFO; the block of the inverter
    barrier,     \* the block of the last write, until a reading answers it
    lease,       \* the control lease
    proof,       \* the terminal proof: the arm, and whether view is as recent
    booted,      \* the firmware restarted since its last reading
    driven,      \* history: phys was put there by a leased write
    preserved,   \* history: an owner was released because of Off-Grid
    restores,    \* history: restore writes accepted for this owner
    arms, stops, mishaps

haVars == <<rec, saved, unsaved, view, ha, reply, arms, stops, preserved>>
espOwn == <<seen, lag, bus, phys, barrier, lease, proof, booted, driven>>
espVars == <<espOwn, restores>>
vars == <<haVars, espVars, net, mishaps>>

Free == [at |-> "free", step |-> "ready", try |-> 1, pred |-> None]
Loop == [Free EXCEPT !.at = "loop"]
Ready(at) == [Free EXCEPT !.at = at]
Leases == [id : 1..MaxArms, b : Forced, fb : SelfUse, pred : Forced \cup {None},
           st : {"armed", "expired", "restoring"}]
ASSUME NoLeaseNoBarrier == None \notin Leases \cup [expect : Blocks, mism : BOOLEAN]
Requests == [kind : {"arm", "restore"}, id : 0..MaxArms, b : Blocks,
             cur : BOOLEAN, awaited : BOOLEAN]
NoProof == [id |-> 0, shown |-> TRUE]

Init ==
    /\ rec = IdleRecord /\ saved = IdleRecord /\ unsaved = FALSE
    /\ view = None /\ ha = Free
    /\ reply = "none" /\ net = {}
    /\ seen = None /\ lag = FALSE /\ bus = <<>> /\ phys \in Blocks
    /\ barrier = None /\ lease = None /\ proof = NoProof /\ booted = FALSE
    /\ driven = FALSE /\ preserved = FALSE /\ restores = 0
    /\ arms = 0 /\ stops = 0 /\ mishaps = 0

Mishap(kind) == mishaps < MaxMishaps /\ kind \in Kinds /\ mishaps' = mishaps + 1

-----------------------------------------------------------------------------
(* Saving. *)

\* The step goes on in any case.
CommitOrGoOn(r, next) ==
    /\ rec' = r /\ ha' = next
    /\ \/ saved' = r /\ unsaved' = FALSE /\ UNCHANGED mishaps
       \/ Mishap("store") /\ saved' = saved /\ unsaved' = TRUE

\* Mutation: the record is saved in the background.
SavedLater(r, next) ==
    rec' = r /\ saved' \in {saved, r} /\ ha' = next /\ UNCHANGED <<unsaved, mishaps>>

\* _commit: the step goes on when the record is saved; a Store that fails
\* raises out of the reconciliation and RAM keeps the record.
Commit(r, next) ==
    /\ rec' = r
    /\ \/ saved' = r /\ unsaved' = FALSE /\ ha' = next /\ UNCHANGED mishaps
       \/ Mishap("store") /\ saved' = saved /\ unsaved' = unsaved /\ ha' = Free

\* _commit_master_stop: a Store that fails does not stop the restoration, and
\* is tried again only when forced; a record it cannot encode raises.
CommitStop(r, next, forced) ==
    IF Valid(r) /\ (forced \/ ~unsaved)
    THEN CommitOrGoOn(r, next)
    ELSE /\ rec' = r /\ ha' = IF Valid(r) THEN next ELSE Free
         /\ UNCHANGED <<saved, unsaved, mishaps>>

Save(r, next, forced) ==
    IF rec.tx.master THEN CommitStop(r, next, forced) ELSE Commit(r, next)
SaveIfChanged(r, next) ==
    IF r = rec /\ saved = rec THEN ha' = next /\ UNCHANGED <<rec, saved, unsaved, mishaps>>
                              ELSE Save(r, next, FALSE)

\* A reconciliation step that only computes and saves.
Quiet == UNCHANGED <<view, reply, arms, stops, espVars, net>>
Kept == UNCHANGED preserved
CanReconcile(states) == rec.st \in states /\ ha = Free /\ view # None
CanGoOn(states) == rec.st \in states /\ ha \in {Free, Loop} /\ view # None

-----------------------------------------------------------------------------
(* async_reconcile: choosing and starting. *)

Select ==
    /\ CanReconcile({"idle"}) /\ rec.mst # "completed" /\ arms < MaxArms
    /\ \E b \in Forced : LET r == SelectIntent(rec, b) IN
          Commit(r, IF r.st = "selected" THEN Loop ELSE Free)
    /\ Quiet /\ Kept

\* A supervisor switched off in between releases the intent.
OfAnOlderOwner(m) == [m EXCEPT !.id = IF m.kind = "restore" THEN 0 ELSE @]
Start ==
    /\ CanGoOn({"selected"})
    /\ \E r \in StartOn(rec, view) \cup {StopRequested(rec)} :
          Commit(r, IF r.st = "starting" THEN Loop ELSE Free)
    /\ restores' = 0 /\ net' = {OfAnOlderOwner(m) : m \in net}
    /\ UNCHANGED <<view, reply, arms, stops, espOwn>> /\ Kept

PrepareStart ==
    /\ CanGoOn({"starting"})
    /\ \E r \in PrepareCommand(rec, view) :
          Commit(r, IF r.st = "starting" THEN Ready("start") ELSE Free)
    /\ Quiet /\ Kept

Unblock ==
    /\ CanReconcile({"blocked"}) /\ rec.tx # None
    /\ Commit(Finished(rec), Free) /\ Quiet /\ Kept

\* check_deadline
Deadline ==
    /\ CanReconcile(States \ {"idle", "stopping", "fault"}) /\ rec.tx # None
    /\ Commit(CASE rec.st = "restoring" -> RollbackFailed(rec)
                [] rec.st \in {"starting", "waiting", "retargeting"} -> Fault(rec, rec.tx)
                [] OTHER -> StopRequested(rec), Free)
    /\ Quiet /\ Kept

-----------------------------------------------------------------------------
(* Waiting, executing, retargeting. *)

\* Authority may be lost at any step; a retarget prepared and never sent is
\* not replayed.
Observe ==
    /\ CanReconcile({"waiting", "retargeting"})
    /\ \E r \in {StopRequested(rec)} \cup
            (IF rec.tx.sent = "no" THEN {} ELSE ObserveReadback(rec, view)) :
          r # rec /\ Commit(r, Free)
    /\ Quiet /\ Kept

Verify ==
    /\ CanReconcile({"waiting", "retargeting"})
    /\ rec.tx.ack /\ rec.tx.sent = "newer" /\ view = rec.tx.b
    /\ \E r \in ObservePhysical(rec) : r # rec /\ Commit(r, Free)
    /\ Quiet /\ Kept

Sustain ==
    /\ CanReconcile({"executing"})
    /\ \E r \in Continue(rec, view) : r # rec /\ Commit(r, Free)
    /\ Quiet /\ Kept

\* The save is part of the attempt: when it fails nothing was sent, and the
\* predecessor p is resumed if it is still proven.
CommitRetarget(r, p, next) ==
    IF r.st # "retargeting" THEN Commit(r, Free)
    ELSE \/ rec' = r /\ saved' = r /\ unsaved' = FALSE /\ ha' = next /\ UNCHANGED mishaps
         \/ \E q \in CancelRetarget(r, p, view) :
               /\ Mishap("store") /\ rec' = q /\ saved' \in {saved, q} /\ ha' = Free
               /\ UNCHANGED unsaved

Retarget ==
    /\ CanReconcile({"executing"}) /\ arms < MaxArms
    /\ \E b \in Forced \ {rec.tx.b} : \E r \in PrepareRetarget(rec, view, b) :
          CommitRetarget(r, rec.tx, [Ready("retarget") EXCEPT !.pred = rec.tx])
    /\ Quiet /\ Kept

-----------------------------------------------------------------------------
(* Dispatching. *)

Request(kind, id, b) ==
    [kind |-> kind, id |-> id, b |-> b, cur |-> seen # None /\ ~lag, awaited |-> TRUE]
Send(m) ==
    /\ net' = net \cup {m} /\ ha' = [ha EXCEPT !.step = "await"]
    /\ UNCHANGED <<rec, saved, unsaved, view, reply, stops, preserved, espVars, mishaps>>
At(at, step) == ha.at = at /\ ha.step = step

\* The frame is sampled again and the command authorized on it once more.
StillPrepared(t) == t.pre.age = "same" /\ view = t.pre.b
SendArm ==
    /\ ha.at \in {"start", "retarget"} /\ ha.step = "ready" /\ StillPrepared(rec.tx)
    /\ arms' = arms + 1
    /\ Send(Request("arm", arms + 1, rec.tx.b))
SendRestore ==
    /\ At("restore", "ready") /\ RestorePrewriteOk(rec.tx, view)
    /\ UNCHANGED arms
    /\ Send(Request("restore", 1, Target(rec.tx)))

\* ... or it is rejected before anything leaves.
StartRejected ==
    /\ At("start", "ready")
    /\ \E r \in {Blocked(rec)} \cup (IF ha.try = 1 THEN {Deferred(rec)} ELSE {}) :
          Commit(r, Free)
    /\ Quiet /\ Kept
RestoreRejected ==
    /\ At("restore", "ready")
    /\ ha' = Free /\ UNCHANGED <<rec, saved, unsaved, mishaps>>
    /\ Quiet /\ Kept
RetargetRejected ==
    /\ At("retarget", "ready")
    /\ \E r \in CancelRetarget(rec, ha.pred, view) : Commit(r, Free)
    /\ Quiet /\ Kept

Taken == reply' = "none" /\ UNCHANGED <<view, arms, stops, espVars, net>>

StartAnswered ==
    /\ At("start", "await") /\ reply # "none"
    /\ CASE reply = "ok" -> \E r \in MarkSent(rec, arms) : Commit(r, Free)
         [] reply = "stale" /\ ha.try = 1 ->
               /\ ha' = [ha EXCEPT !.step = "stale"]
               /\ UNCHANGED <<rec, saved, unsaved, mishaps>>
         [] reply = "bad" -> Commit(OutcomeUnknown(rec), Free)
         [] OTHER -> Commit(Blocked(rec), Free)
    /\ Taken /\ Kept
RetargetAnswered ==
    /\ At("retarget", "await") /\ reply # "none"
    /\ CASE reply = "ok" ->
               \E r \in MarkSent(rec, arms) \cup {OutcomeUnknown(rec)} : Commit(r, Free)
         [] reply = "stale" /\ ha.try = 1 ->
               /\ ha' = [ha EXCEPT !.step = "stale"]
               /\ UNCHANGED <<rec, saved, unsaved, mishaps>>
         [] reply = "bad" -> Commit(OutcomeUnknown(rec), Free)
         [] OTHER -> \E r \in CancelRetarget(rec, ha.pred, view) : Commit(r, Free)
    /\ Taken /\ Kept
RestoreAnswered ==
    /\ At("restore", "await") /\ reply # "none"
    /\ CASE reply = "ok" -> Save(MarkRestoreSent(rec), Free, FALSE)
         [] reply \in {"stale", "pending"} ->
               \E r \in RestoreNotQueued(rec) : Save(r, Free, FALSE)
         [] OTHER -> Save(RestoreUnknown(rec), Free, TRUE)
    /\ Taken /\ Kept

\* asyncio.timeout: nobody awaits the answer any more, the request travels on.
\* One that is also too old to be accepted makes no difference from then on.
Matters(requests) == {m \in requests : m.cur \/ m.awaited}
Unawaited == net' = Matters({[m EXCEPT !.awaited = FALSE] : m \in net})
\* Mutation: a retarget that timed out is taken for one that was not sent.
ResumedOnTimeout ==
    CASE ha.at = "restore"  -> RestoreUnknown(rec)
      [] ha.at = "retarget" -> [rec EXCEPT !.st = "executing", !.tx = ha.pred]
      [] OTHER              -> OutcomeUnknown(rec)
GivenUp == IF ha.at = "restore" THEN RestoreUnknown(rec) ELSE OutcomeUnknown(rec)
DispatchTimesOut ==
    /\ ha.step = "await" /\ reply = "none"
    /\ Save(GivenUp, Free, TRUE)
    /\ Unawaited
    /\ UNCHANGED <<view, reply, arms, stops, espVars>> /\ Kept

\* After a stale-snapshot refusal: once more, on a newer reading.
StartAgain ==
    /\ At("start", "stale")
    /\ \E r \in IF arms < MaxArms THEN Reprepare(rec, view) ELSE {Blocked(rec)} :
          IF r.st # "starting" THEN Commit(r, Free)
          ELSE \/ /\ rec' = r /\ saved' = r /\ unsaved' = FALSE /\ UNCHANGED mishaps
                  /\ ha' = [ha EXCEPT !.step = "ready", !.try = 2]
               \/ /\ Mishap("store") /\ rec' = Blocked(rec) /\ UNCHANGED unsaved
                  /\ saved' \in {saved, Blocked(rec)} /\ ha' = Free
    /\ Quiet /\ Kept

Successors ==
    UNION {IF q.st = "executing" THEN PrepareRetarget(q, view, b) ELSE {q} :
              q \in CancelRetarget(rec, ha.pred, view), b \in Forced}
RetargetAgain ==
    /\ At("retarget", "stale")
    /\ \/ \E r \in CancelRetarget(rec, ha.pred, view) : Commit(r, Free)
       \/ /\ rec.tx.pre.age # "same" /\ arms < MaxArms
          /\ \E r \in Successors :
                CommitRetarget(r, ha.pred, [ha EXCEPT !.step = "ready", !.try = 2])
    /\ Quiet /\ Kept

-----------------------------------------------------------------------------
(* Stopping. *)

Restorable == CanReconcile({"stopping", "fault"}) /\ rec.tx.rb # "failed"

PrepareRestore ==
    /\ Restorable
    /\ LET verdict == Verdict(rec.tx, view) IN
          /\ SaveIfChanged(RestoreOn(rec, view, verdict),
                           IF verdict = "write" THEN Ready("restore") ELSE Free)
          /\ preserved' = (preserved \/ (view = OffGrid /\ verdict = "done"))
    /\ Quiet
DenyRestore ==
    /\ Restorable
    /\ \E r \in RestoreDenied(rec) : SaveIfChanged(r, Free)
    /\ Quiet /\ Kept

\* The firmware proves that it has restored by itself.  A release that is not
\* saved is taken back, except for a MASTER STOP.
Settle ==
    /\ Restorable /\ lease = None /\ proof.shown
    /\ SettledBy(rec.tx, view, proof.id)
    /\ \/ Save(Finished(rec), Free, TRUE) /\ (rec.tx.master \/ saved' = Finished(rec))
       \/ ~rec.tx.master /\ Mishap("store") /\ UNCHANGED <<rec, saved, unsaved, ha>>
    /\ Quiet /\ Kept

ObserveRestored ==
    /\ CanReconcile({"restoring"})
    /\ LET r == ObserveRestore(rec, view) IN r # rec /\ Save(r, Free, TRUE)
    /\ Quiet /\ Kept

\* async_master_stop up to its save; reconciliation goes on from there.
RequestMasterStop ==
    /\ stops < MaxStops /\ ha = Free /\ view # None /\ stops' = stops + 1
    /\ \E r \in MasterStop(rec, view) : CommitStop(r, Free, TRUE)
    /\ preserved' = (preserved \/ (view = OffGrid /\ rec'.st = "idle"))
    /\ UNCHANGED <<view, reply, arms, net, espVars>>

RetryPersistence ==
    /\ ha = Free /\ saved # rec /\ Valid(rec)
    /\ rec.mst # "no" \/ (rec.tx # None /\ rec.tx.master)
    /\ CommitStop(rec, Free, TRUE) /\ Quiet /\ Kept

Rearm ==
    /\ CanReconcile({"idle"}) /\ rec.mst = "completed"
    /\ Commit(Rearmed(rec), Free) /\ Quiet /\ Kept

\* Home Assistant restarts on what it saved.
Restart ==
    /\ Mishap("crash")
    /\ rec' = Recovered(saved) /\ saved' = Recovered(saved) /\ unsaved' = FALSE
    /\ view' = None /\ ha' = Free /\ reply' = "none" /\ Unawaited
    /\ UNCHANGED <<arms, stops, preserved, espVars>>

-----------------------------------------------------------------------------
(* The firmware and the inverter. *)

HaIdle == UNCHANGED <<rec, saved, unsaved, view, ha, arms, stops, preserved>>

\* A reading reaches Home Assistant; all it holds is one reading older then.
\* The first one of a restarted firmware may or may not compare as newer.
ReadingReceived(lost) ==
    /\ lost => booted /\ lag
    /\ seen # None /\ (lag \/ view = None)
    /\ view' = seen /\ lag' = FALSE
    /\ proof' = [proof EXCEPT !.shown = TRUE]
    /\ IF ~lag THEN UNCHANGED <<rec, saved, ha, booted>>
       ELSE /\ booted' = FALSE
            /\ rec' = [rec EXCEPT !.tx = AgedTx(@, lost)]
            /\ saved' = [saved EXCEPT !.tx = AgedTx(@, lost)]
            /\ ha' = [ha EXCEPT !.pred = AgedTx(@, lost)]
    /\ UNCHANGED <<unsaved, reply, arms, stops, preserved, net, mishaps, seen, bus, phys,
                   barrier, lease, driven, restores>>

Answer(m, r) ==
    /\ net' = net \ {m} /\ reply' = IF m.awaited THEN r ELSE reply

\* Mutation: the arm is not bound to the generation it was prepared on.
ArmOfAnyAge(m) ==
    /\ barrier = None
    /\ IF lease = None THEN seen \in SelfUse
                       ELSE lease.st = "armed" /\ seen = lease.b
ArmAllowed(m) ==
    /\ m.cur /\ barrier = None
    /\ IF lease = None THEN seen \in SelfUse
                       ELSE lease.st = "armed" /\ seen = lease.b
Queued(b) ==
    bus' = Append(bus, b) /\ barrier' = [expect |-> b, mism |-> FALSE]

EspArms(m) ==
    /\ m.kind = "arm" /\ ArmAllowed(m) /\ Queued(m.b) /\ Answer(m, "ok")
    /\ lease' = [id |-> m.id, b |-> m.b, st |-> "armed",
                 fb |-> IF lease = None THEN seen ELSE lease.fb,
                 pred |-> IF lease = None THEN None ELSE seen]
    /\ proof' = NoProof
    /\ HaIdle /\ UNCHANGED <<mishaps, seen, lag, phys, booted, driven, restores>>
EspRestores(m) ==
    /\ m.kind = "restore" /\ m.cur /\ barrier = None /\ m.b \notin Forced
    /\ Queued(m.b) /\ Answer(m, "ok") /\ restores' = restores + m.id
    /\ HaIdle /\ UNCHANGED <<mishaps, seen, lag, phys, lease, proof, booted, driven>>
\* Refused for the age or generation of its snapshot, for a write not read back
\* yet, or for a reason that proves nothing.
EspRefuses(m) ==
    /\ \E r \in {"stale", "bad"} \cup (IF barrier = None THEN {} ELSE {"pending"}) :
          Answer(m, r)
    /\ HaIdle /\ UNCHANGED <<mishaps, espVars>>
RequestLost(m) ==
    /\ net' = net \ {m} /\ HaIdle /\ UNCHANGED <<reply, mishaps, espVars>>

EspIdle == HaIdle /\ UNCHANGED <<reply, restores>>

PollDue ==
    /\ \A i \in 1..Len(bus) : bus[i] # Poll
    /\ bus' = Append(bus, Poll)
    /\ EspIdle
    /\ UNCHANGED <<net, mishaps, seen, lag, phys, barrier, lease, proof, booted, driven>>
WriteApplied ==
    /\ bus # <<>> /\ Head(bus) # Poll
    /\ bus' = Tail(bus) /\ phys' = Head(bus) /\ driven' = (Head(bus) \in Forced)
    /\ EspIdle
    /\ UNCHANGED <<net, mishaps, seen, lag, barrier, lease, proof, booted>>
WriteLost ==
    /\ bus # <<>> /\ Head(bus) # Poll /\ bus' = Tail(bus)
    /\ EspIdle
    /\ UNCHANGED <<net, mishaps, seen, lag, phys, barrier, lease, proof, booted, driven>>

BarrierAfter(b) ==
    IF barrier = None \/ b = barrier.expect \/ barrier.mism
    THEN None ELSE [barrier EXCEPT !.mism = TRUE]
LeaseEnds(proven) ==
    /\ lease' = None
    /\ proof' = IF proven THEN [id |-> lease.id, shown |-> FALSE] ELSE proof
LeaseExpires == lease' = [lease EXCEPT !.st = "expired"] /\ UNCHANGED proof
LeaseAfter(b) ==
    IF lease = None \/ BarrierAfter(b) # None THEN UNCHANGED <<lease, proof>>
    ELSE CASE lease.st = "armed" ->
                IF b = lease.b THEN UNCHANGED <<lease, proof>>
                ELSE IF b = lease.pred THEN LeaseExpires ELSE LeaseEnds(FALSE)
           [] lease.st = "restoring" ->
                IF b \in {lease.b, lease.pred} THEN LeaseExpires ELSE LeaseEnds(b = lease.fb)
           [] OTHER -> UNCHANGED <<lease, proof>>

\* A complete FC03 reading: no snapshot taken before it is current any more.
Reading ==
    /\ bus # <<>> /\ Head(bus) = Poll /\ bus' = Tail(bus)
    /\ seen' = phys /\ lag' = TRUE
    /\ net' = Matters({[m EXCEPT !.cur = FALSE] : m \in net})
    /\ barrier' = BarrierAfter(phys) /\ LeaseAfter(phys)
    /\ EspIdle /\ UNCHANGED <<mishaps, phys, booted, driven>>

LeaseTimer ==
    /\ lease # None
    /\ \/ lease.st = "armed" /\ LeaseExpires /\ UNCHANGED <<bus, barrier>>
       \/ /\ lease.st = "expired" /\ barrier = None /\ seen # None
          /\ IF seen \in {lease.b, lease.pred}
             THEN /\ Queued(lease.fb) /\ UNCHANGED proof
                  /\ lease' = [lease EXCEPT !.st = "restoring"]
             ELSE LeaseEnds(seen = lease.fb) /\ UNCHANGED <<bus, barrier>>
    /\ EspIdle /\ UNCHANGED <<net, mishaps, seen, lag, phys, booted, driven>>

OutsideChange ==
    /\ Mishap("outside") /\ phys' \in Blocks /\ driven' = FALSE
    /\ EspIdle /\ UNCHANGED <<net, seen, lag, bus, barrier, lease, proof, booted>>

EspRestart ==
    /\ Mishap("boot")
    /\ seen' = None /\ lag' = FALSE /\ booted' = TRUE /\ bus' = <<>> /\ barrier' = None
    /\ net' = {}
    /\ lease' = IF lease = None THEN None ELSE [lease EXCEPT !.st = "expired"]
    /\ EspIdle /\ UNCHANGED <<phys, driven, proof>>

-----------------------------------------------------------------------------
Stopping == PrepareRestore \/ DenyRestore \/ Settle \/ ObserveRestored
Dispatching == SendArm \/ SendRestore \/ StartRejected \/ RestoreRejected
    \/ RetargetRejected \/ StartAnswered \/ RetargetAnswered \/ RestoreAnswered
    \/ DispatchTimesOut \/ StartAgain \/ RetargetAgain
Reconcile == Select \/ Start \/ PrepareStart \/ Unblock \/ Deadline \/ Observe
    \/ Verify \/ Sustain \/ Retarget \/ Stopping \/ Rearm
Firmware == PollDue \/ WriteApplied \/ WriteLost \/ Reading \/ LeaseTimer
    \/ \E m \in net : EspArms(m) \/ EspRestores(m) \/ EspRefuses(m) \/ RequestLost(m)
Next ==
    \/ Reconcile \/ Dispatching \/ Firmware
    \/ RequestMasterStop \/ RetryPersistence \/ Restart \/ OutsideChange \/ EspRestart
    \/ \E lost \in BOOLEAN : ReadingReceived(lost)

Spec == Init /\ [][Next]_vars

\* The inverter is polled and the Modbus queue worked off, readings are
\* published, a request is answered or given up, a reconciliation follows.  A
\* prepared restore may be rejected because a newer reading came in between,
\* not every time: readings are seconds apart, a dispatch takes milliseconds.
FairSpec ==
    /\ Spec
    /\ WF_vars(PollDue) /\ WF_vars(WriteApplied \/ WriteLost) /\ WF_vars(Reading)
    /\ WF_vars(ReadingReceived(FALSE)) /\ WF_vars(LeaseTimer)
    /\ WF_vars(StartAnswered \/ RetargetAnswered \/ RestoreAnswered \/ DispatchTimesOut)
    /\ WF_vars(PrepareRestore) /\ WF_vars(Settle) /\ WF_vars(ObserveRestored)
    /\ SF_vars(SendRestore) /\ WF_vars(RestoreRejected)

-----------------------------------------------------------------------------
(* Correctness. *)

\* Types and ranges; among them the limits of two restore attempts and two
\* refusals that the record keeps for the life of an owner.
TypeOK ==
    /\ rec \in Records /\ saved \in Records /\ unsaved \in BOOLEAN /\ view \in Blocks \cup {None}
    /\ ha.at \in {"free", "loop", "start", "retarget", "restore"}
    /\ ha.step \in {"ready", "await", "stale"} /\ ha.try \in 1..2
    /\ ha.pred \in Transactions \cup {None}
    /\ reply \in {"none", "ok", "stale", "pending", "bad"} /\ net \subseteq Requests
    /\ seen \in Blocks \cup {None} /\ lag \in BOOLEAN /\ phys \in Blocks
    /\ bus \in Seq(Blocks \cup {Poll})
    /\ barrier \in [expect : Blocks, mism : BOOLEAN] \cup {None}
    /\ lease \in Leases \cup {None} /\ proof \in [id : 0..MaxArms, shown : BOOLEAN]
    /\ booted \in BOOLEAN /\ driven \in BOOLEAN /\ preserved \in BOOLEAN
    /\ arms \in 0..MaxArms /\ stops \in 0..MaxStops /\ mishaps \in 0..MaxMishaps

\* A forced block of ours is on the inverter, queued for it, or still accepted.
ForceIsLive ==
    \/ driven
    \/ \E i \in 1..Len(bus) : bus[i] \in Forced
    \/ \E m \in net : m.kind = "arm" /\ m.cur

\* As long as a forced write may act, Home Assistant has an owner that will
\* restore it: no timeout, refusal, late write or early match of the base
\* releases it too soon.  Only a user who went off the grid does.
ForceOwned == ForceIsLive => Owned(rec) \/ preserved

\* ... and the Store has it too, so that a restart at any point finds it: the
\* record is saved before the arm leaves, and its release only when proven.
ForceRecorded == ForceIsLive => Owned(saved) \/ preserved

\* The block the firmware falls back to is the base Home Assistant restores.
FallbackAgrees ==
    lease # None /\ lease.st = "armed" /\ Owned(rec) /\ rec.tx.own = "auto" =>
        lease.fb = rec.tx.base \/ preserved

\* While the supervisor executes, no arm for another block is on its way: an
\* abandoned retarget never overtakes the predecessor that was resumed.
ExecutingAlone ==
    rec.st = "executing" =>
        /\ \A i \in 1..Len(bus) : bus[i] \in Forced => bus[i] = rec.tx.b
        /\ \A m \in net : m.kind = "arm" /\ m.cur => m.b = rec.tx.b

\* The controller keeps the promise of OwnedTransaction: a stop is never taken
\* back, by no timeout, cancelled retarget or restart; an owner keeps its base, in
\* RAM and Store alike, for as long as its force may act; what leaves was saved
\* before; after MASTER STOP nothing leaves until the user rearms.
Stage(r) ==
    IF ~Owned(r) THEN "idle"
    ELSE IF r.tx.rb = "failed" THEN "failed"
    ELSE IF r.st = "starting" THEN "opening"
    ELSE IF r.st \in {"waiting", "executing", "retargeting"} THEN "driving" ELSE "closing"
Outline(r) ==
    [phase |-> Stage(r), base |-> IF Owned(r) THEN r.tx.base ELSE None,
     latched |-> ~r.allowed]
Transaction ==
    INSTANCE OwnedTransaction WITH
        own <- Outline(rec), stored <- Outline(saved), live <- ForceIsLive,
        waived <- preserved, Bases <- SelfUse \cup Forced
TransactionSpec == Transaction!Spec

\* An owner's stop writes the inverter at most twice, however often answers are
\* lost, refused or late; a MASTER STOP grants two more.  So does a restart that finds
\* the attempts a MASTER STOP made without the Store, which takes two mishaps.
RestoresBounded == restores <= 2 * (1 + stops + mishaps \div 2)

\* Every stop ends: the owner is released, the rollback has failed for good, or
\* it is held for the firmware's fallback.
StopEnded ==
    ~Owned(rec) \/ rec.tx.rb = "failed" \/ rec.held \/ rec.tx.master
StopSettles == rec.st \in {"stopping", "restoring", "fault"} ~> StopEnded

\* MASTER STOP "cancels active work, restores verified settings" (README.md:155):
\* it dispatches a restore, finds nothing to restore, or fails at a gate.
MasterStopActs ==
    Owned(rec) /\ rec.tx.master ~>
        \/ ~Owned(rec) \/ rec.tx.rb = "failed"
        \/ ha.at = "restore" \/ rec.st = "restoring"
=============================================================================
