----------------------------- MODULE OwnershipProofs -----------------------------
(***************************************************************************)
(* Whatever forces the inverter has an owner: as long as a forced block may *)
(* act, the record in RAM and the one in the Store both know whom to stop   *)
(* and what to restore.  A second part is about which block that is: while  *)
(* the supervisor executes, none but its own.  The last one maps every step *)
(* of the controller to a step of OwnedTransaction, or to none.             *)
(***************************************************************************)
EXTENDS SupervisorControllerProofs

-----------------------------------------------------------------------------
(* The invariant.                                                          *)

\* What makes a forced block of ours live: ForceIsLive, the requests apart, and
\* a lease that is armed.
Arms(reqs) == \E m \in reqs : m.kind = "arm" /\ m.cur
Armed == lease # None /\ lease.st = "armed"
ForcedQueued == \E i \in 1..Len(bus) : bus[i] \in Forced
Acting(reqs) == driven \/ Armed \/ ForcedQueued \/ Arms(reqs)

\* The requests nobody awaits.
Others == {m \in net : ~m.awaited}

\* No forced block waits behind a reading: the next one shows it.
Behind == \A i, j \in 1..Len(bus) : i < j /\ bus[i] = Poll => bus[j] \notin Forced
OnePoll == \A i, j \in 1..Len(bus) : bus[i] = Poll /\ bus[j] = Poll => i = j
Expects(b) == barrier # None /\ barrier.expect = b

\* The firmware by itself: a forced block waits behind a reading only while its
\* own write is not read back, and a reading of another block that ends the
\* barrier ends the lease and finds nothing left to force.
FirmwareOk ==
    /\ driven => phys \in Forced
    /\ OnePoll
    /\ \A m \in net : m.cur => seen # None /\ ~lag
    /\ barrier = None \/ barrier.mism \/ barrier.expect \notin Forced => Behind
    /\ lease # None /\ lease.st = "restoring" => Behind
    /\ barrier = None /\ seen \notin Forced \cup {None} => ~ForcedQueued /\ ~driven
    /\ Armed => seen # None /\ (barrier = None => seen = lease.b)
    /\ proof.id # 0 => ~driven /\ ~Armed /\ ~ForcedQueued
    /\ view # None /\ ~lag /\ seen # None => view = seen

\* What an accepted arm of t leaves behind: its write, or later the restore of
\* its base, is what the barrier waits for.
Accepted(t) ==
    /\ t.base \in SelfUse /\ t.b \in Forced
    /\ Armed /\ barrier # None => barrier.expect \in {t.b, t.base}
    /\ Armed => \A m \in net : m.kind = "restore" /\ m.cur => barrier # None \/ m.b = t.base
\* No reading since then has been received ...
Unread(t) == ~t.ack /\ (lag => Behind /\ (Expects(t.b) => seen # t.b))
\* ... or one has, and a base read after the acknowledgement would be the end.
ReadSince(t) ==
    /\ Behind
    /\ Expects(t.b) => view # t.b /\ seen # t.b
    /\ view = t.b /\ lag => seen # t.base
    /\ t.ack => ~Expects(t.b) /\ view # t.base /\ seen # t.base
SentOk(t) ==
    /\ t.own = "auto"
    /\ t.sent # "no" => Accepted(t)
    /\ t.sent = "same" => Unread(t)
    /\ t.sent = "newer" => ReadSince(t)

\* An accepted restore of t: no arm is accepted before the next reading, and
\* that reading shows the target only when nothing forced is left.
RestoreAccepted(t) ==
    /\ Behind /\ Target(t) \notin Forced
    /\ Arms(net) => barrier # None
    /\ Armed /\ barrier # None => barrier.expect = Target(t)
    /\ Armed => \A m \in net : m.kind = "restore" /\ m.cur => barrier # None \/ m.b = Target(t)
RestoreUnread(t) == RestoreAccepted(t) /\ (lag => seen # Target(t))
RestoringOk(r) ==
    r.st = "restoring" =>
       /\ r.tx.rsent = "same" => RestoreUnread(r.tx)
       /\ r.tx.rsent = "newer" =>
             RestoreAccepted(r.tx) /\ view # Target(r.tx) /\ seen # Target(r.tx)

\* The owner, in RAM and in the Store, of what is acting.
OwnerOk(r) ==
    /\ Owned(r) /\ SentOk(r.tx) /\ RestoringOk(r)
    /\ r.tx.sent # "no" => ~Arms(net)
Backed ==
    /\ OwnerOk(rec) /\ OwnerOk(saved) /\ saved.tx.base = rec.tx.base
    /\ Armed => lease.fb = rec.tx.base
    /\ Arms(net) => seen = rec.tx.base \/ seen \in Forced

\* What the answer of the request that is awaited says.
Answered(at) == At(at, "await") /\ reply = "ok"
ArmTaken == Answered("start") \/ Answered("retarget")
Secured ==
    /\ Acting(net) => Backed
    /\ ArmTaken /\ Acting(net) => Accepted(rec.tx) /\ Unread(rec.tx) /\ ~Arms(net)
    /\ Answered("restore") /\ Acting(net) => RestoreUnread(rec.tx)
    /\ rec.st = "starting" /\ ~ArmTaken => ~Acting(Others)
    /\ ha.at = "retarget" /\ ~ArmTaken /\ Acting(Others) => SentOk(ha.pred) /\ ~Arms(Others)

\* What is being dispatched is what the record and the Store say.
Linked ==
    /\ rec.st \in {"selected", "starting"} => rec.tx.sent = "no" /\ ~rec.tx.ack
    /\ ha.at \in {"start", "retarget"} =>
          /\ saved = rec /\ rec.tx.sent = "no" /\ ~rec.tx.ack /\ rec.tx.pre \in Snapshots
    /\ ha.at = "start" => rec.tx.pre.b = rec.tx.base
    /\ ha.at = "retarget" => rec.tx.pre.b \in Forced /\ ha.pred.base = rec.tx.base
    /\ \A m \in net : m.awaited =>
          m.b = IF m.kind = "arm" THEN rec.tx.b ELSE Target(rec.tx)

OwnershipInvariant == Typed /\ Awaits /\ FirmwareOk /\ Linked /\ (preserved \/ Secured)

-----------------------------------------------------------------------------
(* The Modbus queue.                                                       *)

LEMMA Appended ==
    ASSUME EspTyped, NEW b \in Blocks \cup {Poll}, bus' = Append(bus, b)
    PROVE  /\ ForcedQueued' <=> ForcedQueued \/ b \in Forced
           /\ Behind /\ b \notin Forced => Behind'
           /\ OnePoll /\ b # Poll => OnePoll'
           /\ (\A i \in 1..Len(bus) : bus[i] # Poll) => OnePoll'
<1>1. /\ Len(bus') = Len(bus) + 1 /\ Len(bus) \in Nat /\ bus'[Len(bus) + 1] = b
      /\ \A i \in 1..Len(bus) : bus'[i] = bus[i]
  BY DEF EspTyped
<1>2. \A i \in 1..Len(bus') : i \in 1..Len(bus) \/ i = Len(bus) + 1
  BY <1>1
<1>3. 1..Len(bus) \subseteq 1..Len(bus') /\ Len(bus) + 1 \in 1..Len(bus')
  BY <1>1
<1>4. ForcedQueued' <=> ForcedQueued \/ b \in Forced
  BY <1>1, <1>2, <1>3 DEF ForcedQueued
<1>5. Behind /\ b \notin Forced => Behind'
  BY <1>1, <1>2, <1>3 DEF Behind
<1>6. (OnePoll /\ b # Poll) \/ (\A i \in 1..Len(bus) : bus[i] # Poll) => OnePoll'
  BY <1>1, <1>2, <1>3 DEF OnePoll
<1>. QED  BY <1>4, <1>5, <1>6

LEMMA Dequeued ==
    ASSUME EspTyped, bus # <<>>, bus' = Tail(bus)
    PROVE  /\ Head(bus) \in Forced \/ ForcedQueued' => ForcedQueued
           /\ Behind => Behind'
           /\ OnePoll => OnePoll'
           /\ Head(bus) = Poll /\ OnePoll => Behind'
           /\ Head(bus) = Poll /\ Behind => ~ForcedQueued'
<1>1. /\ Len(bus) \in Nat /\ Len(bus) >= 1 /\ Len(bus') = Len(bus) - 1 /\ Head(bus) = bus[1]
      /\ \A i \in 1..Len(bus') : bus'[i] = bus[i + 1]
  BY DEF EspTyped
<1>2. 1 \in 1..Len(bus)
  BY <1>1
<1>3. \A i \in 1..Len(bus') : i + 1 \in 1..Len(bus) /\ 1 < i + 1 /\ i + 1 # 1
  BY <1>1
<1>4. Head(bus) \in Forced \/ ForcedQueued' => ForcedQueued
  BY <1>1, <1>2, <1>3 DEF ForcedQueued
<1>5. Behind => Behind'
  BY <1>1, <1>3 DEF Behind
<1>6. OnePoll => OnePoll'
  BY <1>1, <1>3 DEF OnePoll
<1>7. Head(bus) = Poll /\ OnePoll => Behind'
  BY <1>1, <1>2, <1>3 DEF OnePoll, Behind
<1>8. Head(bus) = Poll /\ Behind => ~ForcedQueued'
  BY <1>1, <1>2, <1>3 DEF Behind, ForcedQueued
<1>. QED  BY <1>4, <1>5, <1>6, <1>7, <1>8

-----------------------------------------------------------------------------
(* The requests on their way, and the firmware by itself.                  *)

\* Every request was there before, no more current and no more awaited.
Passes ==
    \A m \in net' : \E n \in net :
       /\ m.kind = n.kind /\ m.b = n.b
       /\ m.cur => n.cur
       /\ m.awaited => n.awaited

LEMMA Passing ==
    ASSUME NetTyped,
           \/ Unawaited
           \/ net' = Matters({[m EXCEPT !.cur = FALSE] : m \in net})
           \/ net' \subseteq net
           \/ net' = {OfAnOlderOwner(m) : m \in net}
    PROVE  Passes
<1>0. net \subseteq Requests
  BY DEF NetTyped
<1>1. \A n \in Requests : \A m :
         m \in {[n EXCEPT !.awaited = FALSE], [n EXCEPT !.cur = FALSE], OfAnOlderOwner(n)} =>
            /\ m.kind = n.kind /\ m.b = n.b
            /\ m.cur => n.cur
            /\ m.awaited => n.awaited
  BY DEF Requests, OfAnOlderOwner
<1>2. CASE Unawaited
  <2>1. ASSUME NEW m \in net' PROVE \E n \in net : m = [n EXCEPT !.awaited = FALSE]
    BY <1>2 DEF Unawaited, Matters
  <2>. QED  BY <1>0, <1>1, <2>1 DEF Passes
<1>3. CASE net' = Matters({[m EXCEPT !.cur = FALSE] : m \in net})
  <2>1. ASSUME NEW m \in net' PROVE \E n \in net : m = [n EXCEPT !.cur = FALSE]
    BY <1>3 DEF Matters
  <2>. QED  BY <1>0, <1>1, <2>1 DEF Passes
<1>4. CASE net' \subseteq net
  BY <1>4 DEF Passes
<1>5. CASE net' = {OfAnOlderOwner(m) : m \in net}
  BY <1>0, <1>1, <1>5 DEF Passes
<1>. QED  BY <1>2, <1>3, <1>4, <1>5

LEMMA CarriedOn ==
    ASSUME NetTyped, Next
    PROVE  Passes \/ SendArm \/ SendRestore
<1>1. CASE \/ Select \/ PrepareStart \/ Unblock \/ Deadline \/ Observe
           \/ Verify \/ Sustain \/ Retarget \/ Stopping \/ Rearm
  BY <1>1, Passing DEF Select, PrepareStart, Unblock, Deadline, Observe, Verify, Sustain, Retarget,
     Stopping, PrepareRestore, DenyRestore, Settle, ObserveRestored, Rearm, Quiet
<1>2. CASE \/ StartRejected \/ RestoreRejected \/ RetargetRejected \/ StartAnswered
           \/ RetargetAnswered \/ RestoreAnswered \/ StartAgain \/ RetargetAgain
  BY <1>2, Passing DEF StartRejected, RestoreRejected, RetargetRejected, StartAnswered,
     RetargetAnswered, RestoreAnswered, StartAgain, RetargetAgain, Quiet, Taken
<1>3. CASE DispatchTimesOut \/ Restart \/ Start
  BY <1>3, Passing DEF DispatchTimesOut, Restart, Start
<1>4. CASE RequestMasterStop \/ RetryPersistence \/ OutsideChange \/ EspRestart
  BY <1>4, Passing DEF RequestMasterStop, RetryPersistence, OutsideChange, EspRestart, Quiet
<1>5. CASE \E lost \in BOOLEAN : ReadingReceived(lost)
  BY <1>5, Passing DEF ReadingReceived
<1>6. CASE Firmware
  <2>1. CASE PollDue \/ WriteApplied \/ WriteLost \/ LeaseTimer
    BY <2>1, Passing DEF PollDue, WriteApplied, WriteLost, LeaseTimer
  <2>2. CASE Reading
    BY <2>2, Passing DEF Reading
  <2>3. CASE \E m \in net : EspArms(m) \/ EspRestores(m) \/ EspRefuses(m) \/ RequestLost(m)
    <3>1. PICK m \in net : EspArms(m) \/ EspRestores(m) \/ EspRefuses(m) \/ RequestLost(m)
      BY <2>3
    <3>2. net' = net \ {m}
      BY <3>1 DEF EspArms, EspRestores, EspRefuses, RequestLost, Answer
    <3>. QED  BY <3>2, Passing
  <2>. QED  BY <1>6, <2>1, <2>2, <2>3 DEF Firmware
<1>. QED  BY <1>1, <1>2, <1>3, <1>4, <1>5, <1>6 DEF Next, Reconcile, Dispatching

\* Nothing changes but requests: at most one leaves, on a current reading.
LEMMA FirmwareStill ==
    ASSUME FirmwareOk,
           UNCHANGED <<seen, lag, bus, phys, barrier, lease, proof, driven>>,
           view' \in {view, None},
           Passes \/ \A m \in net' : m \in net \/ m.cur = (seen # None /\ ~lag)
    PROVE  FirmwareOk'
<1>1. \A m \in net' : m.cur => seen # None /\ ~lag
  BY DEF FirmwareOk, Passes
<1>2. UNCHANGED <<OnePoll, Behind, Armed, ForcedQueued>>
  BY DEF OnePoll, Behind, Armed, ForcedQueued
<1>. QED  BY <1>1, <1>2 DEF FirmwareOk

LEMMA PollOk == ASSUME Typed, FirmwareOk, PollDue PROVE FirmwareOk'
<1>1. /\ UNCHANGED <<net, seen, lag, phys, barrier, lease, proof, driven, view>>
      /\ bus' = Append(bus, Poll) /\ \A i \in 1..Len(bus) : bus[i] # Poll
  BY DEF PollDue, EspIdle, HaIdle
<1>2. OnePoll' /\ (ForcedQueued' <=> ForcedQueued) /\ (Behind => Behind') /\ Armed' = Armed
  BY <1>1, Appended, PollIsNoWrite DEF Typed, Blocks, Armed
<1>. QED  BY <1>1, <1>2 DEF FirmwareOk

LEMMA WriteOk == ASSUME Typed, FirmwareOk, WriteApplied \/ WriteLost PROVE FirmwareOk'
<1>0. driven => phys \in Forced
  BY DEF FirmwareOk
<1>1. /\ UNCHANGED <<net, seen, lag, barrier, lease, proof, view>>
      /\ bus' = Tail(bus) /\ bus # <<>>
      /\ (driven' => phys' \in Forced) /\ (driven' => driven \/ Head(bus) \in Forced)
  <2>1. CASE WriteApplied
    BY <2>1 DEF WriteApplied, EspIdle, HaIdle
  <2>2. CASE WriteLost
    BY <1>0, <2>2 DEF WriteLost, EspIdle, HaIdle
  <2>. QED  BY <2>1, <2>2
<1>2. /\ OnePoll => OnePoll' 
      /\ ForcedQueued' \/ Head(bus) \in Forced => ForcedQueued
      /\ Behind => Behind'
      /\ Armed' = Armed
  BY <1>1, Dequeued DEF Typed, Armed
<1>. QED  BY <1>1, <1>2 DEF FirmwareOk

LEMMA OutsideOk == ASSUME FirmwareOk, OutsideChange PROVE FirmwareOk'
<1>1. /\ UNCHANGED <<net, seen, lag, bus, barrier, lease, proof, view>> /\ driven' = FALSE
      /\ UNCHANGED <<OnePoll, Behind, Armed, ForcedQueued>>
  BY DEF OutsideChange, EspIdle, HaIdle, OnePoll, Behind, Armed, ForcedQueued
<1>. QED  BY <1>1 DEF FirmwareOk

\* What a reading leaves: no request is current, no block waits behind another
\* reading, and a lease that is still armed was read back or is not yet.
LEMMA ReadingIs ==
    ASSUME Typed, OnePoll, Reading
    PROVE  /\ seen' = phys /\ phys \in Blocks /\ lag' /\ UNCHANGED <<phys, driven, view>>
           /\ Behind' /\ OnePoll'
           /\ ForcedQueued' => ForcedQueued /\ ~Behind
           /\ \A m \in net' : ~m.cur
           /\ barrier' # None =>
                 /\ barrier # None /\ barrier'.expect = barrier.expect
                 /\ phys # barrier.expect /\ ~barrier.mism
           /\ Armed' => /\ Armed /\ lease' = lease
                        /\ barrier' = None => phys = lease.b
           /\ proof' # proof =>
                 /\ lease \in Leases /\ lease.st = "restoring" /\ lease' = None
                 /\ phys = lease.fb
<1>0. /\ bus # <<>> /\ Head(bus) = Poll /\ bus' = Tail(bus) /\ seen' = phys /\ lag'
      /\ UNCHANGED <<phys, driven, view>>
      /\ net' = Matters({[m EXCEPT !.cur = FALSE] : m \in net})
      /\ barrier' = BarrierAfter(phys) /\ LeaseAfter(phys)
  BY DEF Reading, EspIdle, HaIdle
<1>1. /\ phys \in Blocks /\ lease \in Leases \cup {None} /\ net \subseteq Requests
      /\ barrier \in [expect : Blocks, mism : BOOLEAN] \cup {None}
  BY DEF Typed, EspTyped, NetTyped
<1>2. Behind' /\ OnePoll' /\ (ForcedQueued' => ForcedQueued /\ ~Behind)
  BY <1>0, Dequeued DEF Typed
<1>3. \A m \in net' : ~m.cur
  <2>1. \A n \in Requests : ~[n EXCEPT !.cur = FALSE].cur
    BY DEF Requests
  <2>. QED  BY <1>0, <1>1, <2>1 DEF Matters
<1>4. barrier' # None =>
         /\ barrier # None /\ barrier'.expect = barrier.expect
         /\ phys # barrier.expect /\ ~barrier.mism
  BY <1>0, <1>1 DEF BarrierAfter
<1>5. \/ UNCHANGED <<lease, proof>> /\ (lease # None /\ lease.st = "armed" /\ barrier' = None
                                          => phys = lease.b)
      \/ lease \in Leases /\ LeaseExpires
      \/ lease \in Leases /\ lease.st = "armed" /\ LeaseEnds(FALSE)
      \/ lease \in Leases /\ lease.st = "restoring" /\ LeaseEnds(phys = lease.fb)
  <2>1. CASE lease = None \/ BarrierAfter(phys) # None
    BY <1>0, <2>1 DEF LeaseAfter
  <2>2. CASE lease # None /\ BarrierAfter(phys) = None /\ lease.st = "armed"
    BY <1>0, <1>1, <2>2 DEF LeaseAfter
  <2>3. CASE lease # None /\ BarrierAfter(phys) = None /\ lease.st = "restoring"
    BY <1>0, <1>1, <2>3 DEF LeaseAfter
  <2>4. CASE lease # None /\ BarrierAfter(phys) = None /\ lease.st \notin {"armed", "restoring"}
    BY <1>0, <2>4 DEF LeaseAfter
  <2>. QED  BY <2>1, <2>2, <2>3, <2>4
<1>6. ASSUME lease \in Leases, LeaseExpires PROVE ~Armed' /\ proof' = proof
  BY <1>6 DEF LeaseExpires, Armed, Leases
<1>7. ASSUME NEW proven, LeaseEnds(proven)
      PROVE  ~Armed' /\ lease' = None /\ (proof' # proof => proven)
  BY <1>7 DEF LeaseEnds, Armed
<1>8. /\ Armed' => /\ Armed /\ lease' = lease
                   /\ barrier' = None => phys = lease.b
      /\ proof' # proof => /\ lease \in Leases /\ lease.st = "restoring" /\ lease' = None
                           /\ phys = lease.fb
  <2>1. CASE UNCHANGED <<lease, proof>> /\ (lease # None /\ lease.st = "armed" /\ barrier' = None
                                          => phys = lease.b)
    BY <2>1 DEF Armed
  <2>2. CASE lease \in Leases /\ LeaseExpires
    BY <1>6, <2>2
  <2>3. CASE lease \in Leases /\ lease.st = "armed" /\ LeaseEnds(FALSE)
    BY <1>7, <2>3
  <2>4. CASE lease \in Leases /\ lease.st = "restoring" /\ LeaseEnds(phys = lease.fb)
    BY <1>7, <2>4
  <2>. QED  BY <1>5, <2>1, <2>2, <2>3, <2>4
<1>. QED  BY <1>0, <1>1, <1>2, <1>3, <1>4, <1>8

LEMMA ReadingOk == ASSUME Typed, FirmwareOk, Reading PROVE FirmwareOk'
<1>0. OnePoll
  BY DEF FirmwareOk
<1>. DEFINE Clears == barrier = None \/ barrier.mism \/ barrier.expect = phys
<1>1. /\ seen' = phys /\ phys \in Blocks /\ lag' /\ UNCHANGED <<phys, driven, view>>
      /\ Behind' /\ OnePoll'
      /\ ForcedQueued' => ForcedQueued /\ ~Behind
      /\ \A m \in net' : ~m.cur
      /\ Armed' => Armed /\ lease' = lease /\ (barrier' = None => phys = lease.b)
      /\ proof' # proof => /\ lease \in Leases /\ lease.st = "restoring" /\ lease' = None
                           /\ phys = lease.fb
  BY <1>0, ReadingIs
<1>2. barrier' = None => Clears
  <2>1. barrier' = BarrierAfter(phys) /\ barrier \in [expect : Blocks, mism : BOOLEAN] \cup {None}
    BY DEF Reading, Typed, EspTyped
  <2>2. ~Clears => barrier' = [barrier EXCEPT !.mism = TRUE]
    BY <2>1 DEF BarrierAfter
  <2>. QED  BY <2>1, <2>2, NoLeaseNoBarrier
<1>3. driven' => phys' \in Forced
  BY <1>1 DEF FirmwareOk
<1>4. barrier' = None /\ seen' \notin Forced \cup {None} => ~ForcedQueued' /\ ~driven'
  <2>1. SUFFICES ASSUME barrier' = None, phys \notin Forced PROVE ~ForcedQueued'
    BY <1>1, <1>3
  <2>2. Behind
    BY <1>2, <2>1 DEF FirmwareOk
  <2>. QED  BY <1>1, <2>2
<1>5. Armed' => seen' # None /\ (barrier' = None => seen' = lease'.b)
  BY <1>1, ExecutorBlocks
<1>6. proof'.id # 0 => ~driven' /\ ~Armed' /\ ~ForcedQueued'
  <2>1. CASE proof' = proof
    BY <1>1, <2>1 DEF FirmwareOk
  <2>2. CASE proof' # proof
    <3>1. lease \in Leases /\ lease # None /\ lease.st = "restoring" /\ lease' = None /\ phys = lease.fb
      BY <1>1, <2>2, NoLeaseNoBarrier
    <3>2. Behind /\ phys \notin Forced
      BY <3>1, LeaseFields, ExecutorBlocks DEF FirmwareOk
    <3>. QED  BY <1>1, <1>3, <3>1, <3>2 DEF Armed
  <2>. QED  BY <2>1, <2>2
<1>. QED  BY <1>1, <1>3, <1>4, <1>5, <1>6 DEF FirmwareOk

\* An accepted write is expected, at the end of the queue.
LEMMA QueuedIs ==
    ASSUME EspTyped, NEW b \in Blocks, Queued(b)
    PROVE  /\ bus' = Append(bus, b) /\ barrier' # None /\ barrier'.expect = b /\ ~barrier'.mism
           /\ ForcedQueued' <=> ForcedQueued \/ b \in Forced
           /\ Behind /\ b \notin Forced => Behind'
           /\ OnePoll => OnePoll'
<1>1. /\ bus' = Append(bus, b) /\ barrier' = [expect |-> b, mism |-> FALSE]
      /\ barrier' \in [expect : Blocks, mism : BOOLEAN]
  BY DEF Queued
<1>. QED  BY <1>1, Appended, PollIsNoWrite, NoLeaseNoBarrier

LEMMA ArmsOk ==
    ASSUME Typed, FirmwareOk, NEW m \in net, EspArms(m)
    PROVE  FirmwareOk'
<1>1. /\ UNCHANGED <<view, seen, lag, phys, driven>> /\ proof' = NoProof
      /\ Queued(m.b) /\ net' = net \ {m} /\ m.cur /\ lease'.st = "armed"
      /\ m.b \in Forced /\ m.b \in Blocks
  BY DEF EspArms, HaIdle, ArmAllowed, Answer, Typed, NetTyped, Blocks
<1>2. /\ barrier' # None /\ barrier'.expect \in Forced /\ ~barrier'.mism
      /\ OnePoll => OnePoll'
  BY <1>1, QueuedIs DEF Typed
<1>3. proof'.id = 0
  BY <1>1 DEF NoProof
<1>. QED  BY <1>1, <1>2, <1>3 DEF FirmwareOk, Armed

LEMMA RestoresOk ==
    ASSUME Typed, FirmwareOk, NEW m \in net, EspRestores(m)
    PROVE  FirmwareOk'
<1>1. /\ UNCHANGED <<view, seen, lag, phys, driven, lease, proof>>
      /\ Queued(m.b) /\ net' = net \ {m} /\ barrier = None
      /\ m.b \notin Forced /\ m.b \in Blocks
  BY DEF EspRestores, HaIdle, Answer, Typed, NetTyped, Requests
<1>2. /\ barrier' # None /\ (OnePoll => OnePoll') /\ (Behind => Behind')
      /\ ForcedQueued' <=> ForcedQueued
      /\ Armed' = Armed
  BY <1>1, QueuedIs DEF Typed, Armed
<1>. QED  BY <1>1, <1>2 DEF FirmwareOk

\* What the lease does by itself leaves no arm.
LEMMA TimerIs ==
    ASSUME Typed, LeaseTimer
    PROVE  /\ ~Armed' /\ UNCHANGED <<net, seen, lag, phys, driven, view>>
           /\ \/ lease' # None => lease'.st # "restoring"
              \/ barrier = None
           /\ \/ UNCHANGED <<bus, barrier>>
              \/ lease \in Leases /\ ~Armed /\ barrier = None /\ seen \in Forced /\ Queued(lease.fb)
           /\ proof' # proof =>
                 lease \in Leases /\ barrier = None /\ seen # None /\ seen = lease.fb
<1>0. lease \in Leases /\ UNCHANGED <<net, seen, lag, phys, driven, view>>
  BY DEF LeaseTimer, EspIdle, HaIdle, Typed, EspTyped
<1>1. CASE lease.st = "armed" /\ LeaseExpires /\ UNCHANGED <<bus, barrier>>
  <2>1. lease'.st = "expired" /\ proof' = proof
    BY <1>0, <1>1 DEF LeaseExpires, Leases
  <2>. QED  BY <1>0, <1>1, <2>1 DEF Armed
<1>2. CASE /\ lease.st = "expired" /\ barrier = None /\ seen \in {lease.b, lease.pred} /\ seen # None
           /\ Queued(lease.fb) /\ proof' = proof /\ lease' = [lease EXCEPT !.st = "restoring"]
  <2>1. lease'.st = "restoring" /\ seen \in Forced
    BY <1>0, <1>2 DEF Leases
  <2>. QED  BY <1>0, <1>2, <2>1 DEF Armed
<1>3. CASE /\ lease.st = "expired" /\ barrier = None /\ seen # None
           /\ LeaseEnds(seen = lease.fb) /\ UNCHANGED <<bus, barrier>>
  <2>1. lease' = None /\ (proof' # proof => seen = lease.fb)
    BY <1>3 DEF LeaseEnds
  <2>. QED  BY <1>0, <1>3, <2>1 DEF Armed
<1>. QED  BY <1>1, <1>2, <1>3 DEF LeaseTimer

LEMMA TimerOk == ASSUME Typed, FirmwareOk, LeaseTimer PROVE FirmwareOk'
<1>1. /\ ~Armed' /\ UNCHANGED <<net, seen, lag, phys, driven, view>>
      /\ \/ lease' # None => lease'.st # "restoring"
         \/ barrier = None
      /\ proof' # proof =>
            lease \in Leases /\ barrier = None /\ seen # None /\ seen = lease.fb
      /\ lease \in Leases => lease.fb \in SelfUse /\ lease.fb \in Blocks
  BY TimerIs, LeaseFields DEF Blocks
<1>2. CASE UNCHANGED <<bus, barrier>>
  <2>1. UNCHANGED <<OnePoll, Behind, ForcedQueued>>
    BY <1>2 DEF OnePoll, Behind, ForcedQueued
  <2>2. proof'.id # 0 => ~driven /\ ~ForcedQueued
    BY <1>1, ExecutorBlocks DEF FirmwareOk
  <2>3. lease' # None /\ lease'.st = "restoring" => Behind
    BY <1>1 DEF FirmwareOk
  <2>. QED  BY <1>1, <1>2, <2>1, <2>2, <2>3 DEF FirmwareOk
<1>3. CASE lease \in Leases /\ barrier = None /\ seen \in Forced /\ Queued(lease.fb)
  <2>1. /\ barrier' # None /\ (OnePoll => OnePoll') /\ (Behind => Behind')
        /\ ForcedQueued' <=> ForcedQueued
    BY <1>1, <1>3, QueuedIs, ExecutorBlocks DEF Typed
  <2>2. proof' = proof
    BY <1>1, <1>3, ExecutorBlocks
  <2>. QED  BY <1>1, <1>3, <2>1, <2>2 DEF FirmwareOk
<1>. QED  BY <1>2, <1>3, TimerIs

LEMMA BootOk == ASSUME Typed, FirmwareOk, EspRestart PROVE FirmwareOk'
<1>1. /\ seen' = None /\ bus' = <<>> /\ net' = {} /\ UNCHANGED <<phys, driven, proof>>
      /\ lease' = None \/ (lease \in Leases /\ lease' = [lease EXCEPT !.st = "expired"])
  BY DEF EspRestart, EspIdle, Typed, EspTyped
<1>2. OnePoll' /\ Behind' /\ ~ForcedQueued'
  BY <1>1 DEF OnePoll, Behind, ForcedQueued
<1>3. ~Armed'
  BY <1>1 DEF Armed, Leases
<1>. QED  BY <1>1, <1>2, <1>3 DEF FirmwareOk

LEMMA ReceivedOk ==
    ASSUME Typed, FirmwareOk, NEW lost \in BOOLEAN, ReadingReceived(lost)
    PROVE  FirmwareOk'
<1>1. view' = seen /\ ~lag' /\ UNCHANGED <<net, seen, bus, phys, barrier, lease, driven>>
  BY DEF ReadingReceived
<1>2. proof'.id = proof.id
  BY DEF ReadingReceived, Typed, EspTyped
<1>3. UNCHANGED <<OnePoll, Behind, Armed, ForcedQueued>>
  BY <1>1 DEF OnePoll, Behind, Armed, ForcedQueued
<1>. QED  BY <1>1, <1>2, <1>3 DEF FirmwareOk

\* What Home Assistant does changes nothing in the firmware.
HaStep == Dispatching \/ Reconcile \/ RequestMasterStop \/ RetryPersistence \/ Restart
LEMMA HaStill ==
    ASSUME HaStep
    PROVE  /\ UNCHANGED <<seen, lag, bus, phys, barrier, lease, proof, driven>>
           /\ view' \in {view, None} /\ (~Restart => view' = view)
<1>1. CASE \/ Select \/ PrepareStart \/ Unblock \/ Deadline \/ Observe
           \/ Verify \/ Sustain \/ Retarget \/ Stopping \/ Rearm
  BY <1>1 DEF Select, PrepareStart, Unblock, Deadline, Observe, Verify, Sustain, Retarget,
     Stopping, PrepareRestore, DenyRestore, Settle, ObserveRestored, Rearm, Quiet, espVars, espOwn
<1>2. CASE \/ StartRejected \/ RestoreRejected \/ RetargetRejected \/ StartAnswered
           \/ RetargetAnswered \/ RestoreAnswered \/ StartAgain \/ RetargetAgain
  BY <1>2 DEF StartRejected, RestoreRejected, RetargetRejected, StartAnswered,
     RetargetAnswered, RestoreAnswered, StartAgain, RetargetAgain, Quiet, Taken, espVars, espOwn
<1>3. CASE DispatchTimesOut \/ Restart \/ Start \/ SendArm \/ SendRestore
  BY <1>3 DEF DispatchTimesOut, Restart, Start, SendArm, SendRestore, Send, espVars, espOwn
<1>4. CASE RequestMasterStop \/ RetryPersistence
  BY <1>4 DEF RequestMasterStop, RetryPersistence, Quiet, espVars, espOwn
<1>. QED  BY <1>1, <1>2, <1>3, <1>4 DEF HaStep, Dispatching, Reconcile

LEMMA FirmwareStep == ASSUME Typed, FirmwareOk, [Next]_vars PROVE FirmwareOk'
<1>1. CASE HaStep
  <2>1. /\ UNCHANGED <<seen, lag, bus, phys, barrier, lease, proof, driven>>
        /\ view' \in {view, None}
    BY <1>1, HaStill
  <2>2. Passes \/ \A m \in net' : m \in net \/ m.cur = (seen # None /\ ~lag)
    <3>1. CASE Passes
      BY <3>1
    <3>2. CASE SendArm \/ SendRestore
      BY <3>2 DEF SendArm, SendRestore, Send, Request
    <3>. QED  BY <1>1, <3>1, <3>2, CarriedOn DEF Typed, HaStep, Next
  <2>. QED  BY <2>1, <2>2, FirmwareStill
<1>2. CASE PollDue \/ WriteApplied \/ WriteLost \/ Reading \/ LeaseTimer
  BY <1>2, PollOk, WriteOk, ReadingOk, TimerOk
<1>3. CASE \E m \in net : EspArms(m) \/ EspRestores(m)
  BY <1>3, ArmsOk, RestoresOk
<1>4. CASE \E m \in net : EspRefuses(m) \/ RequestLost(m)
  <2>1. PICK m \in net : EspRefuses(m) \/ RequestLost(m)
    BY <1>4
  <2>2. /\ UNCHANGED <<seen, lag, bus, phys, barrier, lease, proof, driven, view>>
        /\ net' = net \ {m}
    BY <2>1 DEF EspRefuses, RequestLost, Answer, HaIdle, espVars, espOwn
  <2>. QED  BY <2>2, FirmwareStill
<1>5. CASE OutsideChange \/ EspRestart \/ \E lost \in BOOLEAN : ReadingReceived(lost)
  BY <1>5, OutsideOk, BootOk, ReceivedOk
<1>6. CASE UNCHANGED vars
  BY <1>6, FirmwareStill DEF vars, haVars, espVars, espOwn
<1>. QED  BY <1>1, <1>2, <1>3, <1>4, <1>5, <1>6 DEF Next, Firmware, HaStep

LEMMA InitFirmware == ASSUME Init PROVE FirmwareOk
<1>1. /\ seen = None /\ bus = <<>> /\ net = {} /\ lease = None /\ proof.id = 0 /\ ~driven
  BY DEF Init, NoProof
<1>. QED  BY <1>1 DEF FirmwareOk, OnePoll, Behind, ForcedQueued, Armed

-----------------------------------------------------------------------------
(* What a step hands on of a record that owns something.                   *)

\* The same base of the same owner, and of what was sent nothing new.
Kin(t, u) ==
    /\ u \in Transactions /\ u.own = t.own /\ u.base = t.base
    /\ u.sent = "no" \/ (u.sent = t.sent /\ u.b = t.b /\ (u.ack => t.ack))
Heir(r, q) ==
    /\ q.tx # None /\ Kin(r.tx, q.tx) /\ q.st \in Settled
    /\ q.st = "restoring" =>
          r.st = "restoring" /\ q.tx.rsent = r.tx.rsent /\ Target(q.tx) = Target(r.tx)

LEMMA HeirLike ==
    ASSUME NEW r, NEW p, Heir(r, p), NEW q, q.st = p.st, q.tx = p.tx
    PROVE  Heir(r, q)
BY DEF Heir

LEMMA PublishHeir ==
    ASSUME NEW r, NEW p \in Records, NEW t, Kin(r.tx, t), NEW st \in Settled \ {"restoring"}
    PROVE  Heir(r, Publish(p, st, t)) /\ Publish(p, st, t) \in Records
<1>1. st \in States /\ t \in Transactions
  BY DEF Settled, Kin
<1>2. /\ Publish(p, st, t) \in Records /\ Publish(p, st, t).st = st
      /\ Publish(p, st, t).tx \in Transactions /\ Publish(p, st, t).tx = [t EXCEPT !.st = st]
  BY <1>1, PublishIs
<1>. DEFINE u == Publish(p, st, t).tx
<1>3. u.own = t.own /\ u.base = t.base /\ u.sent = t.sent /\ u.b = t.b /\ u.ack = t.ack
  BY <1>1, <1>2, StateOnly
<1>4. Kin(r.tx, u) /\ u # None
  BY <1>2, <1>3, NoTransaction DEF Kin
<1>. QED  BY <1>2, <1>4 DEF Heir

LEMMA OwnKin ==
    ASSUME NEW r, Shape(r), Owned(r)
    PROVE  /\ r \in Records /\ r.tx \in Transactions /\ r.tx # None /\ Kin(r.tx, r.tx)
           /\ r.st \in States \ {"idle", "selected", "blocked"}
           /\ r.st # "starting" => Heir(r, r)
<1>1. r \in Records /\ r.tx \in Transactions /\ r.tx # None /\ r.tx.own # "none"
      /\ WellFormed(r.st, r.tx)
  BY StopOf
<1>2. r.st \in States \ {"idle", "selected", "blocked"}
  BY <1>1, Fields DEF WellFormed
<1>. QED  BY <1>1, <1>2 DEF Kin, Heir, Settled

\* Faults and stops change what no sent command depends on.
LEMMA EndsHeir ==
    ASSUME NEW r, Shape(r), Owned(r)
    PROVE  /\ Heir(r, Fault(r, r.tx)) /\ Heir(r, OutcomeUnknown(r)) /\ Heir(r, Contradicted(r))
           /\ Heir(r, StopRequested(r)) /\ Heir(r, RollbackFailed(r)) /\ Heir(r, Hold(r))
           /\ Heir(r, RestoreUnknown(r))
<1>1. r \in Records /\ r.tx \in Transactions /\ Kin(r.tx, r.tx)
  BY OwnKin
<1>2. "fault" \in Settled \ {"restoring"} /\ "stopping" \in Settled \ {"restoring"}
  BY DEF Settled, States
<1>3. ASSUME NEW t, Kin(r.tx, t), NEW rb \in {"pending", "failed"}
      PROVE  Kin(r.tx, [t EXCEPT !.rb = rb])
  BY <1>3 DEF Kin, Transactions
<1>4. \A t : Kin(r.tx, t) => Heir(r, Fault(r, t)) /\ Fault(r, t) \in Records
  BY <1>1, <1>2, <1>3, PublishHeir DEF Fault
<1>5. Heir(r, Contradicted(r))
  <2>1. Kin(r.tx, [r.tx EXCEPT !.ack = FALSE])
    BY <1>1 DEF Kin, Transactions
  <2>. QED  BY <1>4, <2>1 DEF Contradicted
<1>6. Heir(r, StopRequested(r))
  BY <1>1, <1>2, <1>3, PublishHeir DEF StopRequested
<1>7. ASSUME NEW p \in Records, Heir(r, p), NEW x
      PROVE  Heir(r, [p EXCEPT !.mst = x]) /\ Heir(r, [p EXCEPT !.held = TRUE, !.mst = x])
  <2>1. /\ [p EXCEPT !.mst = x].st = p.st /\ [p EXCEPT !.mst = x].tx = p.tx
        /\ [p EXCEPT !.held = TRUE, !.mst = x].st = p.st
        /\ [p EXCEPT !.held = TRUE, !.mst = x].tx = p.tx
    BY DEF Records
  <2>. QED  BY <1>7, <2>1, HeirLike
<1>8. Heir(r, RollbackFailed(r))
  <2>1. Kin(r.tx, [r.tx EXCEPT !.rb = "failed"])
    BY <1>1, <1>3
  <2>. QED  BY <1>1, <1>2, <1>7, <2>1, PublishHeir DEF RollbackFailed
<1>9. Heir(r, Hold(r))
  <2>1. CASE r.st = "fault" /\ r.held
    BY <2>1, OwnKin DEF Hold
  <2>2. CASE ~(r.st = "fault" /\ r.held)
    BY <1>1, <1>4, <1>7, <2>2 DEF Hold
  <2>. QED  BY <2>1, <2>2
<1>10. Heir(r, RestoreUnknown(r))
  <2>1. Kin(r.tx, RestoreDropped(r.tx))
    BY <1>1, DroppedIs DEF Kin
  <2>. QED  BY <1>4, <2>1 DEF RestoreUnknown
<1>. QED  BY <1>1, <1>4, <1>5, <1>6, <1>8, <1>9, <1>10 DEF OutcomeUnknown

LEMMA WorkHeir ==
    ASSUME NEW r, Shape(r), Owned(r), NEW v
    PROVE  /\ \A q \in ObservePhysical(r) : q # r => Heir(r, q)
           /\ \A q \in Continue(r, v) : q # r => Heir(r, q)
           /\ \A q \in ObserveReadback(r, v) :
                 q # r => \/ Heir(r, q)
                          \/ /\ q = [r EXCEPT !.tx.ack = TRUE] /\ r.tx.sent = "newer"
                             /\ v = r.tx.b
<1>1. r \in Records /\ Kin(r.tx, r.tx) /\ "executing" \in Settled \ {"restoring"}
  BY OwnKin DEF Settled, States
<1>2. Heir(r, Publish(r, "executing", r.tx))
  BY <1>1, PublishHeir
<1>3. Heir(r, Fault(r, r.tx)) /\ Heir(r, Contradicted(r)) /\ Heir(r, StopRequested(r))
  BY EndsHeir
<1>4. \A q \in ObservePhysical(r) : q # r => Heir(r, q)
  BY <1>2, <1>3 DEF ObservePhysical
<1>5. \A q \in Continue(r, v) : q # r => Heir(r, q)
  BY <1>3 DEF Continue
<1>6. \A q \in ObserveReadback(r, v) :
         q # r => \/ Heir(r, q)
                  \/ q = [r EXCEPT !.tx.ack = TRUE] /\ r.tx.sent = "newer" /\ v = r.tx.b
  BY <1>3 DEF ObserveReadback
<1>. QED  BY <1>4, <1>5, <1>6

\* A retarget that is prepared has sent nothing yet; the one cancelled has its
\* predecessor's transaction again.
LEMMA RetargetHeir ==
    ASSUME NEW r, Shape(r), r.st = "executing", NEW v \in Blocks, NEW b \in Forced,
           NEW q \in PrepareRetarget(r, v, b)
    PROVE  /\ Heir(r, q)
           /\ q.st = "retargeting" =>
                 /\ r.tx.sent = "newer" /\ v = r.tx.b
                 /\ q.tx.sent = "no" /\ ~q.tx.ack /\ q.tx.pre = Snap(v)
                 /\ q.tx.base = r.tx.base
<1>. DEFINE t == [r.tx EXCEPT !.b = b, !.pre = Snap(v), !.sent = "no", !.ack = FALSE,
                    !.rb = "pending", !.rcmd = FALSE, !.rsnap = None, !.rsent = "no",
                    !.moved = FALSE, !.att = 0]
<1>0. /\ r \in Records /\ r.tx \in Transactions /\ Owned(r)
      /\ Heir(r, StopRequested(r)) /\ Heir(r, Contradicted(r))
      /\ Contradicted(r).st = "fault" /\ StopRequested(r).st \in {"stopping", "idle"}
  BY WorkingIs, EndsHeir, EndStates DEF Working
<1>1. CASE q = StopRequested(r) \/ q = Contradicted(r)
  BY <1>0, <1>1
<1>2. CASE q = Publish(r, "retargeting", t) /\ r.tx.sent = "newer" /\ v = r.tx.b
  <2>1. Snap(v) \in Snapshots /\ 0 \in 0..2 /\ b \in Blocks
    BY SnapType DEF Blocks
  <2>2. t \in Transactions
    <3>1. [r.tx EXCEPT !.b = b, !.pre = Snap(v), !.sent = "no", !.ack = FALSE,
             !.rb = "pending"] \in Transactions
      BY <1>0, <2>1 DEF Transactions, Ages
    <3>2. ASSUME NEW u \in Transactions
          PROVE  /\ [u EXCEPT !.rcmd = FALSE] \in Transactions
                 /\ [u EXCEPT !.rsnap = None] \in Transactions
                 /\ [u EXCEPT !.rsent = "no"] \in Transactions
                 /\ [u EXCEPT !.moved = FALSE] \in Transactions
                 /\ [u EXCEPT !.att = 0] \in Transactions
      <4>1. [u EXCEPT !.rcmd = FALSE] \in Transactions /\ [u EXCEPT !.moved = FALSE] \in Transactions
        BY DEF Transactions
      <4>2. [u EXCEPT !.rsnap = None] \in Transactions
        BY DEF Transactions
      <4>3. [u EXCEPT !.rsent = "no"] \in Transactions
        BY DEF Transactions
      <4>4. [u EXCEPT !.att = 0] \in Transactions
        BY <2>1 DEF Transactions
      <4>. QED  BY <4>1, <4>2, <4>3, <4>4
    <3>. QED  BY <3>1, <3>2
  <2>3. t.own = r.tx.own /\ t.base = r.tx.base /\ t.sent = "no" /\ ~t.ack /\ t.pre = Snap(v)
    BY <1>0, SMT DEF Transactions
  <2>. HIDE DEF t
  <2>4. Kin(r.tx, t) /\ "retargeting" \in Settled \ {"restoring"} /\ "retargeting" \in States
    BY <2>2, <2>3 DEF Kin, Settled, States
  <2>5. q.tx = [t EXCEPT !.st = "retargeting"] /\ q.tx \in Transactions
    BY <1>0, <1>2, <2>2, <2>4, PublishIs
  <2>6. q.tx.base = t.base /\ q.tx.sent = t.sent /\ q.tx.ack = t.ack /\ q.tx.pre = t.pre
    BY <2>2, <2>5, StateOnly
  <2>. QED  BY <1>0, <1>2, <2>3, <2>4, <2>6, PublishHeir
<1>. QED  BY <1>1, <1>2 DEF PrepareRetarget

LEMMA CancelIs ==
    ASSUME NEW r, Shape(r), Owned(r), NEW v, NEW p \in Transactions,
           NEW q \in CancelRetarget(r, p, v)
    PROVE  \/ q = StopRequested(r) /\ Heir(r, q)
           \/ /\ q.st = "executing" /\ q.tx # None /\ Kin(p, q.tx) /\ p.sent = "newer" /\ v = p.b
              /\ q = Publish(r, "executing", p)
<1>1. r \in Records /\ Heir(r, StopRequested(r)) /\ "executing" \in States
  BY OwnKin, EndsHeir DEF States
<1>2. CASE q = Publish(r, "executing", p) /\ p.sent = "newer" /\ v = p.b
  <2>1. q.st = "executing" /\ q.tx \in Transactions /\ q.tx = [p EXCEPT !.st = "executing"]
    BY <1>1, <1>2, PublishIs
  <2>2. Kin(p, q.tx) /\ q.tx # None
    BY <2>1, StateOnly, NoTransaction DEF Kin
  <2>. QED  BY <1>2, <2>1, <2>2
<1>. QED  BY <1>1, <1>2 DEF CancelRetarget

\* A command that was sent is the one that was prepared.
LEMMA SentIs ==
    ASSUME NEW r, Shape(r), Owned(r), r.st \in {"starting", "retargeting"}, NEW lid \in Nat,
           NEW q \in MarkSent(r, lid)
    PROVE  /\ q.st \in Settled \ {"restoring"} /\ q.tx # None
           /\ q.tx.own = r.tx.own /\ q.tx.base = r.tx.base /\ q.tx.b = r.tx.b
           /\ q.tx.ack = r.tx.ack /\ q.tx.sent = "same"
<1>. DEFINE t == [r.tx EXCEPT !.sent = "same", !.lid = lid]
            f == [t EXCEPT !.rb = "pending"]
<1>0. r \in Records /\ r.tx \in Transactions
  BY OwnKin
<1>1. t \in Transactions
  BY <1>0 DEF Transactions, Ages
<1>2. /\ t.own = r.tx.own /\ t.base = r.tx.base /\ t.b = r.tx.b /\ t.ack = r.tx.ack
      /\ t.sent = "same"
  BY <1>0, SMT DEF Transactions
<1>. HIDE DEF t
<1>3. /\ f \in Transactions
      /\ f.own = t.own /\ f.base = t.base /\ f.b = t.b /\ f.ack = t.ack /\ f.sent = t.sent
  BY <1>1 DEF Transactions
<1>. HIDE DEF f
<1>4. ASSUME NEW st \in {"waiting", "retargeting", "fault"}, NEW u \in {t, f},
             q = Publish(r, st, u)
      PROVE  /\ q.st = st /\ q.tx # None
             /\ q.tx.own = r.tx.own /\ q.tx.base = r.tx.base /\ q.tx.b = r.tx.b
             /\ q.tx.ack = r.tx.ack /\ q.tx.sent = "same"
  <2>1. u \in Transactions /\ st \in States
    BY <1>1, <1>3, <1>4 DEF States
  <2>2. q.st = st /\ q.tx \in Transactions /\ q.tx = [u EXCEPT !.st = st]
    BY <1>0, <1>4, <2>1, PublishIs
  <2>3. /\ q.tx.own = u.own /\ q.tx.base = u.base /\ q.tx.b = u.b
        /\ q.tx.ack = u.ack /\ q.tx.sent = u.sent
    BY <2>1, <2>2, StateOnly
  <2>. QED  BY <1>2, <1>3, <2>2, <2>3, NoTransaction
<1>5. \E st \in {"waiting", "retargeting", "fault"}, u \in {t, f} : q = Publish(r, st, u)
  BY DEF MarkSent, Fault, t, f
<1>. QED  BY <1>4, <1>5 DEF Settled, States

LEMMA NotQueuedHeir ==
    ASSUME NEW r, Shape(r), Owned(r), PreparedUnsent(r.tx), r.tx.refused < 2,
           NEW q \in RestoreNotQueued(r)
    PROVE  Heir(r, q)
<1>. DEFINE d == RestoreDropped(r.tx)
            n == IF d.att = 0 THEN 0 ELSE d.att - 1
            k == d.refused + 1
            t == [d EXCEPT !.rb = "pending", !.att = n, !.refused = k]
            f == [t EXCEPT !.rb = "pending"]
            p == Publish(r, "fault", f)
            h == [p EXCEPT !.held = TRUE]
<1>0. r \in Records /\ r.tx \in Transactions
  BY OwnKin
<1>1. /\ d \in Transactions /\ d.att = r.tx.att /\ d.refused = r.tx.refused
      /\ d.own = r.tx.own /\ d.base = r.tx.base /\ d.sent = r.tx.sent /\ d.b = r.tx.b
      /\ d.ack = r.tx.ack
  BY <1>0, DroppedIs
<1>2. q = h \/ q = Publish(r, "stopping", t)
  BY DEF RestoreNotQueued, Fault
<1>. HIDE DEF d
<1>3. n \in 0..2 /\ k \in 0..2
  BY <1>0, <1>1, Fields
<1>. HIDE DEF n, k
<1>4. t \in Transactions
  BY <1>1, <1>3, Zenon DEF Transactions
<1>5. t.own = d.own /\ t.base = d.base /\ t.sent = d.sent /\ t.b = d.b /\ t.ack = d.ack
  BY <1>1, SMT DEF Transactions
<1>. HIDE DEF t
<1>6. Kin(r.tx, t)
  BY <1>1, <1>4, <1>5 DEF Kin
<1>7. Kin(r.tx, f)
  BY <1>6 DEF Kin, Transactions
<1>. HIDE DEF f
<1>8. "fault" \in Settled \ {"restoring"} /\ "stopping" \in Settled \ {"restoring"}
  BY DEF Settled, States
<1>9. Heir(r, p) /\ p \in Records /\ Heir(r, Publish(r, "stopping", t))
  BY <1>0, <1>6, <1>7, <1>8, PublishHeir
<1>. HIDE DEF p
<1>10. Heir(r, h)
  <2>1. h.st = p.st /\ h.tx = p.tx
    BY <1>9 DEF Records
  <2>. QED  BY <1>9, <2>1, HeirLike
<1>. QED  BY <1>2, <1>9, <1>10

\* The restore that was sent is that of the same target.
LEMMA RestoreSentIs ==
    ASSUME NEW r, Shape(r), Owned(r), NEW q, q = MarkRestoreSent(r)
    PROVE  /\ q.st = "restoring" /\ q.tx # None /\ Kin(r.tx, q.tx)
           /\ q.tx.rsent = "same" /\ Target(q.tx) = Target(r.tx)
<1>. DEFINE t == [r.tx EXCEPT !.rsent = "same"]
<1>0. r \in Records /\ r.tx \in Transactions /\ "restoring" \in States
  BY OwnKin DEF States
<1>1. /\ t \in Transactions /\ t.rsent = "same" /\ t.own = r.tx.own /\ t.base = r.tx.base
      /\ t.sent = r.tx.sent /\ t.b = r.tx.b /\ t.ack = r.tx.ack /\ t.master = r.tx.master
  BY <1>0, SMT DEF Transactions, Ages
<1>a. q = Publish(r, "restoring", t)
  BY DEF MarkRestoreSent
<1>. HIDE DEF t
<1>2. q.st = "restoring" /\ q.tx \in Transactions /\ q.tx = [t EXCEPT !.st = "restoring"]
  BY <1>0, <1>1, <1>a, PublishIs
<1>3. /\ q.tx.rsent = t.rsent /\ q.tx.own = t.own /\ q.tx.base = t.base /\ q.tx.sent = t.sent
      /\ q.tx.b = t.b /\ q.tx.ack = t.ack /\ q.tx.master = t.master
  BY <1>1, <1>2, StateOnly
<1>. QED  BY <1>1, <1>2, <1>3, NoTransaction DEF Kin, Target

LEMMA RestoreHeir ==
    ASSUME NEW r, Shape(r), r.st \in Resting, NEW v \in Blocks,
           NEW verdict, verdict = Verdict(r.tx, v), verdict # "done"
    PROVE  Heir(r, RestoreOn(r, v, verdict))
<1>0. r \in Records /\ r.tx \in Transactions /\ r.tx # None /\ Owned(r) /\ Heir(r, r)
  <2>1. Owned(r)
    BY ShapeTx DEF Shape, WellFormed, Owned, Resting
  <2>. QED  BY <2>1, OwnKin DEF Resting
<1>1. Snap(v) \in Snapshots
  BY SnapType
<1>2. CASE verdict = "wait"
  BY <1>0, <1>2 DEF RestoreOn
<1>3. CASE verdict = "barrier"
  <2>. DEFINE t == [r.tx EXCEPT !.rsnap = Snap(v)]
              q == [r EXCEPT !.tx = t]
  <2>1. Kin(r.tx, t)
    BY <1>0, <1>1 DEF Transactions, Kin
  <2>. HIDE DEF t
  <2>2. q.tx = t /\ q.st = r.st
    BY <1>0 DEF Records
  <2>. HIDE DEF q
  <2>3. Heir(r, q)
    BY <1>0, <2>1, <2>2, NoTransaction DEF Heir, Kin, Resting
  <2>. QED  BY <1>3, <2>3 DEF RestoreOn, q, t
<1>4. CASE verdict \in {"failed", "hold"}
  BY <1>0, <1>4, EndsHeir DEF RestoreOn
<1>5. CASE verdict = "write"
  <2>. DEFINE n == r.tx.att + (IF PreparedUnsent(r.tx) THEN 0 ELSE 1)
              t == [r.tx EXCEPT !.rcmd = TRUE, !.rsnap = Snap(v), !.moved = FALSE,
                      !.rb = "pending", !.rsent = "no", !.att = n]
              m == IF r.tx.master THEN "running" ELSE r.mst
              q == [r EXCEPT !.tx = t, !.held = FALSE, !.mst = m]
  <2>1. n \in 0..2
    BY <1>0, <1>5, Fields DEF Verdict
  <2>. HIDE DEF n
  <2>2. t \in Transactions
    BY <1>0, <1>1, <2>1 DEF Transactions, Ages
  <2>3. t.own = r.tx.own /\ t.base = r.tx.base /\ t.sent = r.tx.sent /\ t.b = r.tx.b /\ t.ack = r.tx.ack
    BY <1>0, SMT DEF Transactions
  <2>. HIDE DEF t, m
  <2>4. q.tx = t /\ q.st = r.st
    BY <1>0 DEF Records
  <2>. HIDE DEF q
  <2>5. Heir(r, q)
    BY <1>0, <2>2, <2>3, <2>4, NoTransaction DEF Heir, Kin, Resting
  <2>6. RestoreOn(r, v, verdict) = q
    BY <1>5 DEF RestoreOn, RestorePrepared, q, m, t, n
  <2>. QED  BY <2>5, <2>6
<1>6. verdict \in {"wait", "barrier", "done", "failed", "hold", "write"}
  BY DEF Verdict
<1>. QED  BY <1>2, <1>3, <1>4, <1>5, <1>6

LEMMA RestoredHeir ==
    ASSUME NEW r, Shape(r), Owned(r), r.st = "restoring", NEW v \in Blocks
    PROVE  \/ Heir(r, ObserveRestore(r, v))
           \/ /\ ObserveRestore(r, v) = Finished(r) /\ r.tx.rsent = "newer" /\ v = Target(r.tx)
<1>0. r \in Records /\ r.tx \in Transactions /\ Heir(r, r) /\ Heir(r, RollbackFailed(r))
  BY OwnKin, EndsHeir
<1>1. Snap(v) \in Snapshots
  BY SnapType
<1>2. Heir(r, [r EXCEPT !.tx = [r.tx EXCEPT !.rsnap = Snap(v), !.moved = TRUE]])
  <2>. DEFINE t == [r.tx EXCEPT !.rsnap = Snap(v), !.moved = TRUE]
              q == [r EXCEPT !.tx = t]
  <2>1. /\ Kin(r.tx, t) /\ t.rsent = r.tx.rsent /\ Target(t) = Target(r.tx)
    BY <1>0, <1>1 DEF Transactions, Kin, Target
  <2>. HIDE DEF t
  <2>2. q.tx = t /\ q.st = r.st
    BY <1>0 DEF Records
  <2>. HIDE DEF q
  <2>3. Heir(r, q)
    BY <1>0, <2>1, <2>2, NoTransaction DEF Heir, Kin
  <2>. QED  BY <2>3 DEF q, t
<1>3. Heir(r, Publish(r, "stopping", [RestoreDropped(r.tx) EXCEPT !.rsnap = Snap(v)]))
  <2>. DEFINE d == RestoreDropped(r.tx)
              t == [d EXCEPT !.rsnap = Snap(v)]
  <2>1. Kin(r.tx, d)
    BY <1>0, DroppedIs DEF Kin
  <2>. HIDE DEF d
  <2>2. Kin(r.tx, t)
    BY <1>1, <2>1 DEF Kin, Transactions
  <2>. HIDE DEF t
  <2>3. "stopping" \in Settled \ {"restoring"}
    BY DEF Settled, States
  <2>4. Heir(r, Publish(r, "stopping", t))
    BY <1>0, <2>2, <2>3, PublishHeir
  <2>. QED  BY <2>4 DEF t, d
<1>. QED  BY <1>0, <1>2, <1>3 DEF ObserveRestore

LEMMA MasterHeir ==
    ASSUME NEW r, Shape(r), Owned(r), NEW v, NEW q \in MasterStop(r, v)
    PROVE  Heir(r, q)
<1>0. r \in Records /\ r.tx \in Transactions /\ Latched(r) \in Records
  BY OwnKin, LatchedIs
<1>1. "fault" \in Settled \ {"restoring"} /\ "stopping" \in Settled \ {"restoring"}
  BY DEF Settled, States
<1>. DEFINE l == Latched(r)
<1>2. Heir(r, StopBlocked(r))
  <2>. DEFINE t == [r.tx EXCEPT !.master = TRUE]
              p == Publish(l, "fault", t)
              q1 == [p EXCEPT !.mst = "blocked"]
  <2>1. Kin(r.tx, t)
    BY <1>0 DEF Kin, Transactions
  <2>. HIDE DEF t, l
  <2>2. Heir(r, p) /\ p \in Records
    BY <1>0, <1>1, <2>1, PublishHeir DEF l
  <2>. HIDE DEF p
  <2>3. q1.st = p.st /\ q1.tx = p.tx
    BY <2>2 DEF Records
  <2>. HIDE DEF q1
  <2>4. Heir(r, q1)
    BY <2>2, <2>3, HeirLike
  <2>. QED  BY <2>4 DEF StopBlocked, q1, p, l, t
<1>3. Heir(r, StopTakesOver(r))
  <2>. DEFINE d == RestoreDropped(r.tx)
              t == [d EXCEPT !.rb = "pending", !.rsnap = None, !.att = 0, !.master = TRUE]
  <2>1. Kin(r.tx, d) /\ d \in Transactions
    BY <1>0, DroppedIs DEF Kin
  <2>. HIDE DEF d, l
  <2>2. 0 \in 0..2
    OBVIOUS
  <2>3. t \in Transactions
    BY <2>1, <2>2, Zenon DEF Transactions
  <2>4. t.own = d.own /\ t.base = d.base /\ t.sent = d.sent /\ t.b = d.b /\ t.ack = d.ack
    BY <2>1, SMT DEF Transactions
  <2>. HIDE DEF t
  <2>5. Kin(r.tx, t)
    BY <2>1, <2>3, <2>4 DEF Kin
  <2>6. Heir(r, Publish(l, "stopping", t))
    BY <1>0, <1>1, <2>5, PublishHeir DEF l
  <2>. QED  BY <2>6 DEF StopTakesOver, t, d, l
<1>. QED  BY <1>2, <1>3 DEF MasterStop

LEMMA RecoverHeir ==
    ASSUME NEW r, Shape(r), Owned(r)
    PROVE  Heir(r, Recovered(r))
<1>0. r \in Records /\ r.tx \in Transactions /\ r.tx # None
  BY OwnKin
<1>1. CASE RestoreInFlight(r)
  BY <1>0, <1>1, OwnKin DEF Recovered, RestoreInFlight
<1>2. CASE ~RestoreInFlight(r)
  <2>. DEFINE d == RestoreDropped(r.tx)
              t == [d EXCEPT !.rb = "pending"]
              p == Publish(r, "stopping", t)
              q == [p EXCEPT !.mst = r.mst]
  <2>1. Kin(r.tx, d)
    BY <1>0, DroppedIs DEF Kin
  <2>. HIDE DEF d
  <2>2. Kin(r.tx, t) /\ "stopping" \in Settled \ {"restoring"}
    BY <2>1 DEF Kin, Transactions, Settled, States
  <2>. HIDE DEF t
  <2>3. Heir(r, p) /\ p \in Records
    BY <1>0, <2>2, PublishHeir
  <2>. HIDE DEF p
  <2>4. q.st = p.st /\ q.tx = p.tx
    BY <2>3 DEF Records
  <2>. HIDE DEF q
  <2>5. Heir(r, q)
    BY <2>3, <2>4, HeirLike
  <2>. QED  BY <1>0, <1>2, <2>5 DEF Recovered, q, p, t, d
<1>. QED  BY <1>1, <1>2

-----------------------------------------------------------------------------
(* What is being dispatched is what the record and the Store say.          *)

NotSent(r) == r.st \in {"selected", "starting"} => r.tx.sent = "no" /\ ~r.tx.ack

LEMMA ChosenNotSent ==
    ASSUME NEW r, Shape(r), NEW b \in Blocks
    PROVE  NotSent(SelectIntent(r, b))
<1>. DEFINE u == Unowned("selected", b)
            q == Publish(r, "selected", u)
<1>0. r \in Records /\ "selected" \in States /\ "blocked" \in States
  BY DEF Shape, States
<1>1. u \in Transactions /\ u.sent = "no" /\ ~u.ack
  BY <1>0, UnownedIs DEF Unowned
<1>. HIDE DEF u
<1>2. q.tx = [u EXCEPT !.st = "selected"]
  BY <1>0, <1>1, PublishIs
<1>3. q.tx.sent = "no" /\ ~q.tx.ack
  BY <1>1, <1>2, StateOnly
<1>. HIDE DEF q
<1>4. Publish(r, "blocked", Unowned("blocked", b)).st = "blocked"
  BY <1>0, PublishState
<1>. QED  BY <1>3, <1>4 DEF SelectIntent, NotSent, q, u

LEMMA StartNotSent ==
    ASSUME NEW r, Shape(r), r.st = "selected", NotSent(r), NEW v \in Blocks,
           NEW q \in StartOn(r, v) \cup {StopRequested(r)}
    PROVE  NotSent(q)
<1>0. r \in Records /\ r.tx \in Transactions /\ "starting" \in States
      /\ r.tx.sent = "no" /\ ~r.tx.ack
  BY ShapeTx DEF Shape, States, NotSent
<1>1. CASE q = Blocked(r) \/ q = StopRequested(r)
  BY <1>0, <1>1, EndStates DEF NotSent
<1>2. CASE q = Publish(r, "starting", [r.tx EXCEPT !.own = "auto", !.base = v])
  <2>. DEFINE t == [r.tx EXCEPT !.own = "auto", !.base = v]
  <2>0. t \in Transactions
    BY <1>0 DEF Transactions
  <2>1. t.sent = "no" /\ ~t.ack
    BY <1>0, SMT DEF Transactions
  <2>. HIDE DEF t
  <2>2. q = Publish(r, "starting", t)
    BY <1>2 DEF t
  <2>3. q.tx = [t EXCEPT !.st = "starting"]
    BY <1>0, <2>0, <2>2, PublishIs
  <2>4. q.tx.sent = t.sent /\ q.tx.ack = t.ack
    BY <2>0, <2>3, StateOnly
  <2>. QED  BY <2>1, <2>4 DEF NotSent
<1>. QED  BY <1>1, <1>2 DEF StartOn

LEMMA PreparedNotSent ==
    ASSUME NEW r, Shape(r), r.st = "starting", NotSent(r), NEW v \in Blocks,
           NEW q \in PrepareCommand(r, v) \cup Reprepare(r, v) \cup {Blocked(r), Deferred(r)}
    PROVE  /\ NotSent(q)
           /\ q.st = "starting" =>
                 \/ q = Deferred(r)
                 \/ q.tx.pre = Snap(v) /\ q.tx.base = v
<1>0. r \in Records /\ r.tx \in Transactions /\ r.tx.sent = "no" /\ ~r.tx.ack
  BY WorkingIs DEF Working, NotSent
<1>1. CASE q = Blocked(r)
  BY <1>0, <1>1, EndStates DEF NotSent
<1>2. ASSUME NEW s, q = [r EXCEPT !.tx = [r.tx EXCEPT !.pre = s]]
      PROVE  q.tx.pre = s /\ q.tx.sent = "no" /\ ~q.tx.ack /\ q.tx.base = r.tx.base
  <2>1. q.tx = [r.tx EXCEPT !.pre = s]
    BY <1>0, <1>2 DEF Records
  <2>. QED  BY <1>0, <2>1 DEF Transactions
<1>3. CASE q = Deferred(r)
  <2>1. q = [r EXCEPT !.tx = [r.tx EXCEPT !.pre = None]]
    BY <1>3 DEF Deferred
  <2>. QED  BY <1>2, <1>3, <2>1 DEF NotSent
<1>4. CASE q = Prepared(r, v) /\ v = r.tx.base
  <2>1. q = [r EXCEPT !.tx = [r.tx EXCEPT !.pre = Snap(v)]]
    BY <1>4 DEF Prepared
  <2>. QED  BY <1>2, <1>4, <2>1 DEF NotSent
<1>. QED  BY <1>1, <1>3, <1>4 DEF PrepareCommand, Reprepare, PrewriteOk

\* Nothing is being dispatched.
LEMMA NoneDispatched ==
    ASSUME Awaits', ha'.at \in {"free", "loop", "restore"}, ha'.step # "await", NotSent(rec')
    PROVE  Linked'
<1>1. \A m \in net' : ~m.awaited
  BY DEF Awaits
<1>2. rec'.st \in {"selected", "starting"} => rec'.tx.sent = "no" /\ ~rec'.tx.ack
  BY DEF NotSent
<1>. QED  BY <1>1, <1>2 DEF Linked

LEMMA FreeIs ==
    /\ \A h \in {Free, Loop, Ready("restore")} :
          h.at \in {"free", "loop", "restore"} /\ h.step = "ready"
    /\ \A at : Ready(at).at = at /\ Ready(at).step = "ready"
BY DEF Free, Loop, Ready

LEMMA SettledNotSent == ASSUME NEW r, r.st \in Settled PROVE NotSent(r)
BY DEF Settled, NotSent

\* The states a step ends in, of whatever record.
LEMMA MasterStates ==
    ASSUME NEW r, Shape(r), NEW v, NEW q \in MasterStop(r, v)
    PROVE  q.st \in {"idle", "blocked", "stopping", "fault"} /\ q.st \in Settled
<1>1. r \in Records /\ Latched(r) \in Records
  BY LatchedIs DEF Shape
<1>2. StopBlocked(r).st \in {"fault", "blocked"}
  <2>. DEFINE l == Latched(r)
              p == Publish(l, "fault", [r.tx EXCEPT !.master = TRUE])
  <2>1. p.st = "fault" /\ DOMAIN p = {"st", "tx", "allowed", "mst", "held"}
    BY <1>1, PublishState DEF Publish, Records
  <2>. HIDE DEF p
  <2>2. [p EXCEPT !.mst = "blocked"].st = "fault"
    BY <2>1
  <2>. HIDE DEF l
  <2>3. [l EXCEPT !.st = "blocked", !.mst = "blocked"].st = "blocked"
    BY <1>1 DEF Records, l
  <2>. QED  BY <2>2, <2>3 DEF StopBlocked, p, l
<1>3. StopTakesOver(r).st = "stopping"
  BY <1>1, PublishState DEF StopTakesOver
<1>4. StopFromRest(r, v).st \in {"idle", "stopping"}
  <2>. DEFINE l == Latched(r)
  <2>. HIDE DEF l
  <2>1. [l EXCEPT !.st = "idle", !.tx = None, !.mst = "completed"].st = "idle"
    BY <1>1 DEF Records, l
  <2>2. \A t : Publish(l, "stopping", t).st = "stopping"
    BY <1>1, PublishState DEF l
  <2>. QED  BY <2>1, <2>2 DEF StopFromRest, l
<1>. QED  BY <1>2, <1>3, <1>4 DEF MasterStop, Settled, States

LEMMA RecoveredSettled ==
    ASSUME NEW r, Shape(r) PROVE Recovered(r).st \in Settled
<1>1. Recovered(r).st \notin Working \cup {"selected"} /\ Shape(Recovered(r))
  BY Recovers
<1>2. Recovered(r).st \in States
  BY <1>1, Fields DEF Shape
<1>. QED  BY <1>1, <1>2 DEF Settled, Working

LEMMA SavesLinked ==
    ASSUME Awaits', NEW r, NotSent(r), NEW next \in {Free, Loop, Ready("restore")}, Saves(r, next)
    PROVE  Linked'
<1>1. rec' = r /\ ha' \in {next, Free}
  BY DEF Saves
<1>2. ha'.at \in {"free", "loop", "restore"} /\ ha'.step = "ready"
  BY <1>1, FreeIs
<1>. QED  BY <1>1, <1>2, NoneDispatched

LEMMA SettledLinked ==
    ASSUME Awaits', NEW r, r.st \in Settled, NEW next \in {Free, Loop, Ready("restore")},
           Saves(r, next)
    PROVE  Linked'
BY SavesLinked, SettledNotSent

\* What is saved is ready to leave.
LEMMA ReadyLinked ==
    ASSUME Awaits', ha'.at \in {"start", "retarget"}, ha'.step = "ready", saved' = rec',
           rec'.tx.sent = "no", ~rec'.tx.ack, rec'.tx.pre \in Snapshots,
           ha'.at = "start" => rec'.tx.pre.b = rec'.tx.base,
           ha'.at = "retarget" => rec'.tx.pre.b \in Forced /\ ha'.pred.base = rec'.tx.base
    PROVE  Linked'
<1>1. \A m \in net' : ~m.awaited
  BY DEF Awaits
<1>. QED  BY <1>1 DEF Linked

LEMMA SnapIs == \A v \in Blocks : Snap(v) \in Snapshots /\ Snap(v).b = v /\ Snap(v).age = "same"
BY SnapType DEF Snap

LEMMA ChoosingLinked ==
    ASSUME HaTyped, Linked, Awaits',
           Select \/ Start \/ PrepareStart \/ Unblock \/ Deadline \/ Rearm
    PROVE  Linked'
<1>0. /\ Shape(rec) /\ rec \in Records /\ unsaved \in BOOLEAN
      /\ view # None => view \in Blocks
      /\ NotSent(rec)
  BY HoldsAre DEF Linked, NotSent
<1>1. ASSUME Select PROVE Linked'
  <2>1. PICK b \in Forced : LET r == SelectIntent(rec, b) IN
                              Commit(r, IF r.st = "selected" THEN Loop ELSE Free)
    BY <1>1 DEF Select
  <2>. DEFINE r == SelectIntent(rec, b)
  <2>2. NotSent(r)
    BY <1>0, ChosenNotSent DEF Blocks
  <2>3. \E next \in {Free, Loop} : Saves(r, next)
    BY <1>0, <2>1, CommitSaves
  <2>. HIDE DEF r
  <2>. QED  BY <2>2, <2>3, SavesLinked
<1>2. ASSUME Start PROVE Linked'
  <2>1. PICK r \in StartOn(rec, view) \cup {StopRequested(rec)} :
                Commit(r, IF r.st = "starting" THEN Loop ELSE Free)
    BY <1>2 DEF Start
  <2>2. rec.st = "selected" /\ view # None
    BY <1>2 DEF Start, CanGoOn
  <2>3. NotSent(r)
    BY <1>0, <2>1, <2>2, StartNotSent
  <2>4. \E next \in {Free, Loop} : Saves(r, next)
    BY <1>0, <2>1, CommitSaves
  <2>. QED  BY <2>3, <2>4, SavesLinked
<1>3. ASSUME PrepareStart PROVE Linked'
  <2>1. PICK r \in PrepareCommand(rec, view) :
                Commit(r, IF r.st = "starting" THEN Ready("start") ELSE Free)
    BY <1>3 DEF PrepareStart
  <2>2. rec.st = "starting" /\ view # None /\ view \in Blocks
    BY <1>0, <1>3 DEF PrepareStart, CanGoOn
  <2>3. /\ NotSent(r)
        /\ r.st = "starting" => r = Deferred(rec) \/ (r.tx.pre = Snap(view) /\ r.tx.base = view)
    BY <1>0, <2>1, <2>2, PreparedNotSent
  <2>4. CASE r.st = "starting"
    <3>1. rec' = r /\ (ha' = Free \/ (ha' = Ready("start") /\ saved' = r))
      BY <2>1, <2>4 DEF Commit
    <3>2. CASE ha' = Free
      BY <2>3, <3>1, <3>2, FreeIs, NoneDispatched
    <3>3. CASE ha' = Ready("start") /\ saved' = r
      <4>1. r # Blocked(rec)
        BY <1>0, <2>4, EndStates
      <4>2. r = Prepared(rec, view) /\ view = rec.tx.base
        BY <2>1, <4>1 DEF PrepareCommand, PrewriteOk
      <4>3. r.tx.pre = Snap(view) /\ r.tx.base = view
        <5>1. rec.tx \in Transactions
          BY <1>0, <2>2, WorkingIs DEF Working
        <5>2. r.tx = [rec.tx EXCEPT !.pre = Snap(view)]
          BY <1>0, <4>2 DEF Prepared, Records
        <5>. QED  BY <4>2, <5>1, <5>2 DEF Transactions
      <4>4. r.tx.sent = "no" /\ ~r.tx.ack
        BY <2>3, <2>4 DEF NotSent
      <4>5. ha'.at = "start" /\ ha'.step = "ready"
        BY <3>3, FreeIs
      <4>. QED  BY <2>2, <3>1, <3>3, <4>3, <4>4, <4>5, SnapIs, ReadyLinked
    <3>. QED  BY <3>1, <3>2, <3>3
  <2>5. CASE r.st # "starting"
    <3>1. Saves(r, Free)
      BY <1>0, <2>1, <2>5, CommitSaves
    <3>. QED  BY <2>3, <3>1, SavesLinked
  <2>. QED  BY <2>4, <2>5
<1>4. ASSUME Unblock PROVE Linked'
  <2>1. Finished(rec).st \in Settled
    BY <1>0, EndStates DEF Settled, States
  <2>2. Saves(Finished(rec), Free)
    BY <1>0, <1>4, CommitSaves DEF Unblock
  <2>. QED  BY <2>1, <2>2, SettledLinked
<1>5. ASSUME Deadline PROVE Linked'
  <2>1. PICK r \in {RollbackFailed(rec), Fault(rec, rec.tx), StopRequested(rec)} : Commit(r, Free)
    <3>. DEFINE r == CASE rec.st = "restoring" -> RollbackFailed(rec)
                [] rec.st \in {"starting", "waiting", "retargeting"} -> Fault(rec, rec.tx)
                [] OTHER -> StopRequested(rec)
    <3>1. Commit(r, Free)
      BY <1>5 DEF Deadline
    <3>2. r \in {RollbackFailed(rec), Fault(rec, rec.tx), StopRequested(rec)}
      OBVIOUS
    <3>. HIDE DEF r
    <3>. QED  BY <3>1, <3>2
  <2>2. r.st \in Settled
    BY <1>0, <2>1, EndStates DEF Settled, States
  <2>3. Saves(r, Free)
    BY <1>0, <2>1, CommitSaves
  <2>. QED  BY <2>2, <2>3, SettledLinked
<1>6. ASSUME Rearm PROVE Linked'
  <2>1. Rearmed(rec).st \in Settled
    BY <1>0, <1>6, EndStates DEF Rearm, Settled, States, CanReconcile
  <2>2. Saves(Rearmed(rec), Free)
    BY <1>0, <1>6, CommitSaves DEF Rearm
  <2>. QED  BY <2>1, <2>2, SettledLinked
<1>. QED  BY <1>1, <1>2, <1>3, <1>4, <1>5, <1>6

LEMMA ExecutingLinked ==
    ASSUME HaTyped, Awaits', Observe \/ Verify \/ Sustain
    PROVE  Linked'
<1>0. Shape(rec) /\ unsaved \in BOOLEAN
  BY HoldsAre
<1>1. rec.st \in Working /\ rec.st # "starting" /\ view \in Blocks
  BY HoldsAre DEF Observe, Verify, Sustain, CanReconcile, Working
<1>2. PICK r \in ObserveReadback(rec, view) \cup ObservePhysical(rec) \cup Continue(rec, view)
                 \cup {StopRequested(rec), OutcomeUnknown(rec)} : Commit(r, Free)
  BY DEF Observe, Verify, Sustain
<1>3. r.st \in Settled
  BY <1>0, <1>1, <1>2, ObservedStates
<1>4. Saves(r, Free)
  BY <1>0, <1>2, CommitSaves
<1>. QED  BY <1>3, <1>4, SettledLinked

\* What a stop makes of the record, and where it goes on.
LEMMA StoppingIs ==
    ASSUME HaTyped, Stopping
    PROVE  \/ \E r, next : /\ r.st \in Settled /\ next \in {Free, Ready("restore")}
                           /\ Saves(r, next)
           \/ rec' = rec /\ saved' = saved /\ rec.st \in Settled /\ ha' \in {Free, Ready("restore")}
<1>0. Shape(rec) /\ rec \in Records /\ unsaved \in BOOLEAN
  BY HoldsAre
<1>1. CASE PrepareRestore
  <2>. DEFINE verdict == Verdict(rec.tx, view)
              r == RestoreOn(rec, view, verdict)
              next == IF verdict = "write" THEN Ready("restore") ELSE Free
  <2>1. rec.st \in Resting /\ SaveIfChanged(r, next)
    BY <1>1 DEF PrepareRestore, Restorable, CanReconcile, Resting
  <2>2. r.st \in Settled
    <3>1. \/ r = rec \/ r = [rec EXCEPT !.tx.rsnap = Snap(view)] \/ r = Finished(rec)
          \/ r = RollbackFailed(rec) \/ r = Hold(rec) \/ r = RestorePrepared(rec, view)
      BY DEF RestoreOn, Verdict
    <3>2. [rec EXCEPT !.tx.rsnap = Snap(view)].st = rec.st /\ RestorePrepared(rec, view).st = rec.st
      BY <1>0 DEF Records, RestorePrepared
    <3>3. /\ Finished(rec).st = "idle" /\ RollbackFailed(rec).st = "fault"
          /\ Hold(rec).st = "fault"
      BY <1>0, EndStates
    <3>. HIDE DEF r
    <3>4. r.st \in {"idle", "fault", rec.st}
      BY <3>1, <3>2, <3>3
    <3>. QED  BY <2>1, <3>4 DEF Settled, States, Resting
  <2>3. next \in {Free, Ready("restore")}
    OBVIOUS
  <2>. HIDE DEF r, next, verdict
  <2>4. rec.st \in Settled
    BY <2>1 DEF Resting, Settled, States
  <2>. QED  BY <1>0, <2>1, <2>2, <2>3, <2>4, ChangedSaves
<1>2. CASE DenyRestore
  <2>1. PICK r \in RestoreDenied(rec) : SaveIfChanged(r, Free)
    BY <1>2 DEF DenyRestore
  <2>2. r.st \in Settled
    BY <1>0, <2>1, EndStates DEF RestoreDenied, Settled, States
  <2>. QED  BY <1>0, <2>1, <2>2, ChangedSaves
<1>3. CASE Settle
  <2>1. Finished(rec).st \in Settled /\ rec.st \in Settled /\ ha = Free
    BY <1>0, <1>3, EndStates DEF Settle, Restorable, CanReconcile, Settled, States
  <2>2. CASE Save(Finished(rec), Free, TRUE)
    BY <1>0, <2>1, <2>2, SaveSaves
  <2>3. CASE UNCHANGED <<rec, saved, ha>>
    BY <2>1, <2>3
  <2>. QED  BY <1>3, <2>2, <2>3 DEF Settle
<1>4. CASE ObserveRestored
  <2>. DEFINE r == ObserveRestore(rec, view)
  <2>1. rec.st = "restoring" /\ Save(r, Free, TRUE)
    BY <1>4 DEF ObserveRestored, CanReconcile
  <2>2. r.st \in {"restoring", "idle", "stopping", "fault"}
    <3>1. [rec EXCEPT !.tx = [rec.tx EXCEPT !.rsnap = Snap(view), !.moved = TRUE]].st = rec.st
      BY <1>0 DEF Records
    <3>. QED  BY <1>0, <2>1, <3>1, EndStates, PublishState DEF ObserveRestore
  <2>3. Saves(r, Free)
    BY <1>0, <2>1, SaveSaves
  <2>. HIDE DEF r
  <2>. QED  BY <2>2, <2>3 DEF Settled, States
<1>. QED  BY <1>1, <1>2, <1>3, <1>4 DEF Stopping

LEMMA StoppingLinked == ASSUME HaTyped, Awaits', Stopping PROVE Linked'
<1>1. CASE \E r, next : /\ r.st \in Settled /\ next \in {Free, Ready("restore")}
                        /\ Saves(r, next)
  BY <1>1, SettledLinked
<1>2. CASE rec' = rec /\ saved' = saved /\ rec.st \in Settled /\ ha' \in {Free, Ready("restore")}
  BY <1>2, FreeIs, SettledNotSent, NoneDispatched
<1>. QED  BY <1>1, <1>2, StoppingIs

LEMMA MasterLinked ==
    ASSUME HaTyped, Linked, Awaits', RequestMasterStop \/ RetryPersistence \/ Restart
    PROVE  Linked'
<1>0. Shape(rec) /\ Shape(saved) /\ unsaved \in BOOLEAN /\ NotSent(rec)
  BY HoldsAre DEF Linked, NotSent
<1>1. CASE RequestMasterStop
  <2>1. PICK r \in MasterStop(rec, view) : CommitStop(r, Free, TRUE)
    BY <1>1 DEF RequestMasterStop
  <2>. QED  BY <1>0, <2>1, MasterStates, SaveSaves, SettledLinked
<1>2. CASE RetryPersistence
  BY <1>0, <1>2, SaveSaves, SavesLinked DEF RetryPersistence
<1>3. CASE Restart
  <2>1. rec' = Recovered(saved) /\ ha' = Free
    BY <1>3 DEF Restart
  <2>. QED  BY <1>0, <2>1, RecoveredSettled, SettledNotSent, FreeIs, NoneDispatched
<1>. QED  BY <1>1, <1>2, <1>3

LEMMA CancelSettled ==
    ASSUME NEW r \in Records, NEW p, NEW v, NEW q \in CancelRetarget(r, p, v)
    PROVE  q.st \in Settled
BY EndStates, PublishState DEF CancelRetarget, Settled, States

\* A retarget that was prepared on its predecessor, or the stop it made of it.
LEMMA RetargetPrepared ==
    ASSUME NEW r, Shape(r), r.st = "executing", NEW v \in Blocks, NEW b \in Forced,
           NEW q \in PrepareRetarget(r, v, b)
    PROVE  /\ q.st \in Settled /\ q \in Records /\ Shape(q)
           /\ q.st = "retargeting" =>
                 /\ q.tx.sent = "no" /\ ~q.tx.ack /\ q.tx.pre \in Snapshots
                 /\ q.tx.pre.b \in Forced /\ q.tx.base = r.tx.base
<1>1. Heir(r, q) /\ Shape(q) /\ q \in Records
  BY RetargetHeir, Retargets DEF Follows, Shape
<1>2. r.tx.b \in Forced
  BY WorkingIs DEF Working, Fresh
<1>3. q.st = "retargeting" =>
         /\ v = r.tx.b /\ q.tx.sent = "no" /\ ~q.tx.ack /\ q.tx.pre = Snap(v)
         /\ q.tx.base = r.tx.base
  BY RetargetHeir
<1>. QED  BY <1>1, <1>2, <1>3, SnapIs DEF Heir

LEMMA RetargetLinked ==
    ASSUME HaTyped, Awaits', NEW r \in Records, r.st \in Settled, NEW p, NEW next,
           next.at = "retarget", next.step = "ready", next.pred = p,
           r.st = "retargeting" =>
                 /\ r.tx.sent = "no" /\ ~r.tx.ack /\ r.tx.pre \in Snapshots
                 /\ r.tx.pre.b \in Forced /\ r.tx.base = p.base,
           CommitRetarget(r, p, next)
    PROVE  Linked'
<1>1. CASE r.st # "retargeting"
  <2>1. Saves(r, Free)
    BY <1>1, HoldsAre, CommitSaves DEF CommitRetarget
  <2>. QED  BY <2>1, SettledLinked
<1>2. CASE r.st = "retargeting" /\ rec' = r /\ saved' = r /\ ha' = next
  BY <1>2, ReadyLinked
<1>3. CASE r.st = "retargeting" /\ \E q \in CancelRetarget(r, p, view) : rec' = q /\ ha' = Free
  BY <1>3, CancelSettled, SettledNotSent, FreeIs, NoneDispatched
<1>. QED  BY <1>1, <1>2, <1>3 DEF CommitRetarget

\* The predecessor of a retarget stays with its position.
LEMMA NextIs ==
    /\ \A t : LET h == [Ready("retarget") EXCEPT !.pred = t]
              IN  h.at = "retarget" /\ h.step = "ready" /\ h.pred = t
    /\ \A h \in HaRecords :
          LET g == [h EXCEPT !.step = "ready", !.try = 2]
          IN  g.at = h.at /\ g.step = "ready" /\ g.pred = h.pred
<1>1. ASSUME NEW t
      PROVE  LET h == [Ready("retarget") EXCEPT !.pred = t]
             IN  h.at = "retarget" /\ h.step = "ready" /\ h.pred = t
  <2>1. Ready("retarget") = [at |-> "retarget", step |-> "ready", try |-> 1, pred |-> None]
    BY DEF Ready, Free
  <2>. QED  BY <2>1
<1>2. ASSUME NEW h \in HaRecords
      PROVE  LET g == [h EXCEPT !.step = "ready", !.try = 2]
             IN  g.at = h.at /\ g.step = "ready" /\ g.pred = h.pred
  BY DEF HaRecords
<1>. QED  BY <1>1, <1>2

\* The retarget that is tried again: prepared on the predecessor that was
\* resumed, or the stop that was made of it.
LEMMA SuccessorIs ==
    ASSUME HaTyped, ha.at = "retarget", NEW r \in Successors
    PROVE  \/ r = StopRequested(rec)
           \/ \E b \in Forced : LET q == Publish(rec, "executing", ha.pred) IN
                /\ view \in Blocks /\ ha.pred.sent = "newer" /\ view = ha.pred.b
                /\ Shape(q) /\ q.st = "executing"
                /\ q.tx # None /\ Kin(ha.pred, q.tx)
                /\ r \in PrepareRetarget(q, view, b)
<1>0. /\ Shape(rec) /\ rec \in Records /\ rec.st = "retargeting" /\ Owned(rec)
      /\ ha.pred \in Transactions /\ WellFormed("executing", ha.pred)
  BY HoldsAre, Positions, WorkingIs DEF Working
<1>1. PICK q \in CancelRetarget(rec, ha.pred, view), b \in Forced :
         r \in IF q.st = "executing" THEN PrepareRetarget(q, view, b) ELSE {q}
  BY DEF Successors
<1>2. CASE q = StopRequested(rec)
  <2>1. q.st # "executing"
    BY <1>0, <1>2, EndStates
  <2>. QED  BY <1>1, <1>2, <2>1
<1>3. CASE /\ q = Publish(rec, "executing", ha.pred) /\ q.st = "executing"
           /\ ha.pred.sent = "newer" /\ view = ha.pred.b
           /\ q.tx # None /\ Kin(ha.pred, q.tx)
  <2>1. Shape(q)
    BY <1>0, Cancels DEF Follows, Working
  <2>2. view \in Blocks
    BY <1>0, <1>3, Fields
  <2>. QED  BY <1>1, <1>3, <2>1, <2>2
<1>. QED  BY <1>0, <1>2, <1>3, CancelIs

LEMMA RetargetsLinked ==
    ASSUME HaTyped, Awaits', Retarget \/ RetargetAgain
    PROVE  Linked'
<1>0. Shape(rec) /\ rec \in Records /\ unsaved \in BOOLEAN
  BY HoldsAre
<1>1. ASSUME Retarget PROVE Linked'
  <2>1. rec.st = "executing" /\ view \in Blocks
    BY <1>1, HoldsAre DEF Retarget, CanReconcile
  <2>2. PICK b \in Forced \ {rec.tx.b} : \E r \in PrepareRetarget(rec, view, b) :
            CommitRetarget(r, rec.tx, [Ready("retarget") EXCEPT !.pred = rec.tx])
    BY <1>1 DEF Retarget
  <2>3. PICK r \in PrepareRetarget(rec, view, b) :
            CommitRetarget(r, rec.tx, [Ready("retarget") EXCEPT !.pred = rec.tx])
    BY <2>2
  <2>4. /\ r.st \in Settled /\ r \in Records
        /\ r.st = "retargeting" =>
              /\ r.tx.sent = "no" /\ ~r.tx.ack /\ r.tx.pre \in Snapshots
              /\ r.tx.pre.b \in Forced /\ r.tx.base = rec.tx.base
    BY <1>0, <2>1, <2>3, RetargetPrepared
  <2>. DEFINE h == [Ready("retarget") EXCEPT !.pred = rec.tx]
  <2>5. h.at = "retarget" /\ h.step = "ready" /\ h.pred = rec.tx /\ CommitRetarget(r, rec.tx, h)
    BY <2>3, NextIs
  <2>. HIDE DEF h
  <2>. QED  BY <2>4, <2>5, RetargetLinked
<1>2. ASSUME RetargetAgain PROVE Linked'
  <2>1. ha.at = "retarget" /\ ha \in HaRecords
    BY <1>2, Positions DEF RetargetAgain, At
  <2>2. CASE \E r \in CancelRetarget(rec, ha.pred, view) : Commit(r, Free)
    BY <1>0, <2>2, CancelSettled, CommitSaves, SettledLinked
  <2>. DEFINE again == [ha EXCEPT !.step = "ready", !.try = 2]
  <2>3. CASE \E r \in Successors : CommitRetarget(r, ha.pred, again)
    <3>1. PICK r \in Successors : CommitRetarget(r, ha.pred, again)
      BY <2>3
    <3>2. again.at = "retarget" /\ again.step = "ready" /\ again.pred = ha.pred
      BY <2>1, NextIs
    <3>. HIDE DEF again
    <3>3. /\ r.st \in Settled /\ r \in Records
          /\ r.st = "retargeting" =>
                /\ r.tx.sent = "no" /\ ~r.tx.ack /\ r.tx.pre \in Snapshots
                /\ r.tx.pre.b \in Forced /\ r.tx.base = ha.pred.base
      <4>1. CASE r = StopRequested(rec)
        <5>1. Shape(r)
          BY <1>0, <2>1, <4>1, Faults, Positions, WorkingIs DEF Follows, Working
        <5>. QED  BY <1>0, <4>1, <5>1, EndStates DEF Settled, States, Shape
      <4>2. ASSUME NEW b \in Forced, NEW q, Shape(q), q.st = "executing", view \in Blocks,
                   Kin(ha.pred, q.tx), r \in PrepareRetarget(q, view, b)
            PROVE  /\ r.st \in Settled /\ r \in Records
                   /\ r.st = "retargeting" =>
                         /\ r.tx.sent = "no" /\ ~r.tx.ack /\ r.tx.pre \in Snapshots
                         /\ r.tx.pre.b \in Forced /\ r.tx.base = ha.pred.base
        BY <4>2, RetargetPrepared DEF Kin
      <4>. QED  BY <2>1, <4>1, <4>2, SuccessorIs
    <3>. QED  BY <3>1, <3>2, <3>3, RetargetLinked
  <2>. QED  BY <1>2, <2>2, <2>3 DEF RetargetAgain
<1>. QED  BY <1>1, <1>2

\* Waiting for a newer reading changes neither the record nor what it is for.
LEMMA WaitsLinked ==
    ASSUME HaTyped, Linked, Awaits', ha' = [ha EXCEPT !.step = "stale"], UNCHANGED <<rec, saved>>
    PROVE  Linked'
<1>1. ha'.step = "stale" /\ ha'.at = ha.at /\ ha'.pred = ha.pred
  BY Positions DEF HaRecords
<1>2. \A m \in net' : ~m.awaited
  BY <1>1 DEF Awaits
<1>. QED  BY <1>1, <1>2 DEF Linked

LEMMA RestoreEndsSettled ==
    ASSUME NEW r \in Records,
           NEW q \in {MarkRestoreSent(r), RestoreUnknown(r)} \cup RestoreNotQueued(r)
    PROVE  q.st \in Settled
<1>1. CASE q \in RestoreNotQueued(r)
  <2>. DEFINE t == [RestoreDropped(r.tx) EXCEPT !.rb = "pending",
                      !.att = IF @ = 0 THEN 0 ELSE @ - 1, !.refused = @ + 1]
              p == Fault(r, t)
  <2>1. q = [p EXCEPT !.held = TRUE] \/ q = Publish(r, "stopping", t)
    BY <1>1 DEF RestoreNotQueued
  <2>. HIDE DEF t
  <2>2. p.st = "fault" /\ Publish(r, "stopping", t).st = "stopping"
    BY EndStates, PublishState
  <2>3. [p EXCEPT !.held = TRUE].st = p.st
    BY DEF Fault, Publish, Records
  <2>. QED  BY <2>1, <2>2, <2>3 DEF Settled, States
<1>2. CASE q \in {MarkRestoreSent(r), RestoreUnknown(r)}
  BY <1>2, EndStates DEF Settled, States
<1>. QED  BY <1>1, <1>2

LEMMA DispatchLinked ==
    ASSUME HaTyped, Linked, Awaits',
           \/ StartRejected \/ RestoreRejected \/ RetargetRejected
           \/ StartAnswered \/ RetargetAnswered \/ RestoreAnswered \/ DispatchTimesOut
    PROVE  Linked'
<1>0. Shape(rec) /\ rec \in Records /\ unsaved \in BOOLEAN /\ NotSent(rec)
  BY HoldsAre DEF Linked, NotSent
<1>1. \A r : r \in {Blocked(rec), OutcomeUnknown(rec)} \cup CancelRetarget(rec, ha.pred, view)
               => r.st \in Settled
  BY <1>0, EndStates, CancelSettled DEF Settled, States
<1>2. CASE StartRejected
  <2>1. rec.st = "starting"
    BY <1>2, Positions DEF StartRejected, At
  <2>2. PICK r \in {Blocked(rec), Deferred(rec)} : Commit(r, Free)
    BY <1>2 DEF StartRejected
  <2>3. OffGrid \in Blocks
    BY DEF Blocks
  <2>4. NotSent(r)
    BY <1>0, <2>1, <2>2, <2>3, PreparedNotSent
  <2>. QED  BY <1>0, <2>2, <2>4, CommitSaves, SavesLinked
<1>3. CASE RestoreRejected
  <2>1. rec.st \in Settled /\ rec' = rec /\ ha' = Free
    BY <1>3, Positions DEF RestoreRejected, At, Resting, Settled, States
  <2>. QED  BY <1>0, <2>1, FreeIs, NoneDispatched
<1>4. CASE RetargetRejected
  <2>1. PICK r \in CancelRetarget(rec, ha.pred, view) : Commit(r, Free)
    BY <1>4 DEF RetargetRejected
  <2>. QED  BY <1>0, <1>1, <2>1, CommitSaves, SettledLinked
<1>5. CASE StartAnswered \/ RetargetAnswered
  <2>1. CASE /\ reply = "stale" /\ ha' = [ha EXCEPT !.step = "stale"]
             /\ UNCHANGED <<rec, saved>>
    BY <2>1, WaitsLinked
  <2>2. CASE \E r \in {Blocked(rec), OutcomeUnknown(rec)} \cup MarkSent(rec, arms)
                      \cup CancelRetarget(rec, ha.pred, view) : Commit(r, Free)
    <3>1. rec.st \in {"starting", "retargeting"}
      BY <1>5, Positions DEF StartAnswered, RetargetAnswered, At
    <3>2. \A r \in MarkSent(rec, arms) : r.st \in Settled
      BY <1>0, <3>1, EndStates, PublishState DEF MarkSent, Settled, States
    <3>. QED  BY <1>0, <1>1, <2>2, <3>2, CommitSaves, SettledLinked
  <2>. QED  BY <1>5, <2>1, <2>2 DEF StartAnswered, RetargetAnswered
<1>6. CASE RestoreAnswered
  <2>1. \E r \in {MarkRestoreSent(rec), RestoreUnknown(rec)} \cup RestoreNotQueued(rec) :
           Save(r, Free, FALSE) \/ Save(r, Free, TRUE)
    BY <1>6 DEF RestoreAnswered
  <2>. QED  BY <1>0, <2>1, RestoreEndsSettled, SaveSaves, SettledLinked
<1>7. CASE DispatchTimesOut
  <2>1. Save(GivenUp, Free, TRUE)
    BY <1>7 DEF DispatchTimesOut
  <2>2. GivenUp.st \in Settled
    BY <1>0, EndStates DEF GivenUp, Settled, States
  <2>. QED  BY <1>0, <2>1, <2>2, SaveSaves, SettledLinked
<1>. QED  BY <1>2, <1>3, <1>4, <1>5, <1>6, <1>7

LEMMA StartAgainLinked ==
    ASSUME HaTyped, Linked, Awaits', StartAgain
    PROVE  Linked'
<1>0. /\ Shape(rec) /\ rec \in Records /\ unsaved \in BOOLEAN /\ NotSent(rec)
      /\ ha.at = "start" /\ ha \in HaRecords /\ rec.st = "starting"
      /\ rec.tx \in Transactions
  BY HoldsAre, Positions, WorkingIs DEF Linked, NotSent, StartAgain, At, Working
<1>. DEFINE again == [ha EXCEPT !.step = "ready", !.try = 2]
<1>1. PICK r \in IF arms < MaxArms THEN Reprepare(rec, view) ELSE {Blocked(rec)} :
        IF r.st # "starting" THEN Commit(r, Free)
        ELSE \/ /\ rec' = r /\ saved' = r /\ unsaved' = FALSE /\ UNCHANGED mishaps
                /\ ha' = again
             \/ /\ Mishap("store") /\ rec' = Blocked(rec) /\ UNCHANGED unsaved
                /\ saved' \in {saved, Blocked(rec)} /\ ha' = Free
  BY DEF StartAgain
<1>2. Blocked(rec).st = "blocked" /\ Blocked(rec).st \in Settled
  BY <1>0, EndStates DEF Settled, States
<1>3. CASE r.st # "starting"
  <2>1. r = Blocked(rec)
    <3>1. r = Blocked(rec) \/ r = Prepared(rec, view)
      BY <1>1 DEF Reprepare
    <3>2. Prepared(rec, view).st = "starting"
      BY <1>0 DEF Prepared, Records
    <3>. QED  BY <1>3, <3>1, <3>2
  <2>. QED  BY <1>0, <1>1, <1>2, <1>3, <2>1, CommitSaves, SettledLinked
<1>4. CASE r.st = "starting" /\ rec' = r /\ saved' = r /\ ha' = again
  <2>1. r = Prepared(rec, view) /\ view = rec.tx.base
    BY <1>1, <1>2, <1>4 DEF Reprepare
  <2>2. view \in Blocks
    BY <1>0, <2>1, Fields
  <2>3. r \in Reprepare(rec, view)
    BY <1>1, <1>2, <1>4
  <2>4. r.tx.sent = "no" /\ ~r.tx.ack
    BY <1>0, <1>4, <2>2, <2>3, PreparedNotSent DEF NotSent
  <2>5. r.tx.pre = Snap(view) /\ r.tx.base = view
    <3>1. r.tx = [rec.tx EXCEPT !.pre = Snap(view)]
      BY <1>0, <2>1 DEF Prepared, Records
    <3>. QED  BY <1>0, <2>1, <3>1 DEF Transactions
  <2>6. ha'.at = "start" /\ ha'.step = "ready"
    BY <1>0, <1>4, NextIs
  <2>. QED  BY <1>4, <2>2, <2>4, <2>5, <2>6, SnapIs, ReadyLinked
<1>5. CASE rec' = Blocked(rec) /\ ha' = Free
  BY <1>2, <1>5, FreeIs, SettledNotSent, NoneDispatched
<1>. QED  BY <1>1, <1>3, <1>4, <1>5

\* The request that leaves carries the block of the record.
LEMMA SendsLinked ==
    ASSUME HaTyped, Awaits, Linked, SendArm \/ SendRestore
    PROVE  Linked'
<1>1. /\ UNCHANGED <<rec, saved>> /\ ha' = [ha EXCEPT !.step = "await"] /\ ha \in HaRecords
      /\ ha.step = "ready"
  BY Positions DEF SendArm, SendRestore, Send, At
<1>2. ha'.at = ha.at /\ ha'.pred = ha.pred
  BY <1>1 DEF HaRecords
<1>3. ASSUME NEW m \in net', m.awaited
      PROVE  m.b = IF m.kind = "arm" THEN rec.tx.b ELSE Target(rec.tx)
  <2>1. m \notin net
    BY <1>1, <1>3 DEF Awaits
  <2>. QED  BY <2>1 DEF SendArm, SendRestore, Send, Request
<1>. QED  BY <1>1, <1>2, <1>3 DEF Linked

\* The firmware leaves what is dispatched alone.
LEMMA FirmwareLinked ==
    ASSUME Linked, Passes, UNCHANGED <<rec, saved, ha>>
    PROVE  Linked'
BY DEF Linked, Passes

LEMMA AgedPre ==
    ASSUME NEW t \in Transactions, NEW lost \in BOOLEAN, NEW q, q = AgedTx(t, lost)
    PROVE  /\ t.pre \in Snapshots => q.pre \in Snapshots /\ q.pre.b = t.pre.b
           /\ q.sent = Aged(t.sent, lost) /\ q.rsent = Aged(t.rsent, lost)
           /\ Target(q) = Target(t)
<1>. DEFINE p == AgedSnap(t.pre, lost)
            n == AgedSnap(t.rsnap, lost)
            s == Aged(t.sent, lost)
            u == Aged(t.rsent, lost)
<1>1. q = [t EXCEPT !.pre = p, !.rsnap = n, !.sent = s, !.rsent = u]
  BY NoTransaction DEF AgedTx
<1>2. ASSUME t.pre \in Snapshots PROVE p \in Snapshots /\ p.b = t.pre.b
  <2>1. CASE t.pre = None
    BY <1>2, <2>1 DEF AgedSnap
  <2>2. CASE t.pre # None
    <3>. DEFINE a == Aged(t.pre.age, lost)
    <3>1. t.pre.age \in Ages /\ t.pre.age # "no"
      BY <1>2 DEF Snapshots, Ages
    <3>2. a \in Ages
      BY <3>1, AgeIs
    <3>3. p = [t.pre EXCEPT !.age = a]
      BY <2>2 DEF AgedSnap
    <3>. HIDE DEF a, p
    <3>. QED  BY <1>2, <3>2, <3>3 DEF Snapshots
  <2>. QED  BY <2>1, <2>2
<1>. HIDE DEF p, n, s, u
<1>3. q.pre = p /\ q.sent = s /\ q.rsent = u
  BY <1>1 DEF Transactions
<1>4. Target(q) = Target(t)
  BY AgedTxs DEF Target
<1>. QED  BY <1>2, <1>3, <1>4 DEF s, u

LEMMA ReceivedLinked ==
    ASSUME HaTyped, Linked, NEW lost \in BOOLEAN, ReadingReceived(lost)
    PROVE  Linked'
<1>0. net' = net
  BY DEF ReadingReceived
<1>1. CASE ~lag
  BY <1>0, <1>1 DEF ReadingReceived, Linked
<1>2. CASE lag
  <2>. DEFINE t == AgedTx(rec.tx, lost)
              p == AgedTx(ha.pred, lost)
  <2>1. /\ rec' = [rec EXCEPT !.tx = t] /\ saved' = [saved EXCEPT !.tx = AgedTx(saved.tx, lost)]
        /\ ha' = [ha EXCEPT !.pred = p]
    BY <1>2 DEF ReadingReceived
  <2>2. Shape(rec) /\ rec \in Records /\ ha \in HaRecords
    BY HoldsAre, Positions
  <2>3. ASSUME rec.tx # None
        PROVE  /\ rec.tx \in Transactions
               /\ t.b = rec.tx.b /\ t.base = rec.tx.base /\ t.ack = rec.tx.ack
               /\ (t.sent = "no" <=> rec.tx.sent = "no") /\ Target(t) = Target(rec.tx)
               /\ rec.tx.pre \in Snapshots => t.pre \in Snapshots /\ t.pre.b = rec.tx.pre.b
    <3>1. rec.tx \in Transactions
      BY <2>2, <2>3, ShapeTx
    <3>. QED  BY <3>1, AgedTxs, AgedPre
  <2>4. ha.at = "retarget" => p.base = ha.pred.base
    BY Positions, AgedTxs
  <2>5. rec.tx = None => t = None
    BY DEF AgedTx
  <2>. HIDE DEF t, p
  <2>6. rec'.st = rec.st /\ rec'.tx = t /\ ha'.at = ha.at /\ ha'.pred = p
    BY <2>1, <2>2 DEF Records, HaRecords
  <2>7. rec.st \in {"selected", "starting"} \/ ha.at \in {"start", "retarget"} => rec.tx # None
    BY <2>2, Positions DEF Shape
  <2>8. saved = rec => saved' = rec'
    BY <2>1 DEF t
  <2>. QED  BY <1>0, <2>3, <2>4, <2>5, <2>6, <2>7, <2>8 DEF Linked
<1>. QED  BY <1>1, <1>2

LEMMA LinkedStep ==
    ASSUME Typed, Awaits, Awaits', Linked, [Next]_vars
    PROVE  Linked'
<1>0. HaTyped /\ NetTyped
  BY DEF Typed
<1>1. CASE Reconcile
  BY <1>0, <1>1, ChoosingLinked, ExecutingLinked, StoppingLinked, RetargetsLinked DEF Reconcile
<1>2. CASE Dispatching
  BY <1>0, <1>2, SendsLinked, DispatchLinked, StartAgainLinked, RetargetsLinked DEF Dispatching
<1>3. CASE RequestMasterStop \/ RetryPersistence \/ Restart
  BY <1>0, <1>3, MasterLinked
<1>4. CASE \E lost \in BOOLEAN : ReadingReceived(lost)
  BY <1>0, <1>4, ReceivedLinked
<1>5. CASE Firmware \/ OutsideChange \/ EspRestart
  <2>1. UNCHANGED <<rec, saved, ha>>
    BY <1>5 DEF Firmware, PollDue, WriteApplied, WriteLost, Reading, LeaseTimer, EspArms,
       EspRestores, EspRefuses, RequestLost, OutsideChange, EspRestart, EspIdle, HaIdle
  <2>2. Passes
    <3>1. CASE PollDue \/ WriteApplied \/ WriteLost \/ LeaseTimer \/ OutsideChange
      BY <1>0, <3>1, Passing DEF PollDue, WriteApplied, WriteLost, LeaseTimer, OutsideChange
    <3>2. CASE Reading \/ EspRestart
      BY <1>0, <3>2, Passing DEF Reading, EspRestart
    <3>3. CASE \E m \in net : EspArms(m) \/ EspRestores(m) \/ EspRefuses(m) \/ RequestLost(m)
      <4>1. PICK m \in net : EspArms(m) \/ EspRestores(m) \/ EspRefuses(m) \/ RequestLost(m)
        BY <3>3
      <4>2. net' = net \ {m}
        BY <4>1 DEF EspArms, EspRestores, EspRefuses, RequestLost, Answer
      <4>. QED  BY <1>0, <4>2, Passing
    <3>. QED  BY <1>5, <3>1, <3>2, <3>3 DEF Firmware
  <2>. QED  BY <2>1, <2>2, FirmwareLinked
<1>6. CASE UNCHANGED vars
  BY <1>6 DEF vars, haVars, espVars, Linked
<1>. QED  BY <1>1, <1>2, <1>3, <1>4, <1>5, <1>6 DEF Next

LEMMA InitLinked == ASSUME Init PROVE Linked
<1>1. rec.st = "idle" /\ ha.at = "free" /\ net = {}
  BY DEF Init, IdleRecord, Free
<1>. QED  BY <1>1 DEF Linked

-----------------------------------------------------------------------------
(* What lasts of an owner.                                                 *)

LEMMA TargetIn ==
    ASSUME NEW t \in Transactions
    PROVE  Target(t) \in Blocks /\ (t.base \in SelfUse => Target(t) = t.base)
BY ExecutorBlocks, Fields DEF Target, Neutral, Blocks

\* An heir is an owner of the same base.
LEMMA Inherits ==
    ASSUME NEW r, OwnerOk(r), NEW q, Heir(r, q)
    PROVE  OwnerOk(q) /\ q.tx.base = r.tx.base
<1>1. /\ q.tx # None /\ q.tx.own = r.tx.own /\ q.tx.base = r.tx.base
      /\ \/ q.tx.sent = "no"
         \/ q.tx.sent = r.tx.sent /\ q.tx.b = r.tx.b /\ (q.tx.ack => r.tx.ack)
      /\ q.st = "restoring" =>
          r.st = "restoring" /\ q.tx.rsent = r.tx.rsent /\ Target(q.tx) = Target(r.tx)
  BY DEF Heir, Kin
<1>2. Owned(q)
  BY <1>1 DEF OwnerOk, Owned
<1>3. SentOk(q.tx)
  <2>1. CASE q.tx.sent = "no"
    BY <1>1, <2>1 DEF OwnerOk, SentOk
  <2>2. CASE q.tx.sent = r.tx.sent /\ q.tx.b = r.tx.b /\ (q.tx.ack => r.tx.ack)
    BY <1>1, <2>2 DEF OwnerOk, SentOk, Accepted, Unread, ReadSince
  <2>. QED  BY <1>1, <2>1, <2>2
<1>4. RestoringOk(q)
  BY <1>1 DEF OwnerOk, RestoringOk, RestoreUnread, RestoreAccepted
<1>5. q.tx.sent # "no" => ~Arms(net)
  BY <1>1 DEF OwnerOk
<1>. QED  BY <1>1, <1>2, <1>3, <1>4, <1>5 DEF OwnerOk

LEMMA ArmsPass == ASSUME Passes PROVE Arms(net)' => Arms(net)
BY DEF Passes, Arms

\* What neither shows a reading nor accepts a forced write.
Still ==
    /\ UNCHANGED <<view, seen, lag>> /\ (Behind => Behind') /\ Passes
    /\ \/ barrier' = barrier /\ (Armed' => Armed)
       \/ ~Armed' /\ barrier' # None /\ barrier'.expect \notin Forced

LEMMA StillTx ==
    ASSUME Still, NEW t
    PROVE  /\ Accepted(t) => Accepted(t)'
           /\ Accepted(t) /\ Unread(t) => Unread(t)'
           /\ SentOk(t) => SentOk(t)'
           /\ RestoreAccepted(t) => RestoreAccepted(t)'
           /\ RestoreUnread(t) => RestoreUnread(t)'
<1>1. Accepted(t) => Accepted(t)'
  BY DEF Still, Passes, Accepted
<1>2. Accepted(t) => (Expects(t.b)' => Expects(t.b))
  BY DEF Still, Accepted, Expects
<1>3. Accepted(t) /\ Unread(t) => Unread(t)'
  BY <1>2 DEF Still, Unread
<1>4. Accepted(t) /\ ReadSince(t) => ReadSince(t)'
  BY <1>2 DEF Still, ReadSince
<1>5. SentOk(t) => SentOk(t)'
  BY <1>1, <1>3, <1>4 DEF SentOk
<1>6. RestoreAccepted(t) => RestoreAccepted(t)'
  <2>. SUFFICES ASSUME RestoreAccepted(t) PROVE RestoreAccepted(t)'
    OBVIOUS
  <2>1. Arms(net)' => barrier' # None
    BY ArmsPass DEF Still, RestoreAccepted
  <2>2. Armed' /\ barrier' # None => barrier'.expect = Target(t)
    BY DEF Still, RestoreAccepted
  <2>3. Armed' => \A m \in net' : m.kind = "restore" /\ m.cur => barrier' # None \/ m.b = Target(t)
    BY DEF Still, Passes, RestoreAccepted
  <2>. QED  BY <2>1, <2>2, <2>3 DEF Still, RestoreAccepted
<1>7. RestoreUnread(t) => RestoreUnread(t)'
  BY <1>6 DEF Still, RestoreUnread
<1>. QED  BY <1>1, <1>3, <1>5, <1>6, <1>7

LEMMA StillOwner == ASSUME Still, NEW r, OwnerOk(r) PROVE OwnerOk(r)'
<1>1. SentOk(r.tx)'
  BY StillTx DEF OwnerOk
<1>2. RestoringOk(r)'
  BY StillTx DEF OwnerOk, RestoringOk, Still
<1>3. r.tx.sent # "no" => ~Arms(net)'
  BY ArmsPass DEF OwnerOk, Still
<1>. QED  BY <1>1, <1>2, <1>3 DEF OwnerOk

\* Nothing acts: nothing has to be owned.
LEMMA OthersAct == Acting(Others) => Acting(net)
BY DEF Acting, Arms, Others

LEMMA Calm == ASSUME ~Acting(net)' PROVE Secured'
<1>1. ~Acting(Others)'
  BY DEF Acting, Arms, Others
<1>. QED  BY <1>1 DEF Secured

\* Home Assistant's steps show no reading and write nothing; all but two only
\* let requests go.
LEMMA HaIsStill ==
    ASSUME NetTyped, HaStep, ~Restart, ~SendArm, ~SendRestore
    PROVE  /\ Still /\ UNCHANGED <<seen, lease, driven, bus>>
           /\ Acting(net)' => Acting(net)
<1>1. /\ UNCHANGED <<seen, lag, bus, phys, barrier, lease, proof, driven>> /\ view' = view
  BY HaStill
<1>2. Passes
  BY CarriedOn DEF HaStep, Next
<1>3. UNCHANGED <<Behind, Armed, ForcedQueued>>
  BY <1>1 DEF Behind, Armed, ForcedQueued
<1>. QED  BY <1>1, <1>2, <1>3, ArmsPass DEF Still, Acting

\* The record that such a step leaves is that of an owner.
Handed(q) ==
    /\ OwnerOk(q) /\ q.tx.base = rec.tx.base /\ rec' = q /\ saved' \in {saved, q}
    /\ q.st # "starting"
Continued ==
    /\ Backed /\ \E q : Handed(q)
    /\ ha'.step # "await"
    /\ ha'.at = "retarget" => \E p : ha'.pred = p /\ SentOk(p) /\ ~Arms(net)
LEMMA HandedSecured ==
    ASSUME Still, UNCHANGED <<seen, lease, driven, bus>>, Acting(net)' => Continued
    PROVE  Secured'
<1>1. CASE ~Acting(net)'
  BY <1>1, Calm
<1>2. CASE Acting(net)'
  <2>0. Continued
    BY <1>2
  <2>1. PICK q : Handed(q)
    BY <2>0 DEF Continued
  <2>2. OwnerOk(q)' /\ (saved' = saved => OwnerOk(saved)')
    <3>1. OwnerOk(q)'
      BY <2>1, StillOwner DEF Handed
    <3>2. ASSUME saved' = saved PROVE OwnerOk(saved)'
      BY <2>0, <3>2, StillOwner DEF Backed, Continued
    <3>. QED  BY <3>1, <3>2
  <2>3. OwnerOk(rec)' /\ OwnerOk(saved)'
    BY <2>1, <2>2 DEF Handed
  <2>4. Armed' => Armed
    BY DEF Armed
  <2>5. Arms(net)' => Arms(net)
    BY ArmsPass DEF Still
  <2>6. Backed'
    BY <2>0, <2>1, <2>3, <2>4, <2>5 DEF Backed, Handed, Continued
  <2>7. ~ArmTaken' /\ ~Answered("restore")'
    BY <2>0 DEF Continued, ArmTaken, Answered, At
  <2>8. ha'.at = "retarget" => SentOk(ha.pred)' /\ ~Arms(Others)'
    <3>1. ASSUME NEW p, ha'.pred = p, SentOk(p), ~Arms(net)
          PROVE  SentOk(ha.pred)' /\ ~Arms(Others)'
      <4>1. SentOk(p)'
        BY <3>1, StillTx
      <4>2. ~Arms(Others)'
        BY <2>5, <3>1 DEF Arms, Others
      <4>. QED  BY <3>1, <4>1, <4>2
    <3>. QED  BY <2>0, <3>1 DEF Continued
  <2>9. rec'.st # "starting"
    BY <2>1 DEF Handed
  <2>. QED  BY <2>6, <2>7, <2>8, <2>9 DEF Secured
<1>. QED  BY <1>1, <1>2

\* Between its dispatches, whatever acts is known by the record.
LEMMA ActingIs ==
    ASSUME Typed, Awaits, Secured, ha.step # "await", Acting(net)
    PROVE  /\ Backed /\ OwnerOk(rec) /\ Shape(rec) /\ Owned(rec) /\ unsaved \in BOOLEAN
           /\ rec.st \in States \ {"idle", "selected", "blocked", "starting"}
           /\ ha.at # "start"
           /\ ha.at = "retarget" => SentOk(ha.pred) /\ ~Arms(net)
<1>1. Others = net
  BY DEF Awaits, Others
<1>2. ~ArmTaken
  BY DEF ArmTaken, Answered, At
<1>3. Backed /\ OwnerOk(rec) /\ Owned(rec)
  BY DEF Secured, Backed, OwnerOk
<1>4. Shape(rec) /\ unsaved \in BOOLEAN
  BY HoldsAre DEF Typed
<1>5. rec.st \in States \ {"idle", "selected", "blocked"}
  BY <1>3, <1>4, OwnKin
<1>6. rec.st # "starting"
  BY <1>1, <1>2 DEF Secured
<1>7. ha.at # "start"
  BY <1>6, Positions DEF Typed
<1>. QED  BY <1>1, <1>2, <1>3, <1>4, <1>5, <1>6, <1>7 DEF Secured

\* A step that hands the record on to an heir.
LEMMA HeirHanded ==
    ASSUME Backed, NEW q, Heir(rec, q), rec' = q, saved' \in {saved, q}
    PROVE  Handed(q)
BY Inherits DEF Handed, Backed, Heir, Settled

LEMMA SavesContinued ==
    ASSUME Backed, NEW q, Heir(rec, q), NEW next \in {Free, Ready("restore")}, Saves(q, next)
    PROVE  Continued
<1>1. Handed(q)
  BY HeirHanded DEF Saves
<1>2. ha' \in {Free, Ready("restore")}
  BY DEF Saves
<1>. QED  BY <1>1, <1>2, FreeIs DEF Continued

LEMMA KeptContinued ==
    ASSUME Backed, rec.st # "starting", rec' = rec, saved' \in {saved, rec},
           ha' \in {Free, Ready("restore")}
    PROVE  Continued
<1>1. Handed(rec)
  BY DEF Handed, Backed
<1>. QED  BY <1>1, FreeIs DEF Continued

LEMMA ExecutingContinued ==
    ASSUME Typed, Awaits, Secured, FirmwareOk, Acting(net), Observe \/ Verify \/ Sustain
    PROVE  Continued
<1>0. ha = Free /\ rec.st \in {"waiting", "retargeting", "executing"} /\ view # None
  BY DEF Observe, Verify, Sustain, CanReconcile
<1>1. Backed /\ OwnerOk(rec) /\ Shape(rec) /\ Owned(rec) /\ unsaved \in BOOLEAN
  BY <1>0, FreeIs, ActingIs
<1>2. PICK q : /\ Commit(q, Free) /\ q # rec
               /\ \/ q = StopRequested(rec) \/ q \in ObserveReadback(rec, view)
                  \/ q \in ObservePhysical(rec) \/ q \in Continue(rec, view)
  BY DEF Observe, Verify, Sustain
<1>3. Saves(q, Free)
  BY <1>1, <1>2, CommitSaves
<1>4. CASE Heir(rec, q)
  BY <1>1, <1>3, <1>4, SavesContinued
\* The block of the command is read: it is neither the base nor still expected.
<1>5. CASE q = [rec EXCEPT !.tx.ack = TRUE] /\ rec.tx.sent = "newer" /\ view = rec.tx.b
  <2>. DEFINE t == [rec.tx EXCEPT !.ack = TRUE]
  <2>1. rec.tx \in Transactions /\ rec \in Records
    BY <1>1, OwnKin
  <2>2. /\ t.own = rec.tx.own /\ t.base = rec.tx.base /\ t.b = rec.tx.b /\ t.sent = rec.tx.sent
        /\ t \in Transactions
    BY <2>1 DEF Transactions
  <2>. HIDE DEF t
  <2>3. q.tx = t /\ q.st = rec.st
    BY <1>5, <2>1 DEF Records, t
  <2>4. /\ rec.tx.own = "auto" /\ Accepted(rec.tx) /\ ReadSince(rec.tx)
        /\ rec.tx.base \in SelfUse /\ rec.tx.b \in Forced
    BY <1>1, <1>5 DEF OwnerOk, SentOk, Accepted
  <2>5. ~Expects(rec.tx.b)
    BY <1>5, <2>4 DEF ReadSince
  <2>6. view # rec.tx.base /\ rec.tx.base # None
    BY <1>5, <2>4, ExecutorBlocks DEF Blocks
  <2>7. seen # rec.tx.base
    <3>1. CASE lag
      BY <1>5, <2>4, <3>1 DEF ReadSince
    <3>2. CASE ~lag
      BY <1>0, <2>6, <3>2 DEF FirmwareOk
    <3>. QED  BY <3>1, <3>2
  <2>8. Accepted(t) /\ ReadSince(t)
    BY <2>2, <2>4, <2>5, <2>6, <2>7 DEF Accepted, ReadSince
  <2>9. SentOk(t)
    BY <1>5, <2>2, <2>4, <2>8 DEF SentOk
  <2>10. OwnerOk(q)
    BY <1>0, <1>1, <2>2, <2>3, <2>4, <2>9, NoTransaction DEF OwnerOk, Owned, RestoringOk
  <2>11. Handed(q)
    BY <1>0, <1>3, <2>2, <2>3, <2>10 DEF Handed, Saves
  <2>. QED  BY <1>1, <1>3, <2>11, FreeIs DEF Continued, Saves
<1>. QED  BY <1>1, <1>2, <1>4, <1>5, WorkHeir, EndsHeir

\* Nothing acts while an owner is only being chosen.
LEMMA ChoosingContinued ==
    ASSUME Typed, Awaits, Secured, Acting(net),
           \/ Select \/ Start \/ PrepareStart \/ Unblock \/ Deadline \/ Rearm
           \/ StartRejected \/ StartAgain
    PROVE  Continued
<1>0. ha.step # "await"
  BY FreeIs DEF Select, Start, PrepareStart, Unblock, Deadline, Rearm, StartRejected, StartAgain,
     CanReconcile, CanGoOn, At
<1>1. /\ Backed /\ OwnerOk(rec) /\ Shape(rec) /\ Owned(rec) /\ unsaved \in BOOLEAN
      /\ rec.st \in States \ {"idle", "selected", "blocked", "starting"} /\ ha.at # "start"
  BY <1>0, ActingIs
<1>2. Deadline
  BY <1>1 DEF Select, Start, PrepareStart, Unblock, Rearm, StartRejected, StartAgain,
     CanReconcile, CanGoOn, At
<1>3. PICK q \in {RollbackFailed(rec), Fault(rec, rec.tx), StopRequested(rec)} : Commit(q, Free)
  <2>. DEFINE r == CASE rec.st = "restoring" -> RollbackFailed(rec)
              [] rec.st \in {"starting", "waiting", "retargeting"} -> Fault(rec, rec.tx)
              [] OTHER -> StopRequested(rec)
  <2>1. Commit(r, Free)
    BY <1>2 DEF Deadline
  <2>2. r \in {RollbackFailed(rec), Fault(rec, rec.tx), StopRequested(rec)}
    OBVIOUS
  <2>. HIDE DEF r
  <2>. QED  BY <2>1, <2>2
<1>4. Heir(rec, q)
  BY <1>1, <1>3, EndsHeir
<1>5. Saves(q, Free)
  BY <1>1, <1>3, CommitSaves
<1>. QED  BY <1>1, <1>4, <1>5, SavesContinued

\* The firmware's proof that it restored names no command that still acts.
LEMMA SettleActs ==
    ASSUME Typed, Awaits, Secured, FirmwareOk, Acting(net), Settle
    PROVE  FALSE
<1>1. ha.step # "await" /\ SettledBy(rec.tx, view, proof.id)
  BY FreeIs DEF Settle, Restorable, CanReconcile
<1>2. OwnerOk(rec)
  BY <1>1, ActingIs
<1>3. proof.id # 0 /\ rec.tx.sent = "newer"
  BY <1>1 DEF SettledBy
<1>. QED  BY <1>2, <1>3 DEF FirmwareOk, OwnerOk, Acting

\* A base that is read is not taken for restored while anything acts.
LEMMA DoneActs ==
    ASSUME OwnerOk(rec), rec.tx \in Transactions, RestoreDone(rec.tx, view)
    PROVE  view = OffGrid
<1>. SUFFICES ASSUME view # OffGrid PROVE FALSE
  OBVIOUS
<1>1. rec.tx.own = "auto" /\ view = Target(rec.tx)
  BY DEF RestoreDone, OwnerOk, SentOk
<1>2. rec.tx.ack /\ rec.tx.sent = "newer"
  BY <1>1 DEF RestoreDone, NoPriorWrite, NeutralConfirmed
<1>3. rec.tx.base \in SelfUse /\ view # rec.tx.base
  BY <1>2 DEF OwnerOk, SentOk, Accepted, ReadSince
<1>. QED  BY <1>1, <1>3, TargetIn

LEMMA StoppingContinued ==
    ASSUME Typed, Awaits, Secured, FirmwareOk, Acting(net), Stopping, ~preserved'
    PROVE  Continued
<1>0. ha = Free /\ rec.st \in Resting \cup {"restoring"} /\ view # None
  BY DEF Stopping, PrepareRestore, DenyRestore, Settle, ObserveRestored, Restorable, CanReconcile,
     Resting
<1>1. /\ Backed /\ OwnerOk(rec) /\ Shape(rec) /\ Owned(rec) /\ unsaved \in BOOLEAN
      /\ rec.st # "starting" /\ rec \in Records /\ rec.tx \in Transactions /\ view \in Blocks
  BY <1>0, FreeIs, ActingIs, OwnKin, HoldsAre DEF Typed
<1>2. ASSUME NEW q, Heir(rec, q), NEW next \in {Free, Ready("restore")}, SaveIfChanged(q, next)
      PROVE  Continued
  <2>1. CASE Saves(q, next)
    BY <1>1, <1>2, <2>1, SavesContinued
  <2>2. CASE rec' = rec /\ saved' = saved /\ ha' = next
    BY <1>1, <1>2, <2>2, KeptContinued
  <2>. QED  BY <1>1, <1>2, <2>1, <2>2, ChangedSaves
<1>3. CASE PrepareRestore
  <2>. DEFINE verdict == Verdict(rec.tx, view)
              next == IF verdict = "write" THEN Ready("restore") ELSE Free
  <2>1. rec.st \in Resting /\ SaveIfChanged(RestoreOn(rec, view, verdict), next)
    BY <1>3 DEF PrepareRestore, Restorable, CanReconcile, Resting
  <2>2. preserved' = (preserved \/ (view = OffGrid /\ verdict = "done"))
    BY <1>3 DEF PrepareRestore
  <2>3. verdict # "done"
    <3>1. SUFFICES ASSUME verdict = "done" PROVE FALSE
      OBVIOUS
    <3>2. RestoreDone(rec.tx, view)
      BY <3>1 DEF Verdict
    <3>. QED  BY <1>1, <2>2, <3>1, <3>2, DoneActs
  <2>4. next \in {Free, Ready("restore")}
    OBVIOUS
  <2>5. Heir(rec, RestoreOn(rec, view, verdict))
    <3>. HIDE DEF verdict
    <3>1. verdict = Verdict(rec.tx, view)
      BY DEF verdict
    <3>. QED  BY <1>1, <2>1, <2>3, <3>1, RestoreHeir
  <2>. HIDE DEF verdict, next
  <2>. QED  BY <1>2, <2>1, <2>4, <2>5
<1>4. CASE DenyRestore
  <2>1. PICK q \in RestoreDenied(rec) : SaveIfChanged(q, Free)
    BY <1>4 DEF DenyRestore
  <2>2. Heir(rec, q)
    BY <1>1, <2>1, EndsHeir DEF RestoreDenied
  <2>. QED  BY <1>2, <2>1, <2>2
<1>5. CASE Settle
  BY <1>5, SettleActs
<1>6. CASE ObserveRestored
  <2>1. rec.st = "restoring" /\ Save(ObserveRestore(rec, view), Free, TRUE)
    BY <1>6 DEF ObserveRestored, CanReconcile
  <2>2. ~(rec.tx.rsent = "newer" /\ view = Target(rec.tx))
    BY <1>1, <2>1 DEF OwnerOk, RestoringOk
  <2>3. Heir(rec, ObserveRestore(rec, view))
    BY <1>1, <2>1, <2>2, RestoredHeir
  <2>4. Saves(ObserveRestore(rec, view), Free)
    BY <1>1, <2>1, SaveSaves
  <2>. QED  BY <1>1, <2>3, <2>4, SavesContinued
<1>. QED  BY <1>3, <1>4, <1>5, <1>6 DEF Stopping

LEMMA MasterContinued ==
    ASSUME Typed, Awaits, Secured, Acting(net), RequestMasterStop \/ RetryPersistence
    PROVE  Continued
<1>0. ha = Free
  BY DEF RequestMasterStop, RetryPersistence
<1>1. /\ Backed /\ Shape(rec) /\ Owned(rec) /\ unsaved \in BOOLEAN /\ rec.st # "starting"
  BY <1>0, FreeIs, ActingIs
<1>2. CASE RequestMasterStop
  <2>1. PICK q \in MasterStop(rec, view) : CommitStop(q, Free, TRUE)
    BY <1>2 DEF RequestMasterStop
  <2>2. Heir(rec, q) /\ Saves(q, Free)
    BY <1>1, <2>1, MasterHeir, SaveSaves
  <2>. QED  BY <1>1, <2>2, SavesContinued
<1>3. CASE RetryPersistence
  <2>1. Saves(rec, Free)
    BY <1>1, <1>3, SaveSaves DEF RetryPersistence
  <2>. QED  BY <1>1, <2>1, KeptContinued DEF Saves
<1>. QED  BY <1>2, <1>3

\* The predecessor of a retarget, resumed or prepared on again.
LEMMA ResumedOwner ==
    ASSUME NEW p, SentOk(p), ~Arms(net), NEW q, q.st = "executing", q.tx # None, Kin(p, q.tx)
    PROVE  OwnerOk(q) /\ q.tx.base = p.base
<1>1. /\ q.tx.own = p.own /\ q.tx.base = p.base
      /\ \/ q.tx.sent = "no"
         \/ q.tx.sent = p.sent /\ q.tx.b = p.b /\ (q.tx.ack => p.ack)
  BY DEF Kin
<1>2. SentOk(q.tx)
  <2>1. CASE q.tx.sent = "no"
    BY <1>1, <2>1 DEF SentOk
  <2>2. CASE q.tx.sent = p.sent /\ q.tx.b = p.b /\ (q.tx.ack => p.ack)
    BY <1>1, <2>2 DEF SentOk, Accepted, Unread, ReadSince
  <2>. QED  BY <1>1, <2>1, <2>2
<1>3. Owned(q)
  BY <1>1 DEF SentOk, Owned
<1>. QED  BY <1>1, <1>2, <1>3 DEF OwnerOk, RestoringOk

LEMMA CancelContinued ==
    ASSUME Backed, NEW r, Shape(r), OwnerOk(r), r.tx.base = rec.tx.base,
           NEW p \in Transactions, SentOk(p), ~Arms(net), p.base = rec.tx.base,
           NEW q \in CancelRetarget(r, p, view),
           rec' = q, saved' \in {saved, q}, ha' = Free
    PROVE  Continued
<1>1. OwnerOk(q) /\ q.tx.base = rec.tx.base /\ q.st # "starting"
  <2>1. CASE Heir(r, q)
    BY <2>1, Inherits DEF Heir, Settled
  <2>2. CASE q.st = "executing" /\ q.tx # None /\ Kin(p, q.tx)
    BY <2>2, ResumedOwner
  <2>. QED  BY <2>1, <2>2, CancelIs DEF OwnerOk
<1>2. Handed(q)
  BY <1>1 DEF Handed
<1>. QED  BY <1>2, FreeIs DEF Continued

LEMMA CommitRetargetContinued ==
    ASSUME Backed, unsaved \in BOOLEAN,
           NEW r, Shape(r), OwnerOk(r), r.tx.base = rec.tx.base, r.st \in Settled,
           NEW p, r.st = "retargeting" =>
              p \in Transactions /\ SentOk(p) /\ ~Arms(net) /\ p.base = rec.tx.base,
           NEW next, next.step = "ready", next.pred = p,
           CommitRetarget(r, p, next)
    PROVE  Continued
<1>1. r.st # "starting"
  BY DEF Settled
<1>2. ASSUME rec' = r, saved' \in {saved, r} PROVE Handed(r)
  BY <1>1, <1>2 DEF Handed
<1>3. CASE r.st # "retargeting"
  <2>1. Saves(r, Free)
    BY <1>3, CommitSaves DEF CommitRetarget
  <2>2. Handed(r) /\ ha' = Free
    BY <1>2, <2>1 DEF Saves
  <2>. QED  BY <2>2, FreeIs DEF Continued
<1>4. CASE r.st = "retargeting" /\ rec' = r /\ saved' = r /\ ha' = next
  <2>1. Handed(r)
    BY <1>2, <1>4
  <2>. QED  BY <1>4, <2>1 DEF Continued
<1>5. CASE /\ r.st = "retargeting"
           /\ \E q \in CancelRetarget(r, p, view) :
                 rec' = q /\ saved' \in {saved, q} /\ ha' = Free
  BY <1>5, CancelContinued
<1>. QED  BY <1>3, <1>4, <1>5 DEF CommitRetarget

LEMMA RetargetContinued ==
    ASSUME Typed, Awaits, Linked, Secured, Acting(net), Retarget \/ RetargetRejected \/ RetargetAgain
    PROVE  Continued
<1>0. HaTyped /\ ha.step # "await"
  BY FreeIs DEF Typed, Retarget, RetargetRejected, RetargetAgain, CanReconcile, At
<1>1. /\ Backed /\ OwnerOk(rec) /\ Shape(rec) /\ Owned(rec) /\ unsaved \in BOOLEAN
      /\ rec \in Records /\ rec.tx \in Transactions /\ rec.tx # None
      /\ ha.at = "retarget" => SentOk(ha.pred) /\ ~Arms(net)
  BY <1>0, ActingIs, OwnKin
<1>2. CASE Retarget
  <2>1. rec.st = "executing" /\ view \in Blocks
    BY <1>0, <1>2, HoldsAre DEF Retarget, CanReconcile
  <2>2. PICK b \in Forced \ {rec.tx.b} : \E r \in PrepareRetarget(rec, view, b) :
            CommitRetarget(r, rec.tx, [Ready("retarget") EXCEPT !.pred = rec.tx])
    BY <1>2 DEF Retarget
  <2>3. PICK r \in PrepareRetarget(rec, view, b) :
            CommitRetarget(r, rec.tx, [Ready("retarget") EXCEPT !.pred = rec.tx])
    BY <2>2
  <2>4. /\ Heir(rec, r) /\ Shape(r) /\ r.st \in Settled
        /\ r.st = "retargeting" => rec.tx.sent = "newer"
    BY <1>1, <2>1, <2>3, RetargetHeir, RetargetPrepared
  <2>5. OwnerOk(r) /\ r.tx.base = rec.tx.base
    BY <1>1, <2>4, Inherits
  <2>6. r.st = "retargeting" => SentOk(rec.tx) /\ ~Arms(net)
    BY <1>1, <2>4 DEF OwnerOk
  <2>. DEFINE h == [Ready("retarget") EXCEPT !.pred = rec.tx]
  <2>7. h.step = "ready" /\ h.pred = rec.tx /\ CommitRetarget(r, rec.tx, h)
    BY <2>3, NextIs
  <2>. HIDE DEF h
  <2>. QED  BY <1>1, <2>4, <2>5, <2>6, <2>7, CommitRetargetContinued
<1>3. ASSUME ha.at = "retarget"
      PROVE  /\ ha \in HaRecords /\ ha.pred \in Transactions /\ ha.pred.base = rec.tx.base
             /\ SentOk(ha.pred) /\ ~Arms(net) /\ rec.st = "retargeting"
             /\ WellFormed("executing", ha.pred)
  BY <1>0, <1>1, <1>3, Positions DEF Linked
<1>4. ASSUME ha.at = "retarget", NEW q \in CancelRetarget(rec, ha.pred, view), Commit(q, Free)
      PROVE  Continued
  <2>1. Saves(q, Free)
    BY <1>1, <1>4, CommitSaves
  <2>2. rec' = q /\ saved' \in {saved, q} /\ ha' = Free
    BY <2>1 DEF Saves
  <2>. QED  BY <1>1, <1>3, <1>4, <2>2, CancelContinued
<1>5. CASE RetargetRejected
  BY <1>4, <1>5 DEF RetargetRejected, At
<1>6. CASE RetargetAgain
  <2>0. ha.at = "retarget"
    BY <1>6 DEF RetargetAgain, At
  <2>1. CASE \E r \in CancelRetarget(rec, ha.pred, view) : Commit(r, Free)
    BY <1>4, <2>0, <2>1
  <2>. DEFINE again == [ha EXCEPT !.step = "ready", !.try = 2]
  <2>2. CASE \E r \in Successors : CommitRetarget(r, ha.pred, again)
    <3>1. PICK r \in Successors : CommitRetarget(r, ha.pred, again)
      BY <2>2
    <3>2. again.step = "ready" /\ again.pred = ha.pred
      BY <1>3, <2>0, NextIs
    <3>. HIDE DEF again
    <3>3. Shape(r) /\ OwnerOk(r) /\ r.tx.base = rec.tx.base /\ r.st \in Settled
      <4>1. CASE r = StopRequested(rec)
        <5>1. Shape(r) /\ Heir(rec, r)
          BY <1>1, <4>1, Faults, EndsHeir DEF Follows
        <5>2. OwnerOk(r) /\ r.tx.base = rec.tx.base
          BY <1>1, <5>1, Inherits
        <5>. QED  BY <5>1, <5>2 DEF Heir
      <4>2. ASSUME NEW b \in Forced, NEW q, Shape(q), q.st = "executing", view \in Blocks,
                   q.tx # None, Kin(ha.pred, q.tx), r \in PrepareRetarget(q, view, b)
            PROVE  Shape(r) /\ OwnerOk(r) /\ r.tx.base = rec.tx.base /\ r.st \in Settled
        <5>1. OwnerOk(q) /\ q.tx.base = rec.tx.base
          BY <1>3, <2>0, <4>2, ResumedOwner
        <5>2. Heir(q, r) /\ Shape(r) /\ r.st \in Settled
          BY <4>2, RetargetHeir, RetargetPrepared
        <5>. QED  BY <5>1, <5>2, Inherits
      <4>. QED  BY <1>0, <2>0, <4>1, <4>2, SuccessorIs
    <3>. QED  BY <1>1, <1>3, <2>0, <3>1, <3>2, <3>3, CommitRetargetContinued
  <2>. QED  BY <1>6, <2>1, <2>2 DEF RetargetAgain
<1>. QED  BY <1>2, <1>5, <1>6

\* A restore that is rejected before it leaves.
LEMMA RejectedContinued ==
    ASSUME Typed, Awaits, Secured, Acting(net), RestoreRejected
    PROVE  Continued
<1>0. ha.step # "await" /\ rec' = rec /\ saved' = saved /\ ha' = Free
  BY DEF RestoreRejected, At
<1>1. Backed /\ rec.st # "starting"
  BY <1>0, ActingIs
<1>. QED  BY <1>0, <1>1, KeptContinued

\* An answer that came: the arm was taken, and the record says so, or it was
\* not and the record goes back; a restore likewise.
LEMMA SentContinued ==
    ASSUME Typed, ArmTaken, Secured, Acting(net), NEW q \in MarkSent(rec, arms), Commit(q, Free)
    PROVE  Continued
<1>0. ha.at \in {"start", "retarget"} /\ HaTyped
  BY DEF ArmTaken, Answered, At, Typed
<1>1. /\ Backed /\ Accepted(rec.tx) /\ Unread(rec.tx) /\ ~Arms(net)
      /\ Shape(rec) /\ unsaved \in BOOLEAN /\ rec.st \in {"starting", "retargeting"}
      /\ arms \in Nat
  BY <1>0, HoldsAre, Positions DEF Secured
<1>2. Owned(rec) /\ rec.tx.own = "auto"
  BY <1>1, WorkingIs DEF Working
<1>3. /\ q.st \in Settled \ {"restoring"} /\ q.tx # None
      /\ q.tx.own = "auto" /\ q.tx.base = rec.tx.base /\ q.tx.b = rec.tx.b
      /\ q.tx.ack = rec.tx.ack /\ q.tx.sent = "same"
  BY <1>1, <1>2, SentIs
<1>4. Accepted(q.tx) /\ Unread(q.tx)
  BY <1>1, <1>3 DEF Accepted, Unread
<1>5. SentOk(q.tx)
  BY <1>3, <1>4 DEF SentOk
<1>6. OwnerOk(q) /\ q.st # "starting"
  BY <1>1, <1>3, <1>5 DEF OwnerOk, Owned, RestoringOk, Settled
<1>7. Saves(q, Free)
  BY <1>1, CommitSaves
<1>8. rec' = q /\ saved' \in {saved, q} /\ ha' = Free
  BY <1>7 DEF Saves
<1>9. Handed(q)
  BY <1>3, <1>6, <1>8 DEF Handed
<1>. QED  BY <1>1, <1>8, <1>9, FreeIs DEF Continued

LEMMA StartAnswerContinued ==
    ASSUME Typed, Awaits, Secured, Acting(net), StartAnswered
    PROVE  Continued
<1>0. At("start", "await") /\ reply # "none" /\ HaTyped
  BY DEF StartAnswered, Typed
<1>1. Others = net
  BY <1>0 DEF Awaits, Others
<1>2. reply = "ok"
  <2>1. rec.st = "starting"
    BY <1>0, Positions DEF At
  <2>. QED  BY <1>0, <1>1, <2>1 DEF Secured, ArmTaken, Answered, At
<1>3. PICK r \in MarkSent(rec, arms) : Commit(r, Free)
  BY <1>2 DEF StartAnswered
<1>4. ArmTaken
  BY <1>0, <1>2 DEF ArmTaken, Answered
<1>. QED  BY <1>3, <1>4, SentContinued

LEMMA RetargetAnswerContinued ==
    ASSUME Typed, Awaits, Linked, Secured, Acting(net), RetargetAnswered
    PROVE  Continued
<1>0. At("retarget", "await") /\ reply # "none" /\ HaTyped
  BY DEF RetargetAnswered, Typed
<1>1. Others = net
  BY <1>0 DEF Awaits, Others
<1>2. /\ Backed /\ OwnerOk(rec) /\ Shape(rec) /\ unsaved \in BOOLEAN /\ rec.st = "retargeting"
      /\ Owned(rec) /\ ha \in HaRecords /\ ha.at = "retarget" /\ ha.pred \in Transactions
      /\ ha.pred.base = rec.tx.base
  BY <1>0, HoldsAre, Positions DEF Secured, Backed, OwnerOk, At, Linked
<1>3. ASSUME reply # "ok" PROVE SentOk(ha.pred) /\ ~Arms(net)
  BY <1>0, <1>1, <1>3 DEF Secured, ArmTaken, Answered, At
<1>4. CASE \E r \in MarkSent(rec, arms) : reply = "ok" /\ Commit(r, Free)
  <2>1. ArmTaken
    BY <1>0, <1>4 DEF ArmTaken, Answered
  <2>. QED  BY <1>4, <2>1, SentContinued
<1>5. CASE Commit(OutcomeUnknown(rec), Free)
  <2>1. Heir(rec, OutcomeUnknown(rec)) /\ Saves(OutcomeUnknown(rec), Free)
    BY <1>2, <1>5, EndsHeir, CommitSaves
  <2>. QED  BY <1>2, <2>1, SavesContinued
<1>6. CASE reply = "stale" /\ ha' = [ha EXCEPT !.step = "stale"] /\ UNCHANGED <<rec, saved>>
  <2>1. ha'.step = "stale" /\ ha'.pred = ha.pred
    BY <1>2, <1>6 DEF HaRecords
  <2>2. Handed(rec)
    BY <1>2, <1>6 DEF Handed
  <2>. QED  BY <1>2, <1>3, <1>6, <2>1, <2>2 DEF Continued
<1>7. CASE reply # "ok" /\ \E r \in CancelRetarget(rec, ha.pred, view) : Commit(r, Free)
  <2>1. PICK r \in CancelRetarget(rec, ha.pred, view) : Commit(r, Free)
    BY <1>7
  <2>2. Saves(r, Free)
    BY <1>2, <2>1, CommitSaves
  <2>3. rec' = r /\ saved' \in {saved, r} /\ ha' = Free
    BY <2>2 DEF Saves
  <2>. QED  BY <1>2, <1>3, <1>7, <2>1, <2>3, CancelContinued
<1>. QED  BY <1>4, <1>5, <1>6, <1>7 DEF RetargetAnswered

LEMMA RestoreAnswerContinued ==
    ASSUME Typed, Awaits, Secured, Acting(net), RestoreAnswered
    PROVE  Continued
<1>0. At("restore", "await") /\ HaTyped
  BY DEF RestoreAnswered, Typed
<1>1. /\ Backed /\ OwnerOk(rec) /\ Shape(rec) /\ unsaved \in BOOLEAN /\ Owned(rec)
      /\ PreparedUnsent(rec.tx) /\ rec.tx.refused < 2
  BY <1>0, HoldsAre, Positions DEF Secured, Backed, At
<1>2. CASE reply = "ok" /\ Save(MarkRestoreSent(rec), Free, FALSE)
  <2>. DEFINE q == MarkRestoreSent(rec)
  <2>1. /\ q.st = "restoring" /\ q.tx # None /\ Kin(rec.tx, q.tx)
        /\ q.tx.rsent = "same" /\ Target(q.tx) = Target(rec.tx)
    BY <1>1, RestoreSentIs
  <2>2. Saves(q, Free)
    BY <1>1, <1>2, SaveSaves
  <2>. HIDE DEF q
  <2>3. RestoreUnread(rec.tx)
    BY <1>0, <1>2 DEF Secured, Answered
  <2>4. RestoringOk(q)
    BY <2>1, <2>3 DEF RestoringOk, RestoreUnread, RestoreAccepted
  <2>5. /\ q.tx.own = rec.tx.own /\ q.tx.base = rec.tx.base
        /\ \/ q.tx.sent = "no"
           \/ q.tx.sent = rec.tx.sent /\ q.tx.b = rec.tx.b /\ (q.tx.ack => rec.tx.ack)
    BY <2>1 DEF Kin
  <2>6. SentOk(q.tx)
    <3>1. CASE q.tx.sent = "no"
      BY <1>1, <2>5, <3>1 DEF OwnerOk, SentOk
    <3>2. CASE q.tx.sent = rec.tx.sent /\ q.tx.b = rec.tx.b /\ (q.tx.ack => rec.tx.ack)
      BY <1>1, <2>5, <3>2 DEF OwnerOk, SentOk, Accepted, Unread, ReadSince
    <3>. QED  BY <2>5, <3>1, <3>2
  <2>7. OwnerOk(q)
    BY <1>1, <2>1, <2>4, <2>5, <2>6 DEF OwnerOk, Owned
  <2>8. Handed(q)
    BY <2>1, <2>2, <2>5, <2>7 DEF Handed, Saves
  <2>. QED  BY <1>1, <2>2, <2>8, FreeIs DEF Continued, Saves
<1>3. CASE \E q \in RestoreNotQueued(rec) : Save(q, Free, FALSE)
  <2>1. PICK q \in RestoreNotQueued(rec) : Save(q, Free, FALSE)
    BY <1>3
  <2>2. Heir(rec, q) /\ Saves(q, Free)
    BY <1>1, <2>1, NotQueuedHeir, SaveSaves
  <2>. QED  BY <1>1, <2>2, SavesContinued
<1>4. CASE Save(RestoreUnknown(rec), Free, TRUE)
  <2>1. Heir(rec, RestoreUnknown(rec)) /\ Saves(RestoreUnknown(rec), Free)
    BY <1>1, <1>4, EndsHeir, SaveSaves
  <2>. QED  BY <1>1, <2>1, SavesContinued
<1>. QED  BY <1>2, <1>3, <1>4 DEF RestoreAnswered

LEMMA TimeoutContinued ==
    ASSUME Typed, Secured, Acting(net), DispatchTimesOut
    PROVE  Continued
<1>1. Backed /\ Shape(rec) /\ Owned(rec) /\ unsaved \in BOOLEAN
  BY HoldsAre DEF Secured, Backed, OwnerOk, Typed
<1>2. Heir(rec, GivenUp) /\ Saves(GivenUp, Free)
  BY <1>1, EndsHeir, SaveSaves DEF GivenUp, DispatchTimesOut
<1>. QED  BY <1>1, <1>2, SavesContinued

\* All that Home Assistant does but sending and restarting.
LEMMA HaSecured ==
    ASSUME Typed, Awaits, FirmwareOk, Linked, Secured, ~preserved', HaStep,
           ~Restart, ~SendArm, ~SendRestore
    PROVE  Secured'
<1>1. /\ Still /\ UNCHANGED <<seen, lease, driven, bus>>
      /\ Acting(net)' => Acting(net)
  BY HaIsStill DEF Typed
<1>2. ASSUME Acting(net) PROVE Continued
  BY <1>2, ExecutingContinued, ChoosingContinued, StoppingContinued, MasterContinued,
     RetargetContinued, RejectedContinued, StartAnswerContinued, RetargetAnswerContinued,
     RestoreAnswerContinued, TimeoutContinued
     DEF HaStep, Dispatching, Reconcile
<1>. QED  BY <1>1, <1>2, HandedSecured

\* A request that leaves: a restore carries the base the lease falls back to.
LEMMA Leaves ==
    ASSUME UNCHANGED <<view, seen, lag, bus, barrier, lease>>, NEW m, net' = net \cup {m}, NEW t,
           m.kind = "restore" /\ m.cur /\ Armed => m.b = t.base /\ m.b = Target(t)
    PROVE  /\ SentOk(t) => SentOk(t)'
           /\ m.kind # "arm" /\ RestoreAccepted(t) => RestoreAccepted(t)'
           /\ m.kind # "arm" /\ RestoreUnread(t) => RestoreUnread(t)'
<1>1. Armed' = Armed /\ Behind' = Behind /\ Expects(t.b)' = Expects(t.b)
  BY DEF Armed, Behind, Expects
<1>2. Accepted(t) => Accepted(t)'
  BY <1>1 DEF Accepted
<1>3. SentOk(t) => SentOk(t)'
  BY <1>1, <1>2 DEF SentOk, Unread, ReadSince
<1>4. m.kind # "arm" => Arms(net)' = Arms(net)
  BY DEF Arms
<1>5. m.kind # "arm" /\ RestoreAccepted(t) => RestoreAccepted(t)'
  BY <1>1, <1>4 DEF RestoreAccepted
<1>. QED  BY <1>3, <1>5 DEF RestoreUnread

LEMMA ArmSecured ==
    ASSUME Typed, Awaits, FirmwareOk, Linked, Secured, SendArm
    PROVE  Secured'
<1>. DEFINE m == Request("arm", arms + 1, rec.tx.b)
<1>0. /\ HaTyped /\ ha.at \in {"start", "retarget"} /\ ha.step = "ready" /\ view = rec.tx.pre.b
      /\ net' = net \cup {m} /\ ha' = [ha EXCEPT !.step = "await"]
      /\ UNCHANGED <<rec, saved, view, reply>>
      /\ UNCHANGED <<seen, lag, bus, barrier, lease, driven>>
  BY DEF SendArm, Send, StillPrepared, espVars, espOwn, Typed
<1>1. m.kind = "arm" /\ m.awaited /\ m.cur = (seen # None /\ ~lag)
  BY DEF Request
<1>. HIDE DEF m
<1>2. ha'.at = ha.at /\ ha'.step = "await" /\ ha'.pred = ha.pred /\ reply = "none"
  BY <1>0, Positions DEF HaRecords, Awaits
<1>3. Others = net /\ Others' = net
  BY <1>0, <1>1 DEF Awaits, Others
<1>4. ~ArmTaken /\ ~ArmTaken' /\ ~Answered("restore")'
  BY <1>0, <1>2 DEF ArmTaken, Answered, At
<1>5. /\ rec.st \in {"starting", "retargeting"}
      /\ Owned(rec) /\ rec.tx.own = "auto" /\ rec.tx.sent = "no" /\ saved = rec
      /\ rec.tx.pre \in Snapshots
  <2>1. rec.st \in {"starting", "retargeting"} /\ Shape(rec)
    BY <1>0, Positions, HoldsAre
  <2>. QED  BY <1>0, <2>1, WorkingIs DEF Working, Linked
<1>6. /\ UNCHANGED <<Armed, ForcedQueued>>
      /\ Acting(Others)' <=> Acting(net)
  <2>1. UNCHANGED <<Armed, ForcedQueued>>
    BY <1>0 DEF Armed, ForcedQueued
  <2>. QED  BY <1>0, <1>3, <2>1 DEF Acting, Arms
<1>7. rec.st = "starting" => ~Acting(net)
  BY <1>3, <1>4 DEF Secured
<1>8. m.cur => seen = rec.tx.base \/ seen \in Forced
  <2>1. view \in Blocks /\ view # None
    BY <1>0, <1>5, ExecutorBlocks DEF Snapshots
  <2>2. m.cur => seen = rec.tx.pre.b
    BY <1>0, <1>1, <2>1 DEF FirmwareOk
  <2>. QED  BY <1>0, <2>2 DEF Linked
<1>9. Acting(net)' => Backed'
  <2>1. OwnerOk(rec)' /\ OwnerOk(saved)'
    BY <1>0, <1>5 DEF OwnerOk, Owned, SentOk, RestoringOk
  <2>2. Armed' => lease'.fb = rec'.tx.base
    BY <1>0, <1>6 DEF Acting, Secured, Backed
  <2>3. Arms(net)' => seen' = rec'.tx.base \/ seen' \in Forced
    <3>1. CASE m.cur
      BY <1>0, <1>8, <3>1
    <3>2. CASE ~m.cur
      <4>1. Arms(net)' => Arms(net)
        BY <1>0, <3>2 DEF Arms
      <4>. QED  BY <1>0, <4>1 DEF Acting, Secured, Backed
    <3>. QED  BY <3>1, <3>2
  <2>. QED  BY <1>0, <1>5, <2>1, <2>2, <2>3 DEF Backed
<1>10. ha'.at = "retarget" /\ Acting(Others)' => SentOk(ha.pred)' /\ ~Arms(Others)'
  <2>. SUFFICES ASSUME ha.at = "retarget", Acting(net) PROVE SentOk(ha.pred)' /\ ~Arms(Others)'
    BY <1>2, <1>6
  <2>1. SentOk(ha.pred) /\ ~Arms(net)
    BY <1>3, <1>4 DEF Secured
  <2>2. ASSUME NEW p, SentOk(p) PROVE SentOk(p)'
    BY <1>0, <1>1, <2>2, Leaves
  <2>3. ASSUME NEW p, p = ha.pred PROVE SentOk(ha.pred)'
    BY <1>2, <2>1, <2>2, <2>3
  <2>. QED  BY <1>3, <2>1, <2>3 DEF Arms
<1>11. rec'.st = "starting" => ~Acting(Others)'
  BY <1>0, <1>6, <1>7
<1>. QED  BY <1>4, <1>9, <1>10, <1>11 DEF Secured

LEMMA RestoreSecured ==
    ASSUME Typed, Awaits, Secured, SendRestore
    PROVE  Secured'
<1>. DEFINE m == Request("restore", 1, Target(rec.tx))
<1>0. /\ HaTyped /\ ha.at = "restore" /\ ha.step = "ready"
      /\ net' = net \cup {m} /\ ha' = [ha EXCEPT !.step = "await"]
      /\ UNCHANGED <<rec, saved, view, reply>>
      /\ UNCHANGED <<seen, lag, bus, barrier, lease, driven>>
  BY DEF SendRestore, Send, At, espVars, espOwn, Typed
<1>1. m.kind = "restore" /\ m.kind # "arm" /\ m.b = Target(rec.tx)
  BY DEF Request
<1>. HIDE DEF m
<1>2. ha'.at = "restore" /\ reply = "none" /\ rec.st \in Resting
  BY <1>0, Positions DEF HaRecords, Awaits
<1>3. ~ArmTaken' /\ ~Answered("restore")'
  BY <1>0, <1>2 DEF ArmTaken, Answered
<1>4. UNCHANGED <<Armed, ForcedQueued>> /\ Arms(net)' = Arms(net)
  <2>1. UNCHANGED <<Armed, ForcedQueued>>
    BY <1>0 DEF Armed, ForcedQueued
  <2>. QED  BY <1>0, <1>1, <2>1 DEF Arms
<1>5. ASSUME Acting(net)' PROVE Backed'
  <2>1. Backed
    BY <1>0, <1>4, <1>5 DEF Acting, Secured
  <2>2. /\ rec.tx \in Transactions /\ saved.tx \in Transactions
        /\ saved.tx.base = rec.tx.base
    <3>1. Shape(rec) /\ Shape(saved) /\ Owned(rec) /\ Owned(saved)
      BY <1>0, <2>1, HoldsAre DEF Backed, OwnerOk
    <3>. QED  BY <2>1, <3>1, OwnKin DEF Backed
  <2>3. Armed => rec.tx.base \in SelfUse
    BY <2>1, LeaseFields DEF Backed, Armed, Typed, EspTyped
  <2>4. Armed => m.b = rec.tx.base /\ m.b = Target(saved.tx) /\ m.b = Target(rec.tx)
    BY <1>1, <2>2, <2>3, TargetIn
  <2>5. ASSUME NEW r, OwnerOk(r), Armed => m.b = r.tx.base /\ m.b = Target(r.tx)
        PROVE  OwnerOk(r)'
    <3>1. SentOk(r.tx)'
      BY <1>0, <2>5, Leaves DEF OwnerOk
    <3>2. RestoringOk(r)'
      <4>1. RestoreUnread(r.tx) => RestoreUnread(r.tx)'
        BY <1>0, <1>1, <2>5, Leaves
      <4>2. RestoreAccepted(r.tx) => RestoreAccepted(r.tx)'
        BY <1>0, <1>1, <2>5, Leaves
      <4>. QED  BY <1>0, <2>5, <4>1, <4>2 DEF OwnerOk, RestoringOk
    <3>. QED  BY <1>4, <2>5, <3>1, <3>2 DEF OwnerOk
  <2>6. OwnerOk(rec)' /\ OwnerOk(saved)'
    <3>1. OwnerOk(rec)'
      BY <1>0, <2>1, <2>2, <2>4, <2>5 DEF Backed
    <3>2. OwnerOk(saved)'
      BY <1>0, <2>1, <2>2, <2>4, <2>5 DEF Backed
    <3>. QED  BY <3>1, <3>2
  <2>. QED  BY <1>0, <1>4, <2>1, <2>6 DEF Backed
<1>. QED  BY <1>0, <1>2, <1>3, <1>5 DEF Secured, Resting

\* A restart goes on with what the Store has, and holds no reading.
LEMMA RestartSecured ==
    ASSUME Typed, Secured, Restart
    PROVE  Secured'
<1>0. /\ rec' = Recovered(saved) /\ saved' = Recovered(saved) /\ view' = None /\ ha' = Free
      /\ UNCHANGED <<seen, lag, bus, barrier, lease, driven>> /\ Unawaited
  BY DEF Restart, espVars, espOwn
<1>1. Passes
  BY <1>0, Passing DEF Typed
<1>2. UNCHANGED <<Armed, ForcedQueued, Behind>>
  BY <1>0 DEF Armed, ForcedQueued, Behind
<1>3. Arms(net)' => Arms(net)
  BY <1>1, ArmsPass
<1>. SUFFICES ASSUME Acting(net)' PROVE Secured'
  BY Calm
<1>4. Backed
  BY <1>0, <1>2, <1>3 DEF Acting, Secured
<1>a. PICK q : q = Recovered(saved)
  OBVIOUS
<1>5. /\ OwnerOk(q) /\ q.tx.base = rec.tx.base /\ q.tx \in Transactions /\ q.st # "starting"
  <2>1. Shape(saved) /\ Owned(saved) /\ OwnerOk(saved)
    BY <1>4 DEF Backed, OwnerOk, Typed, HaTyped
  <2>2. Heir(saved, q)
    BY <1>a, <2>1, RecoverHeir
  <2>. QED  BY <1>4, <2>1, <2>2, Inherits DEF Backed, Heir, Kin, Settled
<1>6. ASSUME NEW t PROVE /\ Accepted(t) => Accepted(t)'
                         /\ RestoreAccepted(t) => RestoreAccepted(t)'
  <2>1. Accepted(t) => Accepted(t)'
    BY <1>0, <1>1, <1>2 DEF Accepted, Passes
  <2>2. RestoreAccepted(t) => RestoreAccepted(t)'
    BY <1>0, <1>1, <1>2, <1>3 DEF RestoreAccepted, Passes
  <2>. QED  BY <2>1, <2>2
<1>7. SentOk(q.tx)'
  <2>1. Accepted(q.tx) /\ Unread(q.tx) => Unread(q.tx)'
    BY <1>0, <1>2 DEF Unread, Expects
  <2>2. Accepted(q.tx) /\ ReadSince(q.tx) => ReadSince(q.tx)'
    <3>1. Accepted(q.tx) => q.tx.b # None /\ q.tx.base # None
      BY ExecutorBlocks DEF Accepted, Blocks
    <3>. QED  BY <1>0, <1>2, <3>1 DEF ReadSince, Expects
  <2>. QED  BY <1>5, <1>6, <2>1, <2>2 DEF OwnerOk, SentOk
<1>8. RestoringOk(q)'
  <2>1. Target(q.tx) # None
    BY <1>5, TargetIn, ExecutorBlocks
  <2>. QED  BY <1>0, <1>5, <1>6, <2>1 DEF OwnerOk, RestoringOk, RestoreUnread
<1>9. OwnerOk(q)'
  BY <1>3, <1>5, <1>7, <1>8 DEF OwnerOk
<1>10. Backed'
  <2>1. rec' = q /\ saved' = q
    BY <1>0, <1>a
  <2>2. OwnerOk(rec)' /\ OwnerOk(saved)'
    BY <1>9, <2>1
  <2>. QED  BY <1>0, <1>2, <1>3, <1>4, <1>5, <2>1, <2>2 DEF Backed
<1>. QED  BY <1>0, <1>a, <1>5, <1>10, FreeIs DEF Secured, ArmTaken, Answered, At

-----------------------------------------------------------------------------
(* The firmware and the inverter.                                          *)

\* What is known of an owner lasts.
Keeps ==
    \A t \in Transactions :
       /\ SentOk(t) => SentOk(t)'
       /\ Accepted(t) /\ Unread(t) => Accepted(t)' /\ Unread(t)'
       /\ RestoreUnread(t) => RestoreUnread(t)'
       /\ RestoreAccepted(t) /\ view # Target(t) /\ seen # Target(t) =>
             RestoreAccepted(t)' /\ view' # Target(t) /\ seen' # Target(t)
LEMMA StillKeeps == ASSUME Still PROVE Keeps
<1>1. ASSUME NEW t
      PROVE  /\ SentOk(t) => SentOk(t)'
             /\ Accepted(t) /\ Unread(t) => Accepted(t)' /\ Unread(t)'
             /\ RestoreUnread(t) => RestoreUnread(t)'
             /\ RestoreAccepted(t) /\ view # Target(t) /\ seen # Target(t) =>
                   RestoreAccepted(t)' /\ view' # Target(t) /\ seen' # Target(t)
  <2>1. UNCHANGED <<view, seen>>
    BY DEF Still
  <2>. QED  BY <2>1, StillTx
<1>. QED  BY <1>1 DEF Keeps

LEMMA KeepsOwner ==
    ASSUME Keeps, Arms(net)' => Arms(net), NEW r, r.tx \in Transactions, OwnerOk(r)
    PROVE  OwnerOk(r)'
<1>1. SentOk(r.tx)'
  BY DEF Keeps, OwnerOk
<1>2. RestoringOk(r)'
  BY DEF Keeps, OwnerOk, RestoringOk
<1>. QED  BY <1>1, <1>2 DEF OwnerOk

\* A step of the firmware that accepts no arm.
LEMMA KeepsSecured ==
    ASSUME HaTyped, Secured, HaIdle, Acting(net)' => Keeps,
           net' \subseteq net \/ ~Arms(net)',
           driven' \/ Armed' \/ ForcedQueued' => driven \/ Armed \/ ForcedQueued,
           Armed' => Armed /\ lease'.fb = lease.fb,
           Arms(net)' => seen' = seen,
           ArmTaken' = ArmTaken,
           Answered("restore")' /\ Acting(net)' => Answered("restore") \/ RestoreUnread(rec.tx)'
    PROVE  Secured'
<1>0. UNCHANGED <<rec, saved, ha>>
  BY DEF HaIdle
<1>1. /\ Arms(net)' => Arms(net)
      /\ Arms(Others)' => Arms(Others)
      /\ Acting(Others)' => Acting(net)'
  BY <1>0 DEF Arms, Others, Acting
<1>2. /\ Acting(net)' => Acting(net)
      /\ Acting(Others)' => Acting(Others)
  BY <1>1 DEF Acting
<1>3. ASSUME Acting(net)' PROVE Backed /\ Keeps /\ rec.tx \in Transactions /\ saved.tx \in Transactions
  <2>1. Backed /\ Keeps
    BY <1>2, <1>3 DEF Secured
  <2>2. Shape(rec) /\ Shape(saved) /\ Owned(rec) /\ Owned(saved)
    BY <2>1, HoldsAre DEF Backed, OwnerOk
  <2>. QED  BY <2>1, <2>2, OwnKin
<1>4. PICK q : q = rec
  OBVIOUS
<1>5. PICK p : p = saved
  OBVIOUS
<1>6. ASSUME Acting(net)' PROVE Backed'
  <2>1. Backed /\ Keeps /\ q.tx \in Transactions /\ p.tx \in Transactions
    BY <1>3, <1>4, <1>5, <1>6
  <2>2. OwnerOk(q)' /\ OwnerOk(p)'
    BY <1>1, <1>4, <1>5, <2>1, KeepsOwner DEF Backed
  <2>3. OwnerOk(rec)' /\ OwnerOk(saved)'
    BY <1>0, <1>4, <1>5, <2>2
  <2>. QED  BY <1>0, <1>1, <2>1, <2>3 DEF Backed
<1>7. ASSUME ArmTaken', Acting(net)' PROVE Accepted(rec.tx)' /\ Unread(rec.tx)' /\ ~Arms(net)'
  <2>1. Accepted(q.tx) /\ Unread(q.tx) /\ ~Arms(net)
    BY <1>2, <1>4, <1>7 DEF Secured
  <2>2. Accepted(q.tx)' /\ Unread(q.tx)'
    BY <1>3, <1>4, <1>7, <2>1 DEF Keeps
  <2>. QED  BY <1>0, <1>1, <1>4, <2>1, <2>2
<1>8. ASSUME Answered("restore")', Acting(net)' PROVE RestoreUnread(rec.tx)'
  <2>1. CASE Answered("restore")
    <3>1. RestoreUnread(q.tx)
      BY <1>2, <1>4, <1>8, <2>1 DEF Secured
    <3>2. RestoreUnread(q.tx)'
      BY <1>3, <1>4, <1>8, <3>1 DEF Keeps
    <3>. QED  BY <1>0, <1>4, <3>2
  <2>. QED  BY <1>8, <2>1
<1>9. rec'.st = "starting" /\ ~ArmTaken' => ~Acting(Others)'
  BY <1>0, <1>2 DEF Secured
<1>10. ASSUME ha'.at = "retarget", ~ArmTaken', Acting(Others)'
       PROVE  SentOk(ha.pred)' /\ ~Arms(Others)'
  <2>1. PICK t : t = ha.pred
    OBVIOUS
  <2>2. SentOk(t) /\ ~Arms(Others) /\ t \in Transactions
    BY <1>0, <1>2, <1>10, <2>1, Positions DEF Secured
  <2>3. SentOk(t)'
    BY <1>1, <1>3, <1>10, <2>2 DEF Keeps
  <2>. QED  BY <1>0, <1>1, <2>1, <2>2, <2>3
<1>. QED  BY <1>6, <1>7, <1>8, <1>9, <1>10 DEF Secured

\* No answer, or a refusal: nothing was taken.
LEMMA NotTaken ==
    ASSUME HaIdle, reply' = reply \/ (reply = "none" /\ reply' # "ok")
    PROVE  ArmTaken' = ArmTaken /\ Answered("restore")' = Answered("restore")
BY DEF HaIdle, ArmTaken, Answered, At

LEMMA StillSecured ==
    ASSUME HaTyped, Secured, Still, HaIdle, net' \subseteq net,
           driven' \/ Armed' \/ ForcedQueued' => driven \/ Armed \/ ForcedQueued,
           Armed' => Armed /\ lease'.fb = lease.fb,
           reply' = reply \/ (reply = "none" /\ reply' # "ok")
    PROVE  Secured'
<1>1. Keeps /\ seen' = seen
  BY StillKeeps DEF Still
<1>2. ArmTaken' = ArmTaken /\ Answered("restore")' = Answered("restore")
  BY NotTaken
<1>. QED  BY <1>1, <1>2, KeepsSecured

LEMMA QuietSecured ==
    ASSUME Typed, Awaits, Secured,
           \/ PollDue \/ WriteApplied \/ WriteLost \/ LeaseTimer \/ OutsideChange
           \/ \E m \in net : EspRefuses(m) \/ RequestLost(m)
    PROVE  Secured'
<1>0. EspTyped /\ NetTyped /\ HaTyped
  BY DEF Typed
<1>1. CASE PollDue
  <2>1. /\ bus' = Append(bus, Poll) /\ HaIdle /\ reply' = reply
        /\ UNCHANGED <<net, seen, lag, barrier, lease, driven, view>>
    BY <1>1 DEF PollDue, EspIdle, HaIdle
  <2>2. (Behind => Behind') /\ (ForcedQueued' => ForcedQueued)
    BY <1>0, <2>1, Appended, PollIsNoWrite DEF Blocks
  <2>3. Still
    BY <1>0, <2>1, <2>2, Passing DEF Still, Armed
  <2>. QED  BY <1>0, <2>1, <2>2, <2>3, StillSecured DEF Armed
<1>2. CASE WriteApplied \/ WriteLost
  <2>1. /\ bus # <<>> /\ bus' = Tail(bus) /\ HaIdle /\ reply' = reply
        /\ UNCHANGED <<net, seen, lag, barrier, lease, view>>
        /\ driven' => driven \/ Head(bus) \in Forced
    <3>1. CASE WriteApplied
      BY <3>1 DEF WriteApplied, EspIdle, HaIdle
    <3>2. CASE WriteLost
      BY <3>2 DEF WriteLost, EspIdle, HaIdle
    <3>. QED  BY <1>2, <3>1, <3>2
  <2>2. (Behind => Behind') /\ (Head(bus) \in Forced \/ ForcedQueued' => ForcedQueued)
    BY <1>0, <2>1, Dequeued
  <2>3. Still
    BY <1>0, <2>1, <2>2, Passing DEF Still, Armed
  <2>4. Armed' = Armed /\ lease' = lease /\ net' = net
    BY <2>1 DEF Armed
  <2>5. driven' \/ Armed' \/ ForcedQueued' => driven \/ Armed \/ ForcedQueued
    BY <2>1, <2>2, <2>4
  <2>. QED  BY <1>0, <2>1, <2>3, <2>4, <2>5, StillSecured
<1>3. CASE LeaseTimer
  <2>1. /\ ~Armed' /\ UNCHANGED <<net, seen, lag, driven, view>>
        /\ \/ UNCHANGED <<bus, barrier>>
           \/ lease \in Leases /\ Queued(lease.fb)
        /\ HaIdle /\ reply' = reply
    BY <1>3, TimerIs DEF LeaseTimer, EspIdle
  <2>2. CASE UNCHANGED <<bus, barrier>>
    <3>1. UNCHANGED <<Behind, ForcedQueued>>
      BY <2>2 DEF Behind, ForcedQueued
    <3>2. Still
      BY <1>0, <2>1, <2>2, <3>1, Passing DEF Still
    <3>. QED  BY <1>0, <2>1, <3>1, <3>2, StillSecured
  <2>3. CASE lease \in Leases /\ Queued(lease.fb)
    <3>1. lease.fb \in Blocks /\ lease.fb \notin Forced
      BY <2>3, LeaseFields, ExecutorBlocks DEF Blocks
    <3>2. /\ barrier' # None /\ barrier'.expect \notin Forced
          /\ (Behind => Behind') /\ (ForcedQueued' => ForcedQueued)
      BY <1>0, <2>3, <3>1, QueuedIs
    <3>3. Still
      BY <1>0, <2>1, <3>2, Passing DEF Still
    <3>. QED  BY <1>0, <2>1, <3>2, <3>3, StillSecured
  <2>. QED  BY <2>1, <2>2, <2>3
<1>4. CASE OutsideChange
  <2>1. /\ ~driven' /\ HaIdle /\ reply' = reply
        /\ UNCHANGED <<net, seen, lag, bus, barrier, lease, view>>
        /\ UNCHANGED <<Behind, ForcedQueued, Armed>>
    BY <1>4 DEF OutsideChange, EspIdle, HaIdle, Behind, ForcedQueued, Armed
  <2>2. Still
    BY <1>0, <2>1, Passing DEF Still
  <2>. QED  BY <1>0, <2>1, <2>2, StillSecured
<1>5. CASE \E m \in net : EspRefuses(m) \/ RequestLost(m)
  <2>1. PICK m \in net : EspRefuses(m) \/ RequestLost(m)
    BY <1>5
  <2>2. /\ net' = net \ {m} /\ HaIdle
        /\ UNCHANGED <<seen, lag, bus, barrier, lease, driven, view>>
        /\ UNCHANGED <<Behind, ForcedQueued, Armed>>
    BY <2>1 DEF EspRefuses, RequestLost, Answer, HaIdle, espVars, espOwn, Behind, ForcedQueued, Armed
  <2>3. reply' = reply \/ (reply = "none" /\ reply' # "ok")
    BY <2>1 DEF EspRefuses, RequestLost, Answer, Awaits
  <2>4. Still
    BY <1>0, <2>2, Passing DEF Still
  <2>. QED  BY <1>0, <2>2, <2>3, <2>4, StillSecured
<1>. QED  BY <1>1, <1>2, <1>3, <1>4, <1>5

\* A reading, before Home Assistant has it: it shows the base only when nothing
\* forced is left.
LEMMA ReadingSecured ==
    ASSUME Typed, FirmwareOk, Secured, Reading
    PROVE  Secured'
<1>0. OnePoll /\ HaTyped /\ HaIdle /\ reply' = reply /\ (driven => phys \in Forced)
  BY DEF FirmwareOk, Typed, Reading, EspIdle
<1>1. /\ seen' = phys /\ phys \in Blocks /\ lag' /\ UNCHANGED <<driven, view>>
      /\ Behind'
      /\ ForcedQueued' => ForcedQueued /\ ~Behind
      /\ \A m \in net' : ~m.cur
      /\ barrier' # None =>
            barrier # None /\ barrier'.expect = barrier.expect /\ phys # barrier.expect
      /\ Armed' => Armed /\ lease' = lease /\ (barrier' = None => phys = lease.b)
      /\ Armed => lease.b \in Forced
  BY <1>0, ReadingIs, LeaseFields DEF Typed, EspTyped, Armed
<1>2. ~Arms(net)'
  BY <1>1 DEF Arms
<1>3. driven' \/ Armed' \/ ForcedQueued' => driven \/ Armed \/ ForcedQueued
  BY <1>1
<1>4. ASSUME Acting(net)', NEW b, b \notin Forced, Behind,
             Armed /\ barrier # None => barrier.expect = b
      PROVE  phys # b
  BY <1>0, <1>1, <1>2, <1>4 DEF Acting
<1>5. ASSUME Acting(net)', NEW t
      PROVE  /\ Accepted(t) => Accepted(t)'
             /\ Accepted(t) /\ Unread(t) => Unread(t)'
             /\ Accepted(t) /\ ReadSince(t) => ReadSince(t)'
             /\ RestoreAccepted(t) => RestoreAccepted(t)' /\ seen' # Target(t)
  <2>1. Accepted(t) => Accepted(t)'
    BY <1>1 DEF Accepted
  <2>2. Expects(t.b)' => Expects(t.b) /\ seen' # t.b
    BY <1>1 DEF Expects
  <2>3. Accepted(t) /\ Unread(t) => Unread(t)'
    BY <1>1, <2>2 DEF Unread
  <2>4. Accepted(t) /\ ReadSince(t) => ReadSince(t)'
    <3>. SUFFICES ASSUME Accepted(t), ReadSince(t) PROVE ReadSince(t)'
      OBVIOUS
    <3>1. ~Expects(t.b) => phys # t.base
      <4>. SUFFICES ASSUME ~Expects(t.b) PROVE phys # t.base
        OBVIOUS
      <4>1. t.base \notin Forced /\ Behind /\ (Armed /\ barrier # None => barrier.expect = t.base)
        BY ExecutorBlocks DEF Accepted, ReadSince, Expects
      <4>. QED  BY <1>4, <1>5, <4>1
    <3>2. view = t.b => ~Expects(t.b)
      BY DEF ReadSince
    <3>. QED  BY <1>1, <2>2, <3>1, <3>2 DEF ReadSince
  <2>5. RestoreAccepted(t) => RestoreAccepted(t)'
    BY <1>1, <1>2 DEF RestoreAccepted
  <2>6. RestoreAccepted(t) => seen' # Target(t)
    BY <1>1, <1>4, <1>5 DEF RestoreAccepted
  <2>. QED  BY <2>1, <2>3, <2>4, <2>5, <2>6
<1>6. Acting(net)' => Keeps
  BY <1>1, <1>5 DEF Keeps, SentOk, RestoreUnread
<1>7. ArmTaken' = ArmTaken /\ Answered("restore")' = Answered("restore")
  BY <1>0, NotTaken
<1>. QED  BY <1>0, <1>1, <1>2, <1>3, <1>6, <1>7, KeepsSecured

\* A firmware that restarts has no reading, no request and no lease to renew.
LEMMA BootSecured ==
    ASSUME Typed, Secured, EspRestart
    PROVE  Secured'
<1>0. HaTyped /\ HaIdle /\ reply' = reply
  BY DEF Typed, EspRestart, EspIdle
<1>1. /\ seen' = None /\ ~lag' /\ bus' = <<>> /\ barrier' = None /\ net' = {}
      /\ UNCHANGED <<view, driven>>
      /\ lease' = None \/ (lease \in Leases /\ lease' = [lease EXCEPT !.st = "expired"])
  BY DEF EspRestart, EspIdle, HaIdle, Typed, EspTyped
<1>2. Behind' /\ ~ForcedQueued'
  BY <1>1 DEF Behind, ForcedQueued
<1>3. ~Armed'
  BY <1>1 DEF Armed, Leases
<1>4. ~Arms(net)'
  BY <1>1 DEF Arms
<1>5. ASSUME NEW t \in Transactions
      PROVE  /\ SentOk(t) => SentOk(t)'
             /\ Accepted(t) /\ Unread(t) => Accepted(t)' /\ Unread(t)'
             /\ RestoreUnread(t) => RestoreUnread(t)'
             /\ RestoreAccepted(t) /\ view # Target(t) /\ seen # Target(t) =>
                   RestoreAccepted(t)' /\ view' # Target(t) /\ seen' # Target(t)
  <2>1. Accepted(t) => Accepted(t)'
    BY <1>3 DEF Accepted
  <2>2. Unread(t) => Unread(t)'
    BY <1>1 DEF Unread
  <2>3. t.base # None /\ t.b # None /\ Target(t) # None
    BY TargetIn, Fields, ExecutorBlocks
  <2>4. ReadSince(t) => ReadSince(t)'
    BY <1>1, <1>2, <2>3 DEF ReadSince, Expects
  <2>5. SentOk(t) => SentOk(t)'
    BY <2>1, <2>2, <2>4 DEF SentOk
  <2>6. RestoreAccepted(t) => RestoreAccepted(t)'
    BY <1>2, <1>3, <1>4 DEF RestoreAccepted
  <2>. QED  BY <1>1, <2>1, <2>2, <2>3, <2>5, <2>6 DEF RestoreUnread
<1>6. Keeps
  BY <1>5 DEF Keeps
<1>7. ArmTaken' = ArmTaken /\ Answered("restore")' = Answered("restore")
  BY <1>0, NotTaken
<1>. QED  BY <1>0, <1>1, <1>2, <1>3, <1>4, <1>6, <1>7, KeepsSecured

\* An accepted restore is expected of the queue before anything else.
LEMMA EspRestoreSecured ==
    ASSUME Typed, Awaits, FirmwareOk, Linked, Secured, NEW m \in net, EspRestores(m)
    PROVE  Secured'
<1>0. /\ HaTyped /\ NetTyped /\ EspTyped /\ HaIdle /\ m.kind = "restore" /\ m.cur
      /\ barrier = None /\ m.b \notin Forced /\ m.b \in Blocks /\ Queued(m.b)
      /\ net' = net \ {m} /\ reply' = IF m.awaited THEN "ok" ELSE reply
      /\ UNCHANGED <<view, seen, lag, lease, driven>>
  BY DEF Typed, EspRestores, Answer, HaIdle, NetTyped, Requests
<1>1. ~lag /\ Behind
  BY <1>0 DEF FirmwareOk
<1>2. /\ barrier' # None /\ barrier'.expect = m.b
      /\ Behind' /\ (ForcedQueued' => ForcedQueued)
  BY <1>0, <1>1, QueuedIs
<1>3. Armed' = Armed /\ ~lag'
  BY <1>0, <1>1 DEF Armed
<1>4. ASSUME NEW t
      PROVE  /\ SentOk(t) => SentOk(t)'
             /\ Accepted(t) /\ Unread(t) => Accepted(t)' /\ Unread(t)'
             /\ RestoreAccepted(t) => RestoreUnread(t)'
  <2>1. Accepted(t) => Accepted(t)'
    BY <1>0, <1>2, <1>3 DEF Accepted
  <2>2. Unread(t) => Unread(t)'
    BY <1>3 DEF Unread
  <2>3. Accepted(t) => ~Expects(t.b)'
    BY <1>0, <1>2 DEF Accepted, Expects
  <2>4. Accepted(t) /\ ReadSince(t) => ReadSince(t)'
    BY <1>0, <1>2, <1>3, <2>3 DEF ReadSince
  <2>5. SentOk(t) => SentOk(t)'
    BY <2>1, <2>2, <2>4 DEF SentOk
  <2>6. RestoreAccepted(t) => RestoreUnread(t)'
    BY <1>0, <1>2, <1>3 DEF RestoreAccepted, RestoreUnread
  <2>. QED  BY <2>1, <2>2, <2>5, <2>6
<1>5. Keeps
  BY <1>0, <1>4 DEF Keeps, RestoreUnread
<1>6. m.awaited => ha.at = "restore" /\ reply = "none" /\ m.b = Target(rec.tx)
  BY <1>0 DEF Awaits, Linked
<1>7. ArmTaken' = ArmTaken
  BY <1>0, <1>6 DEF HaIdle, ArmTaken, Answered, At
<1>8. ASSUME Answered("restore")' PROVE Answered("restore") \/ RestoreUnread(rec.tx)'
  <2>1. CASE m.awaited
    BY <1>0, <1>2, <1>3, <1>6, <2>1 DEF HaIdle, RestoreUnread, RestoreAccepted
  <2>2. CASE ~m.awaited
    BY <1>0, <1>8, <2>2 DEF HaIdle, Answered, At
  <2>. QED  BY <2>1, <2>2
<1>. QED  BY <1>0, <1>2, <1>3, <1>5, <1>7, <1>8, KeepsSecured

\* An arm is accepted for an owner that has sent nothing yet, and only the one
\* that is awaited: every other was made stale before another may leave.
LEMMA EspArmSecured ==
    ASSUME Typed, Awaits, FirmwareOk, Linked, Secured, NEW m \in net, EspArms(m)
    PROVE  Secured'
<1>0. /\ HaTyped /\ m.kind = "arm" /\ m.cur /\ barrier = None /\ m.b \in Forced /\ m.b \in Blocks
      /\ EspTyped /\ Queued(m.b) /\ net' = net \ {m}
      /\ reply' = IF m.awaited THEN "ok" ELSE reply
      /\ IF lease = None THEN seen \in SelfUse ELSE lease.st = "armed" /\ seen = lease.b
      /\ lease' = [id |-> m.id, b |-> m.b, st |-> "armed",
                   fb |-> IF lease = None THEN seen ELSE lease.fb,
                   pred |-> IF lease = None THEN None ELSE seen]
      /\ UNCHANGED <<rec, saved, ha, view, seen, lag, driven>>
  BY DEF Typed, NetTyped, EspArms, ArmAllowed, Answer, HaIdle, Blocks
<1>1. Arms(net) /\ Acting(net) /\ ~lag
  BY <1>0 DEF Arms, Acting, FirmwareOk
<1>2. Backed /\ ~ArmTaken /\ (seen = rec.tx.base \/ seen \in Forced)
  BY <1>1 DEF Secured, Backed
<1>3. \A t : ~RestoreAccepted(t)
  BY <1>0, <1>1 DEF RestoreAccepted
<1>4. ~Answered("restore")
  BY <1>1, <1>3 DEF Secured, RestoreUnread
<1>5. /\ barrier' # None /\ barrier'.expect = m.b
  BY <1>0, QueuedIs
<1>6. lease'.fb = rec.tx.base /\ lease'.fb \in SelfUse
  <2>1. lease'.fb = IF lease = None THEN seen ELSE lease.fb
    BY <1>0
  <2>2. CASE lease = None
    BY <1>0, <1>2, <2>1, <2>2, ExecutorBlocks
  <2>3. CASE lease # None
    BY <1>0, <1>2, <2>1, <2>3, LeaseFields DEF Backed, Armed, EspTyped
  <2>. QED  BY <2>2, <2>3
<1>7. Backed'
  <2>1. ASSUME NEW r, OwnerOk(r) PROVE OwnerOk(r)'
    <3>1. r.tx.sent = "no"
      BY <1>1, <2>1 DEF OwnerOk
    <3>2. RestoringOk(r)'
      BY <1>3, <2>1 DEF OwnerOk, RestoringOk, RestoreUnread
    <3>. QED  BY <2>1, <3>1, <3>2 DEF OwnerOk, SentOk
  <2>2. PICK q : q = rec
    OBVIOUS
  <2>3. PICK p : p = saved
    OBVIOUS
  <2>4. OwnerOk(q)' /\ OwnerOk(p)'
    BY <1>2, <2>1, <2>2, <2>3 DEF Backed
  <2>5. OwnerOk(rec)' /\ OwnerOk(saved)'
    BY <1>0, <2>2, <2>3, <2>4
  <2>. QED  BY <1>0, <1>2, <1>6, <2>5 DEF Backed
<1>8. ASSUME m.awaited
      PROVE  /\ ArmTaken' /\ ~Answered("restore")'
             /\ Accepted(rec.tx)' /\ Unread(rec.tx)' /\ ~Arms(net)'
  <2>1. /\ ha.at \in {"start", "retarget"} /\ ha.step = "await"
        /\ rec.tx.b = m.b /\ ~rec.tx.ack
    <3>1. ha.step = "await" /\ ha.at # "restore" /\ rec.tx.b = m.b
      BY <1>0, <1>8 DEF Awaits, Linked
    <3>2. ha.at \in {"start", "retarget"}
      BY <1>0, <3>1, Positions
    <3>. QED  BY <3>1, <3>2 DEF Linked
  <2>2. ArmTaken' /\ ~Answered("restore")'
    BY <1>0, <1>8, <2>1 DEF ArmTaken, Answered, At
  <2>3. Accepted(rec.tx)' /\ Unread(rec.tx)'
    BY <1>0, <1>1, <1>5, <1>6, <2>1 DEF Accepted, Unread
  <2>4. net' = Others
    BY <1>0, <1>8 DEF Awaits, Others
  <2>5. ~Arms(Others)
    <3>1. ha.at = "start" => rec.st = "starting"
      BY <1>0, Positions
    <3>. QED  BY <1>2, <2>1, <3>1 DEF Secured, Acting
  <2>6. ~Arms(net)'
    BY <2>4, <2>5 DEF Arms
  <2>. QED  BY <2>2, <2>3, <2>6
<1>9. ASSUME ~m.awaited
      PROVE  /\ ~ArmTaken' /\ ~Answered("restore")' /\ rec'.st # "starting" /\ ha'.at # "retarget"
  <2>1. m \in Others /\ Arms(Others) /\ Acting(Others)
    BY <1>0, <1>9 DEF Others, Arms, Acting
  <2>. QED  BY <1>0, <1>2, <1>4, <1>9, <2>1 DEF Secured, ArmTaken, Answered, At
<1>. QED  BY <1>7, <1>8, <1>9 DEF Secured

\* A reading reaches Home Assistant: what was sent before it is older now.
LEMMA AgedOk ==
    ASSUME NEW lost \in BOOLEAN, ReadingReceived(lost), NEW t \in Transactions,
           NEW u, u = IF lag THEN AgedTx(t, lost) ELSE t
    PROVE  /\ SentOk(t) => SentOk(u)'
           /\ Accepted(t) /\ Unread(t) => Accepted(u)' /\ Unread(u)'
           /\ RestoreUnread(t) => RestoreUnread(u)'
           /\ t.rsent = "same" /\ RestoreUnread(t) /\ u.rsent = "newer" =>
                 RestoreAccepted(u)' /\ view' # Target(u) /\ seen' # Target(u)
           /\ RestoreAccepted(t) /\ seen # Target(t) =>
                 RestoreAccepted(u)' /\ view' # Target(u) /\ seen' # Target(u)
<1>1. /\ UNCHANGED <<net, seen, bus, barrier, lease>> /\ view' = seen /\ ~lag'
      /\ UNCHANGED <<Armed, Behind, Arms(net)>>
  BY DEF ReadingReceived, Armed, Behind, Arms
<1>2. /\ u.own = t.own /\ u.b = t.b /\ u.base = t.base /\ u.ack = t.ack
      /\ Target(u) = Target(t)
      /\ lag => u.sent = Aged(t.sent, lost) /\ u.rsent = Aged(t.rsent, lost)
      /\ ~lag => u = t
  BY AgedTxs, AgedPre
<1>3. \A b : Expects(b)' = Expects(b)
  BY <1>1 DEF Expects
<1>4. Accepted(t) => Accepted(u)'
  BY <1>1, <1>2 DEF Accepted
<1>5. Unread(t) => Unread(u)'
  BY <1>1, <1>2 DEF Unread
<1>6. ReadSince(t) => ReadSince(u)'
  BY <1>1, <1>2, <1>3 DEF ReadSince
<1>7. lag /\ Unread(t) => ReadSince(u)'
  BY <1>1, <1>2, <1>3 DEF Unread, ReadSince
<1>8. SentOk(t) => SentOk(u)'
  <2>. SUFFICES ASSUME SentOk(t) PROVE SentOk(u)'
    OBVIOUS
  <2>1. CASE ~lag
    BY <1>2, <1>4, <1>5, <1>6, <2>1 DEF SentOk
  <2>2. CASE lag
    <3>1. t.sent \in {"same", "newer", "lost", "no"}
      BY Fields DEF Ages
    <3>2. /\ u.sent # "no" => t.sent # "no"
          /\ u.sent # "same"
          /\ u.sent = "newer" => t.sent \in {"same", "newer"}
      BY <1>2, <2>2, <3>1 DEF Aged
    <3>. QED  BY <1>2, <1>4, <1>6, <1>7, <2>2, <3>2 DEF SentOk
  <2>. QED  BY <2>1, <2>2
<1>9. RestoreAccepted(t) => RestoreAccepted(u)'
  BY <1>1, <1>2 DEF RestoreAccepted
<1>10. RestoreUnread(t) => RestoreUnread(u)'
  BY <1>1, <1>9 DEF RestoreUnread
<1>11. t.rsent = "same" /\ u.rsent = "newer" => lag
  BY <1>2
<1>. QED  BY <1>1, <1>2, <1>4, <1>5, <1>8, <1>9, <1>10, <1>11 DEF RestoreUnread

LEMMA AgedOwner ==
    ASSUME NEW lost \in BOOLEAN, ReadingReceived(lost), NEW r, Shape(r), OwnerOk(r),
           NEW q, q = IF lag THEN [r EXCEPT !.tx = AgedTx(r.tx, lost)] ELSE r
    PROVE  /\ OwnerOk(q)' /\ q.tx.base = r.tx.base
<1>1. r \in Records /\ r.tx \in Transactions /\ Owned(r)
  BY OwnKin DEF OwnerOk
<1>2. PICK u : u = IF lag THEN AgedTx(r.tx, lost) ELSE r.tx
  OBVIOUS
<1>3. q.tx = u /\ q.st = r.st
  BY <1>1, <1>2 DEF Records
<1>4. /\ u # None /\ u.own = r.tx.own /\ u.base = r.tx.base
      /\ u.sent = "no" <=> r.tx.sent = "no"
  <2>1. CASE lag
    BY <1>1, <1>2, <2>1, AgedTxs, NoTransaction
  <2>2. CASE ~lag
    BY <1>1, <1>2, <2>2, NoTransaction
  <2>. QED  BY <2>1, <2>2
<1>5. /\ SentOk(r.tx) => SentOk(u)'
      /\ RestoreUnread(r.tx) => RestoreUnread(u)'
      /\ r.tx.rsent = "same" /\ RestoreUnread(r.tx) /\ u.rsent = "newer" =>
            RestoreAccepted(u)' /\ view' # Target(u) /\ seen' # Target(u)
      /\ RestoreAccepted(r.tx) /\ seen # Target(r.tx) =>
            RestoreAccepted(u)' /\ view' # Target(u) /\ seen' # Target(u)
  BY <1>1, <1>2, AgedOk
<1>6. SentOk(q.tx)'
  BY <1>3, <1>5 DEF OwnerOk
<1>7. RestoringOk(q)'
  <2>1. /\ u.rsent = "same" => r.tx.rsent = "same"
        /\ u.rsent = "newer" => r.tx.rsent \in {"same", "newer"}
    <3>1. r.tx.rsent \in {"same", "newer", "lost", "no"}
      BY <1>1, Fields DEF Ages
    <3>2. lag => u.rsent = Aged(r.tx.rsent, lost)
      BY <1>1, <1>2, AgedPre
    <3>. QED  BY <1>2, <3>1, <3>2 DEF Aged
  <2>. QED  BY <1>3, <1>5, <2>1 DEF OwnerOk, RestoringOk
<1>8. Arms(net)' = Arms(net)
  BY DEF ReadingReceived, Arms
<1>9. Owned(q)
  BY <1>1, <1>3, <1>4 DEF Owned
<1>. QED  BY <1>3, <1>4, <1>6, <1>7, <1>8, <1>9 DEF OwnerOk

LEMMA ReceivedSecured ==
    ASSUME Typed, Secured, NEW lost \in BOOLEAN, ReadingReceived(lost)
    PROVE  Secured'
<1>0. /\ HaTyped /\ UNCHANGED <<net, seen, bus, barrier, lease, driven, reply>>
      /\ UNCHANGED <<Armed, ForcedQueued, Arms(net), Acting(net), Others, Acting(Others), Arms(Others)>>
  BY DEF Typed, ReadingReceived, Armed, ForcedQueued, Arms, Acting, Others
<1>1. PICK q : q = IF lag THEN [rec EXCEPT !.tx = AgedTx(rec.tx, lost)] ELSE rec
  OBVIOUS
<1>2. PICK p : p = IF lag THEN [saved EXCEPT !.tx = AgedTx(saved.tx, lost)] ELSE saved
  OBVIOUS
<1>3. PICK t : t = IF lag THEN AgedTx(ha.pred, lost) ELSE ha.pred
  OBVIOUS
<1>4. /\ rec' = q /\ saved' = p /\ ha'.at = ha.at /\ ha'.step = ha.step /\ ha'.pred = t
      /\ q.st = rec.st
  <2>1. rec \in Records /\ ha \in HaRecords
    BY <1>0, HoldsAre, Positions
  <2>2. CASE ~lag
    BY <1>1, <1>2, <1>3, <2>2 DEF ReadingReceived
  <2>3. CASE lag
    BY <1>1, <1>2, <1>3, <2>1, <2>3 DEF ReadingReceived, Records, HaRecords
  <2>. QED  BY <2>2, <2>3
<1>5. ArmTaken' = ArmTaken /\ Answered("restore")' = Answered("restore")
  BY <1>0, <1>4 DEF ArmTaken, Answered, At
<1>6. ASSUME Acting(net) PROVE Backed /\ Shape(rec) /\ Shape(saved) /\ rec.tx \in Transactions
  BY <1>0, <1>6, HoldsAre, OwnKin DEF Secured, Backed, OwnerOk
<1>7. ASSUME Acting(net) PROVE Backed'
  <2>1. OwnerOk(q)' /\ OwnerOk(p)' /\ q.tx.base = rec.tx.base /\ p.tx.base = saved.tx.base
    BY <1>1, <1>2, <1>6, <1>7, AgedOwner DEF Backed
  <2>2. OwnerOk(rec)' /\ OwnerOk(saved)'
    BY <1>4, <2>1
  <2>. QED  BY <1>0, <1>4, <1>6, <1>7, <2>1, <2>2 DEF Backed
<1>8. ASSUME Acting(net)
      PROVE  \E u : /\ rec'.tx = u
                    /\ Accepted(rec.tx) /\ Unread(rec.tx) => Accepted(u)' /\ Unread(u)'
                    /\ RestoreUnread(rec.tx) => RestoreUnread(u)'
  <2>1. PICK u : u = IF lag THEN AgedTx(rec.tx, lost) ELSE rec.tx
    OBVIOUS
  <2>2. rec'.tx = u
    BY <1>0, <1>1, <1>4, <2>1, HoldsAre DEF Records
  <2>. QED  BY <1>6, <1>8, <2>1, <2>2, AgedOk
<1>9. ASSUME Acting(net)
      PROVE  /\ ArmTaken => Accepted(rec.tx)' /\ Unread(rec.tx)' /\ ~Arms(net)'
             /\ Answered("restore") => RestoreUnread(rec.tx)'
  <2>1. PICK u : /\ rec'.tx = u
                 /\ Accepted(rec.tx) /\ Unread(rec.tx) => Accepted(u)' /\ Unread(u)'
                 /\ RestoreUnread(rec.tx) => RestoreUnread(u)'
    BY <1>8, <1>9
  <2>2. ArmTaken => Accepted(u)' /\ Unread(u)' /\ ~Arms(net)
    BY <1>9, <2>1 DEF Secured
  <2>3. Answered("restore") => RestoreUnread(u)'
    BY <1>9, <2>1 DEF Secured
  <2>. QED  BY <1>0, <2>1, <2>2, <2>3
<1>10. ASSUME ha.at = "retarget", ~ArmTaken, Acting(Others)
       PROVE  SentOk(ha.pred)' /\ ~Arms(Others)'
  <2>1. SentOk(ha.pred) /\ ~Arms(Others) /\ ha.pred \in Transactions
    BY <1>0, <1>10, Positions DEF Secured
  <2>2. SentOk(t)'
    BY <1>3, <2>1, AgedOk
  <2>. QED  BY <1>0, <1>4, <2>1, <2>2
<1>11. rec'.st = "starting" /\ ~ArmTaken' => ~Acting(Others)'
  BY <1>0, <1>4, <1>5 DEF Secured
<1>. QED  BY <1>0, <1>4, <1>5, <1>7, <1>9, <1>10, <1>11 DEF Secured

-----------------------------------------------------------------------------
(* The invariant, and what follows from it.                                *)

LEMMA SecuredStep ==
    ASSUME Typed, Awaits, FirmwareOk, Linked, Secured, [Next]_vars, ~preserved'
    PROVE  Secured'
<1>1. CASE HaStep
  BY <1>1, HaSecured, ArmSecured, RestoreSecured, RestartSecured
<1>2. CASE PollDue \/ WriteApplied \/ WriteLost \/ LeaseTimer \/ OutsideChange
  BY <1>2, QuietSecured
<1>3. CASE Reading \/ EspRestart
  BY <1>3, ReadingSecured, BootSecured
<1>4. CASE \E m \in net : EspArms(m) \/ EspRestores(m) \/ EspRefuses(m) \/ RequestLost(m)
  BY <1>4, EspArmSecured, EspRestoreSecured, QuietSecured
<1>5. CASE \E lost \in BOOLEAN : ReadingReceived(lost)
  BY <1>5, ReceivedSecured
<1>6. CASE UNCHANGED vars
  <2>1. /\ HaIdle /\ UNCHANGED <<view, seen, lag, bus, barrier, lease, driven, net, reply>>
        /\ UNCHANGED <<Behind, Armed, ForcedQueued>>
    BY <1>6 DEF vars, haVars, espVars, espOwn, HaIdle, Behind, Armed, ForcedQueued
  <2>2. Still
    BY <2>1, Passing DEF Still, Typed
  <2>. QED  BY <2>1, <2>2, StillSecured DEF Typed
<1>. QED  BY <1>1, <1>2, <1>3, <1>4, <1>5, <1>6 DEF Next, Firmware, HaStep

\* An owner that was released off the grid stays so.
LEMMA PreservedStays == ASSUME [Next]_vars PROVE preserved => preserved'
<1>1. CASE \/ Select \/ Start \/ PrepareStart \/ Unblock \/ Deadline \/ Observe
           \/ Verify \/ Sustain \/ Retarget \/ Stopping \/ Rearm
  BY <1>1 DEF Select, Start, PrepareStart, Unblock, Deadline, Observe, Verify, Sustain, Retarget,
     Stopping, PrepareRestore, DenyRestore, Settle, ObserveRestored, Rearm, Kept
<1>2. CASE Dispatching
  BY <1>2 DEF Dispatching, StartRejected, RestoreRejected, RetargetRejected, StartAnswered,
     RetargetAnswered, RestoreAnswered, StartAgain, RetargetAgain, DispatchTimesOut, SendArm,
     SendRestore, Send, Kept
<1>3. CASE RequestMasterStop \/ RetryPersistence \/ Restart
  BY <1>3 DEF RequestMasterStop, RetryPersistence, Restart, Kept
<1>4. CASE Firmware \/ OutsideChange \/ EspRestart
  BY <1>4 DEF Firmware, PollDue, WriteApplied, WriteLost, Reading, LeaseTimer, EspArms,
     EspRestores, EspRefuses, RequestLost, OutsideChange, EspRestart, EspIdle, HaIdle
<1>5. CASE \E lost \in BOOLEAN : ReadingReceived(lost)
  BY <1>5 DEF ReadingReceived
<1>6. CASE UNCHANGED vars
  BY <1>6 DEF vars, haVars
<1>. QED  BY <1>1, <1>2, <1>3, <1>4, <1>5, <1>6 DEF Next, Reconcile

LEMMA OwnershipStep == OwnershipInvariant /\ [Next]_vars => OwnershipInvariant'
<1>. SUFFICES ASSUME OwnershipInvariant, [Next]_vars PROVE OwnershipInvariant'
  OBVIOUS
<1>1. Typed /\ Awaits /\ FirmwareOk /\ Linked /\ (preserved \/ Secured)
  BY DEF OwnershipInvariant
<1>2. Typed' /\ Awaits'
  BY <1>1, TypedStep, AwaitsStep
<1>3. FirmwareOk'
  BY <1>1, FirmwareStep
<1>4. Linked'
  BY <1>1, <1>2, LinkedStep
<1>5. preserved' \/ Secured'
  BY <1>1, SecuredStep, PreservedStays
<1>. QED  BY <1>2, <1>3, <1>4, <1>5 DEF OwnershipInvariant

LEMMA InitOwnership == Init => OwnershipInvariant
<1>. SUFFICES ASSUME Init PROVE OwnershipInvariant
  OBVIOUS
<1>1. Typed /\ Awaits /\ FirmwareOk /\ Linked
  BY InitTyped, InitBudget, InitFirmware, InitLinked
<1>2. Secured
  <2>1. /\ ~driven /\ lease = None /\ bus = <<>> /\ net = {} /\ rec.st = "idle" /\ ha.at = "free"
    BY DEF Init, IdleRecord, Free
  <2>2. ~Acting(net)
    BY <2>1 DEF Acting, Armed, ForcedQueued, Arms
  <2>. QED  BY <2>1, <2>2 DEF Secured
<1>. QED  BY <1>1, <1>2 DEF OwnershipInvariant

\* Whatever Home Assistant, the firmware and mishaps do, who owns a forced block,
\* on the inverter or on its way, and what the requests in transit may still do,
\* stay in step (reconciliation, dispatches and restart of the active controller).
THEOREM OwnershipHolds == Spec => []OwnershipInvariant
<1>. QED  BY InitOwnership, OwnershipStep, PTL DEF Spec

LEMMA LiveIsOwned ==
    ASSUME OwnershipInvariant, ~preserved
    PROVE  /\ ForceIsLive => Owned(rec) /\ Owned(saved)
           /\ Armed => lease.fb = rec.tx.base
<1>1. ForceIsLive \/ Armed => Acting(net)
  BY DEF ForceIsLive, Acting, ForcedQueued, Arms
<1>2. Acting(net) => Backed
  BY DEF OwnershipInvariant, Secured
<1>. QED  BY <1>1, <1>2 DEF Backed, OwnerOk

\* As long as a forced write may act, the record in RAM has an owner that will
\* restore it (ForceOwned): the releases in prepare_restore, observe_restore_readback,
\* settle_late_terminal_fallback and async_master_stop come only when nothing
\* forced is left on the inverter, in its queue or on its way, however requests are
\* lost, late or refused and whoever restarts.
THEOREM ForceStaysOwned == Spec => []ForceOwned
<1>1. OwnershipInvariant => ForceOwned
  BY LiveIsOwned DEF ForceOwned
<1>. QED  BY <1>1, OwnershipHolds, PTL

\* ... and so has the record in the Store, which is saved before the arm leaves:
\* a restart of Home Assistant at any point finds the owner (ForceRecorded).
THEOREM ForceStaysRecorded == Spec => []ForceRecorded
<1>1. OwnershipInvariant => ForceRecorded
  BY LiveIsOwned DEF ForceRecorded
<1>. QED  BY <1>1, OwnershipHolds, PTL

\* The block the firmware falls back to when its lease runs out is the base that
\* Home Assistant restores (FallbackAgrees).
THEOREM FallbacksAgree == Spec => []FallbackAgrees
<1>1. OwnershipInvariant => FallbackAgrees
  BY LiveIsOwned DEF FallbackAgrees, Armed
<1>. QED  BY <1>1, OwnershipHolds, PTL

-----------------------------------------------------------------------------
(* One arm at a time: the invariant behind ExecutingAlone.                 *)

\* Forced blocks in the queue, all of it or what waits behind a reading, are b.
Lone(b) == \A i \in 1..Len(bus) : bus[i] \in Forced => bus[i] = b
LoneBehind(b) ==
    \A i, j \in 1..Len(bus) : i < j /\ bus[i] = Poll /\ bus[j] \in Forced => bus[j] = b
\* What an arm for b finds when it is acknowledged, and when a reading shows it.
Sole(b, shown) == LoneBehind(b) /\ (shown \/ lag => Lone(b))

\* An owner to be stopped whose arm was never acknowledged: no match of the base
\* releases it.
Bound(r) ==
    /\ Owned(r) /\ r.tx.own = "auto" /\ r.tx.sent = "no"
    /\ r.st = "restoring" => r.tx.rsent # "newer"
Watching == {"waiting", "executing", "retargeting"}
Ending == {"stopping", "restoring", "fault"}

\* The base of a start, and of an arm that may be accepted, is on the grid.
OnGrid ==
    /\ rec.st = "starting" => rec.tx.base # OffGrid
    /\ Arms(net) => seen # OffGrid
\* An arm that nobody awaits keeps its owner in the stop until a reading retires it.
Abandoned ==
    Arms(Others) => Bound(rec) /\ Bound(saved) /\ rec.st \in Ending

\* An acknowledged arm is alone.
TakenAlone == ArmTaken => ~Arms(net) /\ Sole(rec.tx.b, FALSE)
WatchedAlone ==
    /\ rec.st \in {"waiting", "retargeting"} /\ rec.tx.sent # "no" =>
          ~Arms(net) /\ Sole(rec.tx.b, rec.tx.sent # "same")
    /\ rec.st = "executing" => ~Arms(net) /\ Lone(rec.tx.b)
\* Until a retarget is acknowledged nothing but its predecessor is queued.
PredAlone == ha.at = "retarget" /\ ~ArmTaken => Lone(ha.pred.b)

Alone == TakenAlone /\ WatchedAlone /\ PredAlone
AloneInvariant == OnGrid /\ Abandoned /\ Alone

-----------------------------------------------------------------------------
(* The queue and the requests.                                             *)

LEMMA LoneAppended ==
    ASSUME EspTyped, NEW c \in Blocks \cup {Poll}, bus' = Append(bus, c), NEW b
    PROVE  /\ c \notin Forced \/ c = b =>
                 (Lone(b) => Lone(b)') /\ (LoneBehind(b) => LoneBehind(b)')
           /\ Behind /\ c = b => LoneBehind(b)'
<1>1. /\ Len(bus') = Len(bus) + 1 /\ Len(bus) \in Nat /\ bus'[Len(bus) + 1] = c
      /\ \A i \in 1..Len(bus) : bus'[i] = bus[i]
  BY DEF EspTyped
<1>2. \A i \in 1..Len(bus') : i \in 1..Len(bus) \/ i = Len(bus) + 1
  BY <1>1
<1>3. c \notin Forced \/ c = b => (Lone(b) => Lone(b)')
  BY <1>1, <1>2 DEF Lone
<1>4. c \notin Forced \/ c = b => (LoneBehind(b) => LoneBehind(b)')
  BY <1>1, <1>2 DEF LoneBehind
<1>5. Behind /\ c = b => LoneBehind(b)'
  BY <1>1, <1>2 DEF LoneBehind, Behind
<1>. QED  BY <1>3, <1>4, <1>5

LEMMA LoneDequeued ==
    ASSUME EspTyped, bus # <<>>, bus' = Tail(bus), NEW b
    PROVE  /\ Lone(b) => Lone(b)'
           /\ LoneBehind(b) => LoneBehind(b)'
           /\ Head(bus) = Poll /\ LoneBehind(b) => Lone(b)'
<1>1. /\ Len(bus) \in Nat /\ Len(bus) >= 1 /\ Len(bus') = Len(bus) - 1 /\ Head(bus) = bus[1]
      /\ \A i \in 1..Len(bus') : bus'[i] = bus[i + 1]
  BY DEF EspTyped
<1>2. 1 \in 1..Len(bus) /\ \A i \in 1..Len(bus') : i + 1 \in 1..Len(bus) /\ 1 < i + 1
  BY <1>1
<1>3. Lone(b) => Lone(b)'
  BY <1>1, <1>2 DEF Lone
<1>4. LoneBehind(b) => LoneBehind(b)'
  BY <1>1, <1>2 DEF LoneBehind
<1>5. Head(bus) = Poll /\ LoneBehind(b) => Lone(b)'
  BY <1>1, <1>2 DEF LoneBehind, Lone
<1>. QED  BY <1>3, <1>4, <1>5

LEMMA LoneAll == ASSUME NEW b, Lone(b) PROVE LoneBehind(b) /\ Sole(b, TRUE) /\ Sole(b, FALSE)
BY DEF Lone, LoneBehind, Sole

\* Nothing of the queue or the reading changes.
LEMMA LoneKept ==
    ASSUME UNCHANGED <<bus, lag>>, NEW b
    PROVE  Lone(b)' = Lone(b) /\ LoneBehind(b)' = LoneBehind(b)
BY DEF Lone, LoneBehind

\* Who holds the lock gives up no request unless it times out or is restarted.
LEMMA OthersPass ==
    ASSUME NetTyped, Next, ~DispatchTimesOut, ~Restart
    PROVE  Arms(Others)' => Arms(Others)
<1>0. net \subseteq Requests
  BY DEF NetTyped
<1>1. CASE net' \subseteq net
  BY <1>1 DEF Arms, Others
<1>2. CASE \E m : m.awaited /\ net' = net \cup {m}
  BY <1>2 DEF Arms, Others
<1>3. CASE net' = {OfAnOlderOwner(m) : m \in net}
  <2>1. \A n \in Requests : LET m == OfAnOlderOwner(n) IN
           m.kind = n.kind /\ m.cur = n.cur /\ m.awaited = n.awaited
    BY DEF Requests, OfAnOlderOwner
  <2>2. \A m \in net' : \E n \in net : m.kind = n.kind /\ m.cur = n.cur /\ m.awaited = n.awaited
    BY <1>0, <1>3, <2>1
  <2>. QED  BY <2>2 DEF Arms, Others
<1>4. CASE net' = Matters({[m EXCEPT !.cur = FALSE] : m \in net})
  <2>1. \A n \in Requests : ~[n EXCEPT !.cur = FALSE].cur
    BY DEF Requests
  <2>2. \A m \in net' : ~m.cur
    BY <1>0, <1>4, <2>1 DEF Matters
  <2>. QED  BY <2>2 DEF Arms, Others
<1>5. CASE SendArm \/ SendRestore
  <2>1. \A kind, id, b : Request(kind, id, b).awaited
    BY DEF Request
  <2>. QED  BY <1>2, <1>5, <2>1 DEF SendArm, SendRestore, Send
<1>6. CASE Reconcile \/ (Dispatching /\ ~SendArm /\ ~SendRestore)
  BY <1>1, <1>3, <1>6 DEF Reconcile, Select, Start, PrepareStart, Unblock, Deadline, Observe, Verify,
     Sustain, Retarget, Stopping, PrepareRestore, DenyRestore, Settle, ObserveRestored, Rearm,
     Dispatching, StartRejected, RestoreRejected, RetargetRejected, StartAnswered, RetargetAnswered,
     RestoreAnswered, StartAgain, RetargetAgain, Quiet, Taken
<1>7. CASE Firmware \/ OutsideChange \/ EspRestart
  BY <1>1, <1>4, <1>7 DEF Firmware, PollDue, WriteApplied, WriteLost, Reading, LeaseTimer, EspArms,
     EspRestores, EspRefuses, RequestLost, OutsideChange, EspRestart, Answer
<1>8. CASE RequestMasterStop \/ RetryPersistence \/ \E lost \in BOOLEAN : ReadingReceived(lost)
  BY <1>1, <1>8 DEF RequestMasterStop, RetryPersistence, ReadingReceived, Quiet
<1>. QED  BY <1>5, <1>6, <1>7, <1>8 DEF Next

\* While the arm of the dispatch, or an abandoned one, is on its way.
LEMMA ArmsAre ==
    ASSUME Typed, Awaits, Linked, Abandoned, Arms(net)
    PROVE  /\ Bound(rec) /\ Bound(saved)
           /\ rec.st \in Ending \/ (ha.at \in {"start", "retarget"} /\ ha.step = "await" /\ reply = "none")
<1>0. HaTyped /\ Shape(rec)
  BY HoldsAre DEF Typed
<1>1. CASE Arms(Others)
  BY <1>1 DEF Abandoned
<1>2. ASSUME NEW m \in net, m.kind = "arm", m.awaited
      PROVE  /\ Bound(rec) /\ Bound(saved)
             /\ ha.at \in {"start", "retarget"} /\ ha.step = "await" /\ reply = "none"
  <2>1. ha.step = "await" /\ reply = "none" /\ ha.at # "restore"
    BY <1>2 DEF Awaits
  <2>2. ha.at \in {"start", "retarget"}
    BY <1>0, <2>1, Positions
  <2>3. rec.st \in {"starting", "retargeting"}
    BY <1>0, <2>2, Positions
  <2>4. saved = rec /\ rec.tx.sent = "no"
    BY <2>2 DEF Linked
  <2>5. Owned(rec) /\ rec.tx.own = "auto"
    BY <1>0, <2>3, WorkingIs DEF Working
  <2>. QED  BY <2>1, <2>2, <2>3, <2>4, <2>5 DEF Bound
<1>. QED  BY <1>1, <1>2 DEF Arms, Others

\* An acknowledgement leaves no request to answer.
LEMMA NoneAwaited ==
    ASSUME Awaits, ha.step # "await" \/ reply # "none" PROVE Others = net
BY DEF Awaits, Others

-----------------------------------------------------------------------------
(* The firmware and the inverter.                                          *)

\* Neither a reading nor an accepted arm: nothing new is forced.
LEMMA QuietLone ==
    ASSUME Typed, Awaits,
           \/ PollDue \/ WriteApplied \/ WriteLost \/ LeaseTimer \/ OutsideChange
           \/ \E m \in net : EspRestores(m) \/ EspRefuses(m) \/ RequestLost(m)
    PROVE  /\ HaIdle /\ UNCHANGED <<seen, lag>> /\ net' \subseteq net /\ ArmTaken' = ArmTaken
           /\ \A b : (Lone(b) => Lone(b)') /\ (LoneBehind(b) => LoneBehind(b)')
<1>0. EspTyped
  BY DEF Typed
<1>1. CASE OutsideChange \/ \E m \in net : EspRefuses(m) \/ RequestLost(m)
  <2>1. HaIdle /\ UNCHANGED <<seen, lag, bus>> /\ net' \subseteq net
    BY <1>1 DEF OutsideChange, EspRefuses, RequestLost, EspIdle, Answer, espVars, espOwn
  <2>2. reply' = reply \/ (reply = "none" /\ reply' # "ok")
    BY <1>1 DEF OutsideChange, EspRefuses, RequestLost, EspIdle, Answer, Awaits
  <2>. QED  BY <2>1, <2>2, NotTaken, LoneKept
<1>2. CASE PollDue \/ WriteApplied \/ WriteLost \/ LeaseTimer
  <2>1. /\ HaIdle /\ UNCHANGED <<seen, lag, net, reply>>
    BY <1>2 DEF PollDue, WriteApplied, WriteLost, LeaseTimer, EspIdle
  <2>2. \/ bus' = bus
        \/ bus # <<>> /\ bus' = Tail(bus)
        \/ \E c \in (Blocks \cup {Poll}) \ Forced : bus' = Append(bus, c)
    <3>1. CASE PollDue
      BY <3>1, PollIsNoWrite DEF PollDue, Blocks
    <3>2. CASE WriteApplied \/ WriteLost
      BY <3>2 DEF WriteApplied, WriteLost
    <3>3. CASE LeaseTimer
      <4>1. lease \in Leases => lease.fb \in SelfUse
        BY DEF Leases
      <4>. QED  BY <3>3, <4>1, TimerIs, ExecutorBlocks DEF Queued, Blocks
    <3>. QED  BY <1>2, <3>1, <3>2, <3>3
  <2>3. \A b : (Lone(b) => Lone(b)') /\ (LoneBehind(b) => LoneBehind(b)')
    BY <1>0, <2>1, <2>2, LoneKept, LoneDequeued, LoneAppended
  <2>. QED  BY <2>1, <2>3, NotTaken
<1>3. ASSUME NEW m \in net, EspRestores(m)
      PROVE  /\ HaIdle /\ UNCHANGED <<seen, lag>> /\ net' \subseteq net /\ ArmTaken' = ArmTaken
             /\ \A b : (Lone(b) => Lone(b)') /\ (LoneBehind(b) => LoneBehind(b)')
  <2>1. /\ HaIdle /\ UNCHANGED <<seen, lag>> /\ net' = net \ {m} /\ bus' = Append(bus, m.b)
        /\ m.b \notin Forced /\ m.kind = "restore"
        /\ reply' = IF m.awaited THEN "ok" ELSE reply
    BY <1>3 DEF EspRestores, Answer, Queued
  <2>2. m.b \in Blocks
    BY DEF Typed, NetTyped, Requests
  <2>3. ArmTaken' = ArmTaken
    <3>1. m.awaited => ha.at = "restore"
      BY <2>1 DEF Awaits
    <3>. QED  BY <2>1, <3>1 DEF ArmTaken, Answered, At, HaIdle
  <2>. QED  BY <1>0, <2>1, <2>2, <2>3, LoneAppended
<1>. QED  BY <1>1, <1>2, <1>3

LEMMA QuietAlone ==
    ASSUME Typed, Awaits, AloneInvariant,
           \/ PollDue \/ WriteApplied \/ WriteLost \/ LeaseTimer \/ OutsideChange
           \/ \E m \in net : EspRestores(m) \/ EspRefuses(m) \/ RequestLost(m)
    PROVE  AloneInvariant'
<1>1. /\ UNCHANGED <<rec, saved, ha, seen, lag>> /\ net' \subseteq net /\ ArmTaken' = ArmTaken
      /\ \A b : (Lone(b) => Lone(b)') /\ (LoneBehind(b) => LoneBehind(b)')
  BY QuietLone DEF HaIdle
<1>2. (Arms(net)' => Arms(net)) /\ (Arms(Others)' => Arms(Others))
  BY <1>1 DEF Arms, Others
<1>3. \A b : \A shown \in BOOLEAN : Sole(b, shown) => Sole(b, shown)'
  BY <1>1 DEF Sole
<1>4. OnGrid' /\ Abandoned'
  BY <1>1, <1>2 DEF AloneInvariant, OnGrid, Abandoned, Bound, Owned
<1>5. Alone'
  BY <1>1, <1>2, <1>3 DEF AloneInvariant, Alone, TakenAlone, WatchedAlone, PredAlone
<1>. QED  BY <1>4, <1>5 DEF AloneInvariant

\* A reading retires every arm and leaves nothing in front of it.
LEMMA ReadingAlone ==
    ASSUME Typed, FirmwareOk, AloneInvariant, Reading \/ EspRestart
    PROVE  AloneInvariant'
<1>1. UNCHANGED <<rec, saved, ha, reply>>
  BY DEF Reading, EspRestart, EspIdle, HaIdle
<1>2. ~Arms(net)' /\ ~Arms(Others)'
  <2>1. CASE EspRestart
    BY <2>1 DEF EspRestart, Arms, Others
  <2>2. CASE Reading
    BY <2>2, ReadingIs DEF FirmwareOk, Arms, Others
  <2>. QED  BY <2>1, <2>2
<1>3. ASSUME NEW b, LoneBehind(b) PROVE Lone(b)'
  <2>1. CASE Reading
    <3>1. bus # <<>> /\ Head(bus) = Poll /\ bus' = Tail(bus)
      BY <2>1 DEF Reading
    <3>. QED  BY <1>3, <3>1, LoneDequeued DEF Typed
  <2>2. CASE EspRestart
    <3>1. bus' = <<>>
      BY <2>2 DEF EspRestart
    <3>2. 1..Len(bus') = {}
      BY <3>1
    <3>. QED  BY <3>2 DEF Lone
  <2>. QED  BY <2>1, <2>2
<1>4. ASSUME NEW b, LoneBehind(b) PROVE \A shown \in BOOLEAN : Sole(b, shown)'
  <2>1. Lone(b)'
    BY <1>3, <1>4
  <2>2. Lone(b)' => LoneBehind(b)'
    BY DEF Lone, LoneBehind
  <2>. QED  BY <2>1, <2>2 DEF Sole
<1>5. ArmTaken' = ArmTaken
  BY <1>1 DEF ArmTaken, Answered, At
<1>6. \A b : Lone(b) => LoneBehind(b)
  BY LoneAll
<1>7. TakenAlone' /\ WatchedAlone'
  BY <1>1, <1>2, <1>3, <1>4, <1>5, <1>6 DEF AloneInvariant, Alone, TakenAlone, WatchedAlone, Sole
<1>8. PredAlone'
  BY <1>1, <1>3, <1>5, <1>6 DEF AloneInvariant, Alone, PredAlone
<1>. QED  BY <1>1, <1>2, <1>7, <1>8 DEF AloneInvariant, Alone, OnGrid, Abandoned

\* The arm that is accepted is the one that is awaited, or its owner is stopping.
LEMMA EspArmAlone ==
    ASSUME Typed, Awaits, FirmwareOk, Linked, AloneInvariant, NEW m \in net, EspArms(m)
    PROVE  AloneInvariant'
<1>0. /\ HaTyped /\ EspTyped /\ UNCHANGED <<rec, saved, ha, seen, lag>> /\ net' = net \ {m}
      /\ m.kind = "arm" /\ m.cur /\ barrier = None /\ bus' = Append(bus, m.b)
      /\ reply' = IF m.awaited THEN "ok" ELSE reply
  BY DEF Typed, EspArms, ArmAllowed, Answer, Queued, HaIdle
<1>1. Arms(net) /\ m.b \in Blocks /\ ~lag /\ Behind
  <2>1. m.b \in Blocks
    BY DEF Typed, NetTyped, Requests
  <2>. QED  BY <1>0, <2>1 DEF Arms, FirmwareOk
<1>2. /\ rec.tx.sent = "no"
      /\ rec.st \in Ending \/ (ha.at \in {"start", "retarget"} /\ ha.step = "await" /\ reply = "none")
  BY <1>1, ArmsAre DEF AloneInvariant, Bound
<1>3. rec.st # "executing"
  <2>1. ha.at \in {"start", "retarget"} => rec.st \in {"starting", "retargeting"}
    BY <1>0, Positions
  <2>. QED  BY <1>2, <2>1 DEF Ending
<1>4. Arms(Others)' => Arms(Others)
  BY <1>0 DEF Arms, Others
<1>5. OnGrid' /\ Abandoned'
  BY <1>0, <1>1, <1>4 DEF AloneInvariant, OnGrid, Abandoned, Bound, Owned
<1>6. ASSUME m.awaited
      PROVE  ArmTaken' /\ ~Arms(net)' /\ Sole(rec.tx.b, FALSE)'
  <2>1. ha.at \in {"start", "retarget"} /\ ha.step = "await" /\ m.b = rec.tx.b
    <3>1. ha.step = "await" /\ ha.at # "restore" /\ m.b = rec.tx.b
      BY <1>0, <1>6 DEF Awaits, Linked
    <3>. QED  BY <1>0, <3>1, Positions
  <2>2. net' = Others
    BY <1>0, <1>6 DEF Awaits, Others
  <2>3. ~Arms(Others)
    <3>1. rec.st \in {"starting", "retargeting"}
      BY <1>0, <2>1, Positions
    <3>. QED  BY <3>1 DEF AloneInvariant, Abandoned, Ending
  <2>4. LoneBehind(rec.tx.b)'
    BY <1>0, <1>1, <2>1, LoneAppended
  <2>. QED  BY <1>0, <1>1, <1>6, <2>1, <2>2, <2>3, <2>4 DEF ArmTaken, Answered, At, Arms, Sole
<1>7. ASSUME ~m.awaited
      PROVE  ~ArmTaken' /\ ha'.at # "retarget"
  <2>1. Arms(Others)
    BY <1>0, <1>7 DEF Arms, Others
  <2>2. rec.st \in Ending
    BY <2>1 DEF AloneInvariant, Abandoned
  <2>3. ha.at \notin {"start", "retarget"}
    BY <1>0, <2>2, Positions DEF Ending
  <2>. QED  BY <1>0, <2>3 DEF ArmTaken, Answered, At
<1>8. Alone'
  BY <1>0, <1>2, <1>3, <1>6, <1>7 DEF Alone, TakenAlone, WatchedAlone, PredAlone
<1>. QED  BY <1>5, <1>8 DEF AloneInvariant

\* A reading reaches Home Assistant: what is marked sent was shown by it.
LEMMA ReceivedAlone ==
    ASSUME Typed, Awaits, FirmwareOk, AloneInvariant, NEW lost \in BOOLEAN, ReadingReceived(lost)
    PROVE  AloneInvariant'
<1>0. /\ HaTyped /\ UNCHANGED <<net, seen, bus, reply>> /\ lag' = FALSE
      /\ UNCHANGED <<Arms(net), Others, Arms(Others)>>
  BY DEF Typed, ReadingReceived, Arms, Others
<1>1. /\ rec \in Records /\ rec.tx \in Transactions \cup {None} /\ ha \in HaRecords
      /\ saved \in Records
      /\ ha.pred \in Transactions \cup {None}
  BY <1>0, HoldsAre, Positions, Fields DEF Shape, HaRecords
<1>2. \A b : Lone(b)' = Lone(b) /\ LoneBehind(b)' = LoneBehind(b)
  BY <1>0 DEF Lone, LoneBehind
<1>3. CASE ~lag
  <2>1. UNCHANGED <<rec, saved, ha>>
    BY <1>3 DEF ReadingReceived
  <2>2. ArmTaken' = ArmTaken /\ lag' = lag
    <3>1. lag = FALSE
      BY <1>3 DEF Typed, EspTyped
    <3>. QED  BY <1>0, <2>1, <3>1 DEF ArmTaken, Answered, At
  <2>. QED  BY <1>0, <1>2, <2>1, <2>2 DEF AloneInvariant, OnGrid, Abandoned, Bound, Owned, Alone,
            TakenAlone, WatchedAlone, PredAlone, Sole
<1>4. CASE lag
  <2>1. ~Arms(net)
    BY <1>4 DEF Arms, FirmwareOk
  <2>2. ~Arms(Others)
    BY <2>1 DEF Arms, Others
  <2>3. /\ rec' = [rec EXCEPT !.tx = AgedTx(rec.tx, lost)]
        /\ ha' = [ha EXCEPT !.pred = AgedTx(ha.pred, lost)]
    BY <1>4 DEF ReadingReceived
  <2>4. /\ rec'.st = rec.st /\ rec'.tx = AgedTx(rec.tx, lost)
        /\ ha'.at = ha.at /\ ha'.step = ha.step /\ ha'.pred = AgedTx(ha.pred, lost)
    BY <1>1, <2>3 DEF Records, HaRecords
  <2>5. ArmTaken' = ArmTaken
    BY <1>0, <2>4 DEF ArmTaken, Answered, At
  <2>6. /\ rec.st \in Watching \cup {"starting"} \/ ArmTaken => rec.tx \in Transactions
        /\ ha.at = "retarget" => ha.pred \in Transactions
    <3>1. ArmTaken => rec.st \in {"starting", "retargeting"}
      BY <1>0, Positions DEF ArmTaken, Answered, At
    <3>2. Shape(rec) /\ (rec.st \in Working => rec.tx \in Transactions)
      BY <1>0, HoldsAre, WorkingIs
    <3>. QED  BY <1>0, <3>1, <3>2, Positions DEF Watching, Working
  <2>7. /\ rec.st \in Watching \cup {"starting"} \/ ArmTaken =>
              rec'.tx.b = rec.tx.b /\ rec'.tx.base = rec.tx.base
              /\ (rec'.tx.sent = "no" <=> rec.tx.sent = "no")
        /\ ha.at = "retarget" => ha'.pred.b = ha.pred.b
    BY <2>4, <2>6, AgedTxs
  <2>8. OnGrid' /\ Abandoned'
    BY <1>0, <2>1, <2>2, <2>4, <2>7 DEF AloneInvariant, OnGrid, Abandoned
  <2>9. TakenAlone'
    BY <1>0, <1>2, <1>4, <2>5, <2>7 DEF AloneInvariant, Alone, TakenAlone, Sole
  <2>10. WatchedAlone'
    BY <1>0, <1>2, <1>4, <2>4, <2>7 DEF AloneInvariant, Alone, WatchedAlone, Sole, Watching
  <2>11. PredAlone'
    BY <1>2, <2>4, <2>5, <2>7 DEF AloneInvariant, Alone, PredAlone
  <2>. QED  BY <2>8, <2>9, <2>10, <2>11 DEF AloneInvariant, Alone
<1>. QED  BY <1>3, <1>4 DEF Typed, EspTyped

-----------------------------------------------------------------------------
(* Stopping, and what abandons a dispatch.                                 *)

\* Where a record is that nothing is expected of but a restore.
Resolved == Ending \cup {"idle", "blocked"}

LEMMA RestoreResolved ==
    ASSUME NEW r \in Records, r.st \in Resting, NEW v
    PROVE  RestoreOn(r, v, Verdict(r.tx, v)).st \in Resolved
<1>. DEFINE q == RestoreOn(r, v, Verdict(r.tx, v))
<1>1. \/ q = r \/ q = [r EXCEPT !.tx.rsnap = Snap(v)] \/ q = Finished(r)
      \/ q = RollbackFailed(r) \/ q = Hold(r) \/ q = RestorePrepared(r, v)
  BY DEF RestoreOn, Verdict
<1>. HIDE DEF q
<1>2. [r EXCEPT !.tx.rsnap = Snap(v)].st = r.st /\ RestorePrepared(r, v).st = r.st
  BY DEF Records, RestorePrepared
<1>3. Finished(r).st = "idle" /\ RollbackFailed(r).st = "fault" /\ Hold(r).st = "fault"
  BY EndStates
<1>4. q.st \in {"idle", "fault", r.st}
  BY <1>1, <1>2, <1>3
<1>. QED  BY <1>4 DEF q, Resolved, Ending, Resting

LEMMA ObservedResolved ==
    ASSUME NEW r \in Records, r.st = "restoring", NEW v
    PROVE  ObserveRestore(r, v).st \in Resolved
<1>1. [r EXCEPT !.tx = [r.tx EXCEPT !.rsnap = Snap(v), !.moved = TRUE]].st = r.st
  BY DEF Records
<1>. QED  BY <1>1, EndStates, PublishState DEF ObserveRestore, Resolved, Ending

LEMMA MasterResolved ==
    ASSUME NEW r, Shape(r), NEW v, NEW q \in MasterStop(r, v)
    PROVE  q.st \in Resolved
BY MasterStates DEF Resolved, Ending

LEMMA NotQueuedResolved ==
    ASSUME NEW r \in Records, NEW q \in RestoreNotQueued(r)
    PROVE  q.st \in Resolved
<1>1. \A t : [Fault(r, t) EXCEPT !.held = TRUE].st = "fault" /\ Publish(r, "stopping", t).st = "stopping"
  BY DEF Fault, Publish, Records
<1>. QED  BY <1>1 DEF RestoreNotQueued, Resolved, Ending

LEMMA RecoveredResolved ==
    ASSUME NEW r, Shape(r) PROVE Recovered(r).st \in Resolved
<1>1. r \in Records
  BY DEF Shape
<1>2. [Publish(r, "stopping", [RestoreDropped(r.tx) EXCEPT !.rb = "pending"])
          EXCEPT !.mst = r.mst].st = "stopping"
  BY <1>1 DEF Publish, Records
<1>. QED  BY <1>1, <1>2, EndStates DEF Recovered, RestoreInFlight, Resolved, Ending, Shape

\* What is bound stays bound in its heirs.
LEMMA HeirBound == ASSUME NEW r, Bound(r), NEW q, Heir(r, q) PROVE Bound(q)
BY DEF Bound, Heir, Kin, Owned

\* The record that such a step leaves, and that it stays bound to a late arm.
Leads(q) ==
    /\ rec' = q /\ q.st \in Resolved /\ saved' \in {saved, q}
    /\ Arms(Others) => Bound(q)

\* A late arm is current: the reading is the last one, and on the grid.
LEMMA LateIs ==
    ASSUME FirmwareOk, AloneInvariant, Arms(Others)
    PROVE  /\ Arms(net) /\ seen # None /\ ~lag /\ (view # None => view # OffGrid)
           /\ Bound(rec) /\ Bound(saved) /\ rec.st \in Ending
<1>1. Arms(net)
  BY DEF Arms, Others
<1>2. seen # None /\ ~lag
  BY <1>1 DEF Arms, FirmwareOk
<1>. QED  BY <1>1, <1>2 DEF FirmwareOk, AloneInvariant, OnGrid, Abandoned

LEMMA SavesLeads ==
    ASSUME NEW q, NEW next, Saves(q, next), q.st \in Resolved, Arms(Others) => Bound(q)
    PROVE  Leads(q)
BY DEF Saves, Leads

LEMMA StoppingLeads ==
    ASSUME HaTyped, FirmwareOk, AloneInvariant, Stopping
    PROVE  \E q : Leads(q)
<1>0. /\ rec.st \in Resting \cup {"restoring"} /\ view \in Blocks /\ view # None
      /\ Shape(rec) /\ rec \in Records /\ unsaved \in BOOLEAN
  BY HoldsAre DEF Stopping, PrepareRestore, DenyRestore, Settle, ObserveRestored, Restorable,
     CanReconcile, Resting
<1>1. rec.st \in Resolved /\ (Arms(Others) => Bound(rec) /\ Owned(rec) /\ view # OffGrid)
  BY <1>0, LateIs DEF Resolved, Ending, Resting, Bound
<1>2. ASSUME rec' = rec, saved' = saved PROVE Leads(rec)
  BY <1>1, <1>2 DEF Leads
<1>3. ASSUME NEW q, NEW next, SaveIfChanged(q, next), q.st \in Resolved,
             Arms(Others) => Heir(rec, q)
      PROVE  \E p : Leads(p)
  <2>1. CASE Saves(q, next)
    <3>1. Arms(Others) => Bound(q)
      BY <1>1, <1>3, HeirBound
    <3>. QED  BY <1>3, <2>1, <3>1, SavesLeads
  <2>2. CASE rec' = rec /\ saved' = saved
    BY <1>2, <2>2
  <2>. QED  BY <1>0, <1>3, <2>1, <2>2, ChangedSaves
<1>4. CASE PrepareRestore
  <2>. DEFINE verdict == Verdict(rec.tx, view)
              next == IF verdict = "write" THEN Ready("restore") ELSE Free
  <2>1. rec.st \in Resting /\ SaveIfChanged(RestoreOn(rec, view, verdict), next)
    BY <1>4 DEF PrepareRestore, Restorable, CanReconcile, Resting
  <2>2. RestoreOn(rec, view, verdict).st \in Resolved
    BY <1>0, <2>1, RestoreResolved
  <2>3. ASSUME Arms(Others) PROVE verdict # "done"
    <3>1. SUFFICES ASSUME verdict = "done" PROVE FALSE
      OBVIOUS
    <3>2. RestoreDone(rec.tx, view)
      BY <3>1 DEF Verdict
    <3>. QED  BY <1>1, <2>3, <3>2 DEF Bound, RestoreDone, NoPriorWrite, NeutralConfirmed
  <2>4. Arms(Others) => Heir(rec, RestoreOn(rec, view, verdict))
    <3>. HIDE DEF verdict
    <3>1. verdict = Verdict(rec.tx, view)
      BY DEF verdict
    <3>. QED  BY <1>0, <2>1, <2>3, <3>1, RestoreHeir
  <2>. HIDE DEF verdict, next
  <2>. QED  BY <1>3, <2>1, <2>2, <2>4
<1>5. CASE DenyRestore
  <2>1. PICK q \in RestoreDenied(rec) : SaveIfChanged(q, Free)
    BY <1>5 DEF DenyRestore
  <2>2. q.st \in Resolved /\ (Arms(Others) => Heir(rec, q))
    BY <1>0, <1>1, <2>1, EndsHeir, EndStates DEF RestoreDenied, Resolved, Ending
  <2>. QED  BY <1>3, <2>1, <2>2
<1>6. CASE Settle
  <2>1. ~Arms(Others)
    BY <1>1, <1>6 DEF Settle, SettledBy, Bound
  <2>2. CASE Save(Finished(rec), Free, TRUE)
    <3>1. Finished(rec).st \in Resolved
      BY <1>0, EndStates DEF Resolved
    <3>. QED  BY <1>0, <2>1, <2>2, <3>1, SaveSaves, SavesLeads
  <2>3. CASE UNCHANGED <<rec, saved, ha>>
    BY <1>2, <2>3
  <2>. QED  BY <1>6, <2>2, <2>3 DEF Settle
<1>7. CASE ObserveRestored
  <2>1. /\ rec.st = "restoring" /\ ObserveRestore(rec, view) # rec
        /\ Save(ObserveRestore(rec, view), Free, TRUE)
    BY <1>7 DEF ObserveRestored, CanReconcile
  <2>2. ~Arms(Others)
    BY <1>1, <2>1 DEF Bound, ObserveRestore
  <2>. QED  BY <1>0, <2>1, <2>2, ObservedResolved, SaveSaves, SavesLeads
<1>. QED  BY <1>4, <1>5, <1>6, <1>7 DEF Stopping

\* A late deadline, MASTER STOP, and the answers of a restore.
LEMMA EndingLeads ==
    ASSUME HaTyped, FirmwareOk, AloneInvariant,
           \/ Deadline \/ RequestMasterStop \/ RestoreAnswered \/ RestoreRejected \/ SendRestore
    PROVE  \E q : Leads(q)
<1>0. Shape(rec) /\ rec \in Records /\ unsaved \in BOOLEAN
  BY HoldsAre
<1>1. Arms(Others) => Bound(rec) /\ Owned(rec) /\ rec.st \in Ending
  BY LateIs DEF Bound
<1>2. ASSUME NEW q, NEW next, Saves(q, next), q.st \in Resolved, Arms(Others) => Heir(rec, q)
      PROVE  \E p : Leads(p)
  BY <1>1, <1>2, HeirBound, SavesLeads
<1>3. CASE Deadline
  <2>. DEFINE q == CASE rec.st = "restoring" -> RollbackFailed(rec)
                     [] rec.st \in {"starting", "waiting", "retargeting"} -> Fault(rec, rec.tx)
                     [] OTHER -> StopRequested(rec)
  <2>1. Commit(q, Free)
    BY <1>3 DEF Deadline
  <2>2. q = RollbackFailed(rec) \/ q = Fault(rec, rec.tx) \/ q = StopRequested(rec)
    OBVIOUS
  <2>. HIDE DEF q
  <2>3. q.st \in Resolved /\ (Arms(Others) => Heir(rec, q))
    BY <1>0, <1>1, <2>2, EndsHeir, EndStates DEF Resolved, Ending
  <2>. QED  BY <1>0, <1>2, <2>1, <2>3, CommitSaves
<1>4. CASE RequestMasterStop
  <2>1. PICK q \in MasterStop(rec, view) : CommitStop(q, Free, TRUE)
    BY <1>4 DEF RequestMasterStop
  <2>2. Saves(q, Free)
    BY <1>0, <2>1, SaveSaves
  <2>. QED  BY <1>0, <1>1, <1>2, <2>1, <2>2, MasterHeir, MasterResolved
<1>5. CASE RestoreRejected \/ SendRestore
  <2>1. rec.st \in Resolved
    BY <1>5, Positions DEF RestoreRejected, SendRestore, At, Resting, Resolved, Ending
  <2>. QED  BY <1>1, <1>5, <2>1 DEF RestoreRejected, SendRestore, Send, Leads
<1>6. CASE RestoreAnswered
  <2>0. Owned(rec) /\ PreparedUnsent(rec.tx) /\ rec.tx.refused < 2
    BY <1>6, Positions DEF RestoreAnswered, At
  <2>1. CASE Save(MarkRestoreSent(rec), Free, FALSE)
    <3>1. PICK q : q = MarkRestoreSent(rec)
      OBVIOUS
    <3>2. /\ q.st = "restoring" /\ q.tx # None /\ Kin(rec.tx, q.tx) /\ q.tx.rsent = "same"
      BY <1>0, <2>0, <3>1, RestoreSentIs
    <3>3. Bound(rec) => Bound(q)
      BY <3>2 DEF Bound, Kin, Owned
    <3>4. Saves(q, Free)
      BY <1>0, <2>1, <3>1, SaveSaves
    <3>. QED  BY <1>1, <3>2, <3>3, <3>4, SavesLeads DEF Resolved, Ending
  <2>2. CASE \E q \in RestoreNotQueued(rec) : Save(q, Free, FALSE)
    BY <1>0, <1>2, <2>0, <2>2, NotQueuedHeir, NotQueuedResolved, SaveSaves
  <2>3. CASE Save(RestoreUnknown(rec), Free, TRUE)
    <3>1. RestoreUnknown(rec).st \in Resolved
      BY <1>0, EndStates DEF Resolved, Ending
    <3>. QED  BY <1>0, <1>2, <2>0, <2>3, <3>1, EndsHeir, SaveSaves
  <2>. QED  BY <1>6, <2>1, <2>2, <2>3 DEF RestoreAnswered
<1>. QED  BY <1>3, <1>4, <1>5, <1>6

-----------------------------------------------------------------------------
(* Starting, waiting, executing, retargeting.                              *)

LEMMA StartingIs ==
    ASSUME HaTyped, OnGrid,
           \/ Select \/ Start \/ PrepareStart \/ Unblock \/ Rearm \/ StartRejected \/ StartAgain
    PROVE  /\ rec'.st \in Resolved \cup {"selected", "starting"}
           /\ rec'.st = "starting" => rec'.tx.base # OffGrid
<1>0. Shape(rec) /\ rec \in Records
  BY HoldsAre
<1>1. /\ Blocked(rec).st = "blocked" /\ Finished(rec).st = "idle" /\ Rearmed(rec).st = rec.st
      /\ StopRequested(rec).st \in {"stopping", "idle"}
  BY <1>0, EndStates
<1>2. ASSUME NEW q, rec' = q, \/ q.st \in Resolved \cup {"selected"}
                              \/ q.st = "starting" /\ q.tx.base # OffGrid
      PROVE  /\ rec'.st \in Resolved \cup {"selected", "starting"}
             /\ rec'.st = "starting" => rec'.tx.base # OffGrid
  BY <1>2 DEF Resolved, Ending
<1>3. CASE Select
  <2>1. PICK b \in Forced : rec' = SelectIntent(rec, b)
    BY <1>3 DEF Select, Commit
  <2>2. SelectIntent(rec, b).st \in {"selected", "blocked"}
    BY <1>0, PublishState DEF SelectIntent
  <2>. QED  BY <1>2, <2>1, <2>2 DEF Resolved
<1>4. CASE Start
  <2>1. PICK q \in StartOn(rec, view) \cup {StopRequested(rec)} : rec' = q
    BY <1>4 DEF Start, Commit
  <2>2. rec.tx \in Transactions /\ view \in Blocks
    <3>1. rec.st = "selected" /\ view # None
      BY <1>4 DEF Start, CanGoOn
    <3>2. rec.tx # None
      BY <1>0, <3>1 DEF Shape
    <3>. QED  BY <1>0, <3>1, <3>2, HoldsAre, ShapeTx
  <2>3. CASE q = Publish(rec, "starting", [rec.tx EXCEPT !.own = "auto", !.base = view])
             /\ view # OffGrid
    <3>. DEFINE t == [rec.tx EXCEPT !.own = "auto", !.base = view]
    <3>1. t \in Transactions /\ t.base = view
      BY <2>2 DEF Transactions
    <3>. HIDE DEF t
    <3>2. PICK p : p = Publish(rec, "starting", t)
      OBVIOUS
    <3>3. p.st = "starting" /\ p.tx = [t EXCEPT !.st = "starting"]
      <4>1. "starting" \in States
        BY DEF States
      <4>. QED  BY <1>0, <3>1, <3>2, <4>1, PublishIs
    <3>4. p.tx.base = view
      BY <3>1, <3>3, StateOnly
    <3>. QED  BY <1>2, <2>1, <2>3, <3>2, <3>3, <3>4 DEF t
  <2>4. CASE q = Blocked(rec) \/ q = StopRequested(rec)
    <3>1. q.st \in Resolved
      BY <1>1, <2>4 DEF Resolved, Ending
    <3>. QED  BY <1>2, <2>1, <3>1
  <2>. QED  BY <2>1, <2>3, <2>4 DEF StartOn
<1>5. ASSUME rec.st = "starting", NEW v,
             NEW q \in {Blocked(rec), Deferred(rec), Prepared(rec, v)}, rec' = q
      PROVE  /\ rec'.st \in Resolved \cup {"selected", "starting"}
             /\ rec'.st = "starting" => rec'.tx.base # OffGrid
  <2>1. rec.tx \in Transactions /\ rec.tx.base # OffGrid
    BY <1>0, <1>5, WorkingIs DEF Working, OnGrid
  <2>2. ASSUME NEW p
        PROVE  [rec EXCEPT !.tx.pre = p].st = rec.st /\ [rec EXCEPT !.tx.pre = p].tx.base = rec.tx.base
    <3>1. [rec EXCEPT !.tx.pre = p].st = rec.st
          /\ [rec EXCEPT !.tx.pre = p].tx = [rec.tx EXCEPT !.pre = p]
      BY <1>0 DEF Records
    <3>2. [rec.tx EXCEPT !.pre = p].base = rec.tx.base
      BY <2>1 DEF Transactions
    <3>. QED  BY <3>1, <3>2
  <2>3. q.st = "blocked" \/ (q.st = "starting" /\ q.tx.base # OffGrid)
    <3>1. CASE q = Blocked(rec)
      BY <1>1, <3>1
    <3>2. CASE q = Deferred(rec)
      BY <1>5, <2>1, <2>2, <3>2 DEF Deferred
    <3>3. CASE q = Prepared(rec, v)
      BY <1>5, <2>1, <2>2, <3>3 DEF Prepared
    <3>. QED  BY <1>5, <3>1, <3>2, <3>3
  <2>. QED  BY <1>2, <1>5, <2>3 DEF Resolved
<1>6. CASE PrepareStart
  BY <1>5, <1>6 DEF PrepareStart, CanGoOn, PrepareCommand, Commit
<1>7. CASE StartRejected
  <2>1. rec.st = "starting"
    BY <1>7, Positions DEF StartRejected, At
  <2>. QED  BY <1>5, <1>7, <2>1 DEF StartRejected, Commit
<1>8. CASE StartAgain
  <2>1. rec.st = "starting"
    BY <1>8, Positions DEF StartAgain, At
  <2>2. rec' \in Reprepare(rec, view) \cup {Blocked(rec)}
    BY <1>8 DEF StartAgain, Commit
  <2>. QED  BY <1>5, <2>1, <2>2 DEF Reprepare
<1>9. CASE Unblock \/ Rearm
  BY <1>1, <1>2, <1>9 DEF Unblock, Rearm, CanReconcile, Commit, Resolved
<1>. QED  BY <1>3, <1>4, <1>6, <1>7, <1>8, <1>9

\* Nothing for another block is on its way when a step reads its answer.
LEMMA NoneLate ==
    ASSUME Typed, Awaits, Linked, AloneInvariant, rec.st \notin Ending,
           ha.step # "await" \/ reply # "none"
    PROVE  ~Arms(net)
BY ArmsAre DEF AloneInvariant

\* The record that a step leaves, and what it then has to itself.
Watches(q) ==
    /\ rec' = q
    /\ q.st = "starting" => q.tx.base # OffGrid
    /\ q.st \in {"waiting", "retargeting"} /\ q.tx.sent # "no" =>
          ~Arms(net) /\ Sole(q.tx.b, q.tx.sent # "same")
    /\ q.st = "executing" => ~Arms(net) /\ Lone(q.tx.b)
    /\ ha'.at = "retarget" => \E p : ha'.pred = p /\ Lone(p.b)

LEMMA ResolvedWatches ==
    ASSUME NEW q, rec' = q, q.st \in Resolved, ha'.at # "retarget" PROVE Watches(q)
BY DEF Watches, Resolved, Ending

LEMMA CommitIs == ASSUME NEW q, Commit(q, Free) PROVE rec' = q /\ ha' = Free /\ ha'.at = "free"
BY DEF Commit, Free

LEMMA ObserveWatches ==
    ASSUME Typed, Awaits, Linked, AloneInvariant, Observe \/ Verify \/ Sustain
    PROVE  \E q : Watches(q)
<1>0. /\ HaTyped /\ Shape(rec) /\ rec \in Records /\ rec.st \in Watching
      /\ rec.tx \in Transactions /\ ~Arms(net)
  <2>1. HaTyped /\ rec.st \in Watching /\ ha.step # "await"
    BY DEF Typed, Observe, Verify, Sustain, CanReconcile, Free, Watching
  <2>. QED  BY <2>1, HoldsAre, WorkingIs, NoneLate DEF Watching, Working, Ending
<1>1. /\ StopRequested(rec).st \in Resolved /\ Contradicted(rec).st \in Resolved
      /\ Fault(rec, rec.tx).st \in Resolved
  BY <1>0, EndStates DEF Resolved, Ending
<1>2. ASSUME NEW q \in {StopRequested(rec), Contradicted(rec), Fault(rec, rec.tx)},
             Commit(q, Free)
      PROVE  Watches(q)
  BY <1>1, <1>2, CommitIs, ResolvedWatches
<1>3. CASE Observe
  <2>1. rec.st \in {"waiting", "retargeting"}
    BY <1>3 DEF Observe, CanReconcile
  <2>2. PICK q : /\ q # rec /\ Commit(q, Free)
                 /\ q = StopRequested(rec) \/ (rec.tx.sent # "no" /\ q \in ObserveReadback(rec, view))
    BY <1>3 DEF Observe
  <2>3. CASE q = [rec EXCEPT !.tx.ack = TRUE] /\ rec.tx.sent # "no"
    <3>1. q.st = rec.st /\ q.tx = [rec.tx EXCEPT !.ack = TRUE]
      BY <1>0, <2>3 DEF Records
    <3>2. q.tx.b = rec.tx.b /\ q.tx.sent = rec.tx.sent
      BY <1>0, <3>1 DEF Transactions
    <3>3. ~Arms(net) /\ Sole(rec.tx.b, rec.tx.sent # "same")
      BY <2>1, <2>3 DEF AloneInvariant, Alone, WatchedAlone
    <3>. QED  BY <2>1, <2>2, <3>1, <3>2, <3>3, CommitIs DEF Watches
  <2>. QED  BY <1>2, <2>2, <2>3 DEF ObserveReadback
<1>4. CASE Verify
  <2>1. PICK q \in ObservePhysical(rec) : q # rec /\ Commit(q, Free)
    BY <1>4 DEF Verify
  <2>2. rec.st \in {"waiting", "retargeting"} /\ rec.tx.sent = "newer"
    BY <1>4 DEF Verify, CanReconcile
  <2>3. Lone(rec.tx.b)
    BY <2>2 DEF AloneInvariant, Alone, WatchedAlone, Sole
  <2>4. CASE q = Publish(rec, "executing", rec.tx)
    <3>1. q.st = "executing" /\ q.tx = [rec.tx EXCEPT !.st = "executing"]
      <4>1. "executing" \in States
        BY DEF States
      <4>. QED  BY <1>0, <2>4, <4>1, PublishIs
    <3>2. q.tx.b = rec.tx.b
      BY <1>0, <3>1, StateOnly
    <3>. QED  BY <1>0, <2>1, <2>3, <3>1, <3>2, CommitIs DEF Watches
  <2>. QED  BY <1>2, <2>1, <2>4 DEF ObservePhysical
<1>5. CASE Sustain
  <2>1. PICK q \in Continue(rec, view) : q # rec /\ Commit(q, Free)
    BY <1>5 DEF Sustain
  <2>. QED  BY <1>2, <2>1 DEF Continue
<1>. QED  BY <1>3, <1>4, <1>5

\* A retarget that is cancelled resumes its predecessor, which is alone.
LEMMA CancelWatches ==
    ASSUME NEW r \in Records, NEW p \in Transactions, Lone(p.b), ~Arms(net),
           NEW q \in CancelRetarget(r, p, view), rec' = q, ha' = Free
    PROVE  Watches(q)
<1>0. ha'.at = "free"
  BY DEF Free
<1>1. CASE q = StopRequested(r)
  BY <1>0, <1>1, EndStates, ResolvedWatches DEF Resolved, Ending
<1>2. CASE q = Publish(r, "executing", p)
  <2>1. q.st = "executing" /\ q.tx = [p EXCEPT !.st = "executing"]
    <3>1. "executing" \in States
      BY DEF States
    <3>. QED  BY <1>2, <3>1, PublishIs
  <2>2. q.tx.b = p.b
    BY <2>1, StateOnly
  <2>. QED  BY <1>0, <2>1, <2>2 DEF Watches
<1>. QED  BY <1>1, <1>2 DEF CancelRetarget

LEMMA CommitRetargetWatches ==
    ASSUME NEW r \in Records, r.st \in Resolved \cup {"retargeting"},
           r.st = "retargeting" => r.tx.sent = "no",
           NEW p \in Transactions, Lone(p.b), ~Arms(net), NEW next, next.pred = p,
           CommitRetarget(r, p, next)
    PROVE  \E q : Watches(q)
<1>1. CASE r.st # "retargeting"
  <2>1. Commit(r, Free)
    BY <1>1 DEF CommitRetarget
  <2>. QED  BY <1>1, <2>1, CommitIs, ResolvedWatches
<1>2. CASE r.st = "retargeting" /\ rec' = r /\ ha' = next
  BY <1>2 DEF Watches
<1>3. CASE \E q \in CancelRetarget(r, p, view) : rec' = q /\ ha' = Free
  BY <1>3, CancelWatches
<1>. QED  BY <1>1, <1>2, <1>3 DEF CommitRetarget

LEMMA RetargetWatches ==
    ASSUME Typed, Awaits, Linked, AloneInvariant, Retarget \/ RetargetRejected \/ RetargetAgain
    PROVE  \E q : Watches(q)
<1>0. /\ HaTyped /\ Shape(rec) /\ rec \in Records /\ ha.step # "await"
      /\ rec.st \in {"executing", "retargeting"} /\ ~Arms(net)
  <2>1. HaTyped /\ ha.step # "await"
    BY FreeIs DEF Typed, Retarget, RetargetRejected, RetargetAgain, CanReconcile, At
  <2>2. rec.st \in {"executing", "retargeting"}
    BY <2>1, Positions DEF Retarget, RetargetRejected, RetargetAgain, CanReconcile, At
  <2>. QED  BY <2>1, <2>2, HoldsAre, NoneLate DEF Ending
<1>1. ASSUME NEW r, Shape(r), r.st = "executing", NEW v \in Blocks, NEW b \in Forced,
             NEW q \in PrepareRetarget(r, v, b)
      PROVE  /\ q \in Records /\ q.st \in Resolved \cup {"retargeting"}
             /\ q.st = "retargeting" => q.tx.sent = "no"
  <2>1. q \in Records /\ (q.st = "retargeting" => q.tx.sent = "no")
    BY <1>1, RetargetPrepared
  <2>2. q.st = "retargeting" \/ q = StopRequested(r) \/ q = Contradicted(r)
    BY <1>1, Retargets
  <2>3. r \in Records
    BY <1>1 DEF Shape
  <2>. QED  BY <2>1, <2>2, <2>3, EndStates DEF Resolved, Ending
<1>2. CASE Retarget
  <2>1. rec.st = "executing" /\ view \in Blocks
    BY <1>0, <1>2, HoldsAre DEF Retarget, CanReconcile
  <2>2. rec.tx \in Transactions /\ Lone(rec.tx.b)
    BY <1>0, <2>1, WorkingIs DEF Working, AloneInvariant, Alone, WatchedAlone
  <2>3. PICK b \in Forced \ {rec.tx.b} : \E r \in PrepareRetarget(rec, view, b) :
            CommitRetarget(r, rec.tx, [Ready("retarget") EXCEPT !.pred = rec.tx])
    BY <1>2 DEF Retarget
  <2>4. PICK r \in PrepareRetarget(rec, view, b) :
            CommitRetarget(r, rec.tx, [Ready("retarget") EXCEPT !.pred = rec.tx])
    BY <2>3
  <2>. DEFINE h == [Ready("retarget") EXCEPT !.pred = rec.tx]
  <2>5. h.pred = rec.tx /\ CommitRetarget(r, rec.tx, h)
    BY <2>4, NextIs
  <2>. HIDE DEF h
  <2>. QED  BY <1>0, <1>1, <2>1, <2>2, <2>4, <2>5, CommitRetargetWatches
<1>3. ASSUME ha.at = "retarget"
      PROVE  ha \in HaRecords /\ ha.pred \in Transactions /\ Lone(ha.pred.b)
  BY <1>0, <1>3, Positions DEF AloneInvariant, Alone, PredAlone, ArmTaken, Answered, At
<1>4. ASSUME ha.at = "retarget", NEW q \in CancelRetarget(rec, ha.pred, view), Commit(q, Free)
      PROVE  Watches(q)
  BY <1>0, <1>3, <1>4, CommitIs, CancelWatches
<1>5. CASE RetargetRejected
  BY <1>4, <1>5 DEF RetargetRejected, At
<1>6. CASE RetargetAgain
  <2>0. ha.at = "retarget"
    BY <1>6 DEF RetargetAgain, At
  <2>1. CASE \E r \in CancelRetarget(rec, ha.pred, view) : Commit(r, Free)
    BY <1>4, <2>0, <2>1
  <2>. DEFINE again == [ha EXCEPT !.step = "ready", !.try = 2]
  <2>2. CASE \E r \in Successors : CommitRetarget(r, ha.pred, again)
    <3>1. PICK r \in Successors : CommitRetarget(r, ha.pred, again)
      BY <2>2
    <3>2. again.pred = ha.pred
      BY <1>3, <2>0, NextIs
    <3>. HIDE DEF again
    <3>3. /\ r \in Records /\ r.st \in Resolved \cup {"retargeting"}
          /\ r.st = "retargeting" => r.tx.sent = "no"
      <4>1. CASE r = StopRequested(rec)
        <5>1. Shape(r) /\ r.st \in {"stopping", "idle"}
          BY <1>0, <2>0, <4>1, Faults, EndStates, Positions, WorkingIs DEF Follows, Working
        <5>. QED  BY <5>1 DEF Shape, Resolved, Ending
      <4>. QED  BY <1>0, <1>1, <2>0, <4>1, SuccessorIs
    <3>. QED  BY <1>0, <1>3, <2>0, <3>1, <3>2, <3>3, CommitRetargetWatches
  <2>. QED  BY <1>6, <2>1, <2>2 DEF RetargetAgain
<1>. QED  BY <1>2, <1>5, <1>6

\* An acknowledged arm is marked sent; a refused retarget waits or is cancelled.
LEMMA AnswerWatches ==
    ASSUME Typed, Awaits, Linked, AloneInvariant, StartAnswered \/ RetargetAnswered
    PROVE  \E q : Watches(q)
<1>0. /\ HaTyped /\ Shape(rec) /\ rec \in Records /\ rec.tx \in Transactions /\ Owned(rec)
      /\ ha \in HaRecords /\ ha.at \in {"start", "retarget"} /\ ha.step = "await" /\ reply # "none"
      /\ ha.at = "start" => rec.st = "starting"
      /\ ha.at = "retarget" => rec.st = "retargeting"
  <2>1. HaTyped /\ ha.at \in {"start", "retarget"} /\ ha.step = "await" /\ reply # "none"
    BY DEF Typed, StartAnswered, RetargetAnswered, At
  <2>2. Shape(rec) /\ rec.st \in Working
    BY <2>1, HoldsAre, Positions DEF Working
  <2>. QED  BY <2>1, <2>2, Positions, WorkingIs
<1>1. arms \in Nat /\ ~Arms(net) /\ rec.tx.sent = "no"
  BY <1>0, HoldsAre, NoneLate DEF Ending, Linked
<1>2. ASSUME NEW q \in {Blocked(rec), OutcomeUnknown(rec)}, Commit(q, Free) PROVE Watches(q)
  <2>1. q.st \in Resolved
    BY <1>0, <1>2, EndStates DEF Resolved, Ending
  <2>. QED  BY <1>2, <2>1, CommitIs, ResolvedWatches
<1>3. ASSUME reply = "ok", NEW q \in MarkSent(rec, arms), Commit(q, Free) PROVE Watches(q)
  <2>1. ArmTaken
    BY <1>0, <1>3 DEF ArmTaken, Answered, At
  <2>2. Sole(rec.tx.b, FALSE)
    BY <2>1 DEF AloneInvariant, Alone, TakenAlone
  <2>3. q.tx.b = rec.tx.b /\ q.tx.sent = "same"
    BY <1>0, <1>1, <1>3, SentIs
  <2>4. q.st \in {"waiting", "retargeting", "fault"}
    BY <1>0, <1>3, PublishState, EndStates DEF MarkSent
  <2>. QED  BY <1>1, <1>3, <2>2, <2>3, <2>4, CommitIs DEF Watches
<1>4. ASSUME ha.at = "retarget", reply # "ok"
      PROVE  ha.pred \in Transactions /\ Lone(ha.pred.b)
  BY <1>0, <1>4, Positions DEF AloneInvariant, Alone, PredAlone, ArmTaken, Answered, At
<1>5. ASSUME rec' = rec, ha' = [ha EXCEPT !.step = "stale"], ha.at = "retarget" => reply # "ok"
      PROVE  Watches(rec)
  <2>1. ha'.at = ha.at /\ ha'.pred = ha.pred
    BY <1>0, <1>5 DEF HaRecords
  <2>. QED  BY <1>0, <1>1, <1>4, <1>5, <2>1 DEF Watches, AloneInvariant, OnGrid
<1>6. CASE StartAnswered
  <2>1. ha.at = "start"
    BY <1>6 DEF StartAnswered, At
  <2>. QED  BY <1>2, <1>3, <1>5, <1>6, <2>1 DEF StartAnswered
<1>7. CASE RetargetAnswered
  <2>1. ha.at = "retarget"
    BY <1>7 DEF RetargetAnswered, At
  <2>2. ASSUME reply # "ok", NEW q \in CancelRetarget(rec, ha.pred, view), Commit(q, Free)
        PROVE  Watches(q)
    BY <1>0, <1>1, <1>4, <2>1, <2>2, CommitIs, CancelWatches
  <2>. QED  BY <1>2, <1>3, <1>5, <1>7, <2>1, <2>2 DEF RetargetAnswered
<1>. QED  BY <1>6, <1>7

-----------------------------------------------------------------------------
(* Home Assistant's steps.                                                 *)

\* No step of Home Assistant leaves an answer that is not read.
LEMMA AnswerRead == ASSUME HaTyped, Awaits, HaStep PROVE reply' = "none"
<1>1. CASE Reconcile \/ RequestMasterStop \/ RetryPersistence
  <2>1. ha.step # "await" /\ reply' = reply
    BY <1>1, FreeIs DEF Reconcile, Select, Start, PrepareStart, Unblock, Deadline, Observe, Verify,
       Sustain, Retarget, Stopping, PrepareRestore, DenyRestore, Settle, ObserveRestored, Rearm,
       Restorable, CanReconcile, CanGoOn, Quiet, RequestMasterStop, RetryPersistence
  <2>. QED  BY <2>1 DEF Awaits
<1>2. CASE SendArm \/ SendRestore \/ StartRejected \/ RestoreRejected \/ RetargetRejected
           \/ StartAgain \/ RetargetAgain
  <2>1. ha.step # "await" /\ reply' = reply
    BY <1>2 DEF SendArm, SendRestore, Send, StartRejected, RestoreRejected, RetargetRejected,
       StartAgain, RetargetAgain, At, Quiet
  <2>. QED  BY <2>1 DEF Awaits
<1>3. CASE StartAnswered \/ RetargetAnswered \/ RestoreAnswered \/ DispatchTimesOut \/ Restart
  BY <1>3 DEF StartAnswered, RetargetAnswered, RestoreAnswered, DispatchTimesOut, Restart, Taken
<1>. QED  BY <1>1, <1>2, <1>3 DEF HaStep, Dispatching

\* A dispatch is given up: its arm may be accepted yet, its owner is bound.
LEMMA GivenUpAbandoned ==
    ASSUME Typed, Awaits, Linked, FirmwareOk, AloneInvariant, DispatchTimesOut \/ Restart
    PROVE  /\ rec'.st \in Resolved
           /\ Arms(net) => Bound(rec') /\ Bound(saved')
<1>0. HaTyped /\ Shape(rec) /\ Shape(saved) /\ rec \in Records /\ unsaved \in BOOLEAN
  BY HoldsAre DEF Typed
<1>1. Arms(net) => Bound(rec) /\ Bound(saved)
  BY ArmsAre DEF AloneInvariant
<1>2. CASE DispatchTimesOut
  <2>1. PICK q : q = GivenUp /\ Saves(q, Free)
    BY <1>0, <1>2, SaveSaves DEF DispatchTimesOut
  <2>2. q.st \in Resolved
    BY <1>0, <2>1, EndStates DEF GivenUp, Resolved, Ending
  <2>3. Owned(rec) => Heir(rec, q)
    BY <1>0, <2>1, EndsHeir DEF GivenUp
  <2>4. Bound(rec) => Bound(q)
    BY <2>3, HeirBound DEF Bound
  <2>. QED  BY <1>1, <2>1, <2>2, <2>4 DEF Saves
<1>3. CASE Restart
  <2>1. rec' = Recovered(saved) /\ saved' = Recovered(saved)
    BY <1>3 DEF Restart
  <2>2. Bound(saved) => Bound(Recovered(saved))
    BY <1>0, RecoverHeir, HeirBound DEF Bound
  <2>. QED  BY <1>0, <1>1, <2>1, <2>2, RecoveredResolved
<1>. QED  BY <1>2, <1>3

\* The firmware holds what it held, and no more arms are on their way.
LEMMA WatchesAlone ==
    ASSUME UNCHANGED <<seen, lag, bus>>, reply' = "none", Arms(net)' => Arms(net),
           OnGrid, NEW q, Watches(q)
    PROVE  OnGrid' /\ Alone'
<1>1. ~ArmTaken'
  BY DEF ArmTaken, Answered
<1>2. \A b : Lone(b)' = Lone(b) /\ LoneBehind(b)' = LoneBehind(b)
  BY LoneKept
<1>3. \A b : \A shown \in BOOLEAN : Sole(b, shown) => Sole(b, shown)'
  BY <1>2 DEF Sole
<1>4. OnGrid'
  BY DEF OnGrid, Watches
<1>5. TakenAlone'
  BY <1>1 DEF TakenAlone
<1>6. WatchedAlone'
  BY <1>2, <1>3 DEF WatchedAlone, Watches
<1>7. PredAlone'
  BY <1>2 DEF PredAlone, Watches
<1>. QED  BY <1>4, <1>5, <1>6, <1>7 DEF Alone

\* A bound record that waits for a restore is ending.
LEMMA BoundEnds == ASSUME NEW q, Shape(q), Bound(q), q.st \in Resolved PROVE q.st \in Ending
BY DEF Shape, WellFormed, Bound, Owned, Resolved, Ending

LEMMA HaAlone ==
    ASSUME Typed, HaTyped', Awaits, Linked, FirmwareOk, AloneInvariant, HaStep, ~SendArm
    PROVE  AloneInvariant'
<1>0. /\ HaTyped /\ NetTyped /\ UNCHANGED <<seen, lag, bus>> /\ reply' = "none"
      /\ Arms(net)' => Arms(net)
  <2>1. Passes \/ SendRestore
    BY CarriedOn DEF HaStep, Next, Typed
  <2>2. CASE SendRestore
    <3>1. \A id, b : Request("restore", id, b).kind = "restore"
      BY DEF Request
    <3>. QED  BY <2>2, <3>1, HaStill, AnswerRead DEF SendRestore, Send, Arms, Typed
  <2>. QED  BY <2>1, <2>2, HaStill, ArmsPass, AnswerRead DEF Typed
<1>1. /\ ha'.at = "retarget" => rec'.st = "retargeting"
      /\ ha'.at = "start" => rec'.st = "starting"
      /\ Shape(rec') /\ unsaved \in BOOLEAN
  BY <1>0, HoldsAre DEF HaTyped, Stands
<1>2. ~DispatchTimesOut /\ ~Restart => (Arms(Others)' => Arms(Others))
  BY OthersPass DEF HaStep, Next, Typed
<1>3. ASSUME NEW q, Watches(q) PROVE OnGrid' /\ Alone'
  BY <1>0, <1>3, WatchesAlone DEF AloneInvariant
<1>4. ASSUME NEW q, Watches(q), rec.st \notin Ending, ~DispatchTimesOut, ~Restart
      PROVE  AloneInvariant'
  BY <1>2, <1>3, <1>4 DEF AloneInvariant, Abandoned
<1>5. ASSUME NEW q, rec' = q, q.st \in Resolved PROVE Watches(q)
  BY <1>1, <1>5, ResolvedWatches DEF Resolved, Ending
<1>6. ASSUME NEW q, Leads(q), ~DispatchTimesOut, ~Restart PROVE AloneInvariant'
  <2>1. Watches(q)
    BY <1>5, <1>6 DEF Leads
  <2>2. Abandoned'
    <3>1. SUFFICES ASSUME Arms(Others)' PROVE Bound(rec') /\ Bound(saved') /\ rec'.st \in Ending
      BY DEF Abandoned, Bound, Owned
    <3>2. Bound(q) /\ Bound(saved)
      BY <1>2, <1>6, <3>1 DEF Leads, AloneInvariant, Abandoned
    <3>. QED  BY <1>1, <1>6, <3>2, BoundEnds DEF Leads
  <2>. QED  BY <1>3, <2>1, <2>2 DEF AloneInvariant
<1>7. CASE DispatchTimesOut \/ Restart
  <2>1. rec'.st \in Resolved /\ (Arms(net)' => Bound(rec') /\ Bound(saved'))
    BY <1>0, <1>7, GivenUpAbandoned
  <2>2. OnGrid' /\ Alone'
    BY <1>3, <1>5, <2>1
  <2>3. Arms(Others)' => Arms(net)'
    BY DEF Arms, Others
  <2>4. Abandoned'
    BY <1>1, <2>1, <2>3, BoundEnds DEF Abandoned, Bound, Owned
  <2>. QED  BY <2>2, <2>4 DEF AloneInvariant
<1>8. ASSUME ~DispatchTimesOut, ~Restart,
             \/ Select \/ Start \/ PrepareStart \/ Unblock \/ Rearm \/ StartRejected \/ StartAgain
      PROVE  AloneInvariant'
  <2>1. /\ rec'.st \in Resolved \cup {"selected", "starting"}
        /\ rec'.st = "starting" => rec'.tx.base # OffGrid
    BY <1>0, <1>8, StartingIs DEF AloneInvariant
  <2>2. Watches(rec')
    BY <1>1, <2>1 DEF Watches, Resolved, Ending
  <2>3. rec.st \notin Ending
    <3>1. ha.at = "start" => rec.st = "starting"
      BY <1>0, Positions
    <3>. QED  BY <1>8, <3>1 DEF Select, Start, PrepareStart, Unblock, Rearm, StartRejected, StartAgain,
              CanReconcile, CanGoOn, At, Ending
  <2>. QED  BY <1>4, <1>8, <2>2, <2>3
<1>9. ASSUME ~DispatchTimesOut, ~Restart,
             \/ Observe \/ Verify \/ Sustain \/ Retarget \/ RetargetRejected \/ RetargetAgain
             \/ StartAnswered \/ RetargetAnswered
      PROVE  AloneInvariant'
  <2>1. \E q : Watches(q)
    BY <1>9, ObserveWatches, RetargetWatches, AnswerWatches
  <2>2. rec.st \notin Ending
    <3>1. /\ ha.at = "start" => rec.st = "starting"
          /\ ha.at = "retarget" => rec.st = "retargeting"
      BY <1>0, Positions
    <3>. QED  BY <1>9, <3>1 DEF Observe, Verify, Sustain, Retarget, RetargetRejected, RetargetAgain,
              StartAnswered, RetargetAnswered, CanReconcile, At, Ending
  <2>. QED  BY <1>4, <1>9, <2>1, <2>2
<1>10. ASSUME ~DispatchTimesOut, ~Restart,
              \/ Deadline \/ Stopping \/ RequestMasterStop
              \/ RestoreAnswered \/ RestoreRejected \/ SendRestore
       PROVE  AloneInvariant'
  BY <1>0, <1>6, <1>10, StoppingLeads, EndingLeads
<1>11. ASSUME ~DispatchTimesOut, ~Restart, RetryPersistence PROVE AloneInvariant'
  <2>1. rec' = rec /\ saved' \in {saved, rec} /\ ha'.at = "free"
    <3>1. CommitStop(rec, Free, TRUE)
      BY <1>11 DEF RetryPersistence
    <3>2. Saves(rec, Free)
      BY <1>1, <3>1, SaveSaves
    <3>. QED  BY <3>2 DEF Saves, Free
  <2>2. Watches(rec)
    BY <2>1 DEF Watches, AloneInvariant, OnGrid, Alone, WatchedAlone
  <2>3. Abandoned'
    BY <1>2, <1>11, <2>1 DEF AloneInvariant, Abandoned, Bound, Owned
  <2>. QED  BY <1>3, <2>2, <2>3 DEF AloneInvariant
<1>. QED  BY <1>7, <1>8, <1>9, <1>10, <1>11 DEF HaStep, Dispatching, Reconcile

\* An arm leaves for a reading of its prepared block, which is on the grid.
LEMMA SendAlone ==
    ASSUME Typed, Awaits, Linked, FirmwareOk, AloneInvariant, SendArm
    PROVE  AloneInvariant'
<1>0. /\ HaTyped /\ UNCHANGED <<rec, saved, view, reply, seen, lag, bus>> /\ ha.step = "ready"
      /\ ha.at \in {"start", "retarget"} /\ view = rec.tx.pre.b
      /\ net' = net \cup {Request("arm", arms + 1, rec.tx.b)}
      /\ ha' = [ha EXCEPT !.step = "await"]
  BY DEF Typed, SendArm, Send, StillPrepared, espVars, espOwn
<1>1. /\ ha'.at = ha.at /\ ha'.pred = ha.pred
      /\ ha.at = "start" => rec.st = "starting"
      /\ ha.at = "retarget" => rec.st = "retargeting"
  BY <1>0, Positions DEF HaRecords
<1>2. rec.tx.sent = "no" /\ rec.tx.pre \in Snapshots /\ reply = "none"
  BY <1>0 DEF Linked, Awaits
<1>3. view \in Blocks /\ view # OffGrid
  <2>1. view \in Blocks
    BY <1>0, <1>2 DEF Snapshots
  <2>2. CASE ha.at = "start"
    BY <1>0, <1>1, <2>1, <2>2 DEF Linked, AloneInvariant, OnGrid
  <2>3. CASE ha.at = "retarget"
    BY <1>0, <2>1, <2>3, ExecutorBlocks DEF Linked
  <2>. QED  BY <1>0, <2>1, <2>2, <2>3
<1>4. OnGrid'
  <2>1. seen # None /\ ~lag => seen # OffGrid
    BY <1>3, ExecutorBlocks DEF FirmwareOk
  <2>2. Request("arm", arms + 1, rec.tx.b).cur => seen # None /\ ~lag
    BY DEF Request
  <2>3. Arms(net)' => seen # OffGrid
    BY <1>0, <2>1, <2>2 DEF AloneInvariant, OnGrid, Arms
  <2>. QED  BY <1>0, <2>3 DEF AloneInvariant, OnGrid
<1>5. Abandoned'
  <2>1. Arms(Others)' => Arms(Others)
    BY <1>0 DEF Arms, Others, Request
  <2>. QED  BY <1>0, <2>1 DEF AloneInvariant, Abandoned, Bound, Owned
<1>6. ~ArmTaken /\ ~ArmTaken'
  BY <1>0, <1>2 DEF ArmTaken, Answered
<1>7. Alone'
  <2>1. \A b : Lone(b)' = Lone(b)
    BY <1>0, LoneKept
  <2>. QED  BY <1>0, <1>1, <1>2, <1>6, <2>1 DEF AloneInvariant, Alone, TakenAlone, WatchedAlone, PredAlone
<1>. QED  BY <1>4, <1>5, <1>7 DEF AloneInvariant

LEMMA AloneStep ==
    OwnershipInvariant /\ OwnershipInvariant' /\ AloneInvariant /\ [Next]_vars => AloneInvariant'
<1>. SUFFICES ASSUME OwnershipInvariant, OwnershipInvariant', AloneInvariant, [Next]_vars
              PROVE  AloneInvariant'
  OBVIOUS
<1>1. Typed /\ HaTyped' /\ Awaits /\ FirmwareOk /\ Linked
  BY DEF OwnershipInvariant, Typed
<1>2. CASE HaStep
  BY <1>1, <1>2, HaAlone, SendAlone
<1>3. CASE \/ PollDue \/ WriteApplied \/ WriteLost \/ LeaseTimer \/ OutsideChange
           \/ \E m \in net : EspRestores(m) \/ EspRefuses(m) \/ RequestLost(m)
  BY <1>1, <1>3, QuietAlone
<1>4. CASE Reading \/ EspRestart
  BY <1>1, <1>4, ReadingAlone
<1>5. CASE \E m \in net : EspArms(m)
  BY <1>1, <1>5, EspArmAlone
<1>6. CASE \E lost \in BOOLEAN : ReadingReceived(lost)
  BY <1>1, <1>6, ReceivedAlone
<1>7. CASE UNCHANGED vars
  BY <1>7 DEF vars, haVars, espVars, espOwn, AloneInvariant, OnGrid, Abandoned, Alone, TakenAlone,
     WatchedAlone, PredAlone, ArmTaken, Answered, At, Arms, Others, Bound, Owned, Sole, Lone, LoneBehind
<1>. QED  BY <1>2, <1>3, <1>4, <1>5, <1>6, <1>7 DEF Next, Firmware, HaStep

\* While the supervisor executes, no arm for another block is on its way and no
\* other forced block is queued: an abandoned retarget never overtakes the
\* predecessor that cancel_unsent_same_owner_retarget resumed (ExecutingAlone).
THEOREM ExecutesAlone == Spec => []ExecutingAlone
<1>1. Init => AloneInvariant
  <2>. SUFFICES ASSUME Init PROVE AloneInvariant
    OBVIOUS
  <2>1. /\ bus = <<>> /\ net = {} /\ rec.st = "idle" /\ ha.at = "free" /\ reply = "none"
    BY DEF Init, IdleRecord, Free
  <2>. QED  BY <2>1 DEF AloneInvariant, OnGrid, Abandoned, Alone, TakenAlone, WatchedAlone, PredAlone,
            ArmTaken, Answered, Arms, Others
<1>2. AloneInvariant => ExecutingAlone
  BY DEF AloneInvariant, Alone, WatchedAlone, ExecutingAlone, Lone, Arms
<1>. QED  BY <1>1, <1>2, AloneStep, OwnershipHolds, PTL DEF Spec

-----------------------------------------------------------------------------
(* The promise of OwnedTransaction.                                        *)

\* The invariant behind it: what is at work was allowed to start and has not
\* failed, and neither has what is being dispatched.
AtWork == Working \cup {"selected"}
Permitted(r) ==
    /\ r.st \in AtWork => r.allowed
    /\ r.st = "selected" => r.tx.rb = "pending"
    /\ Owned(r) /\ r.tx.rb = "failed" => r.st = "fault"
Unfailed ==
    /\ ha.at = "restore" => rec.tx.rb = "pending"
    /\ ha.at = "retarget" => ha.pred.rb = "pending"
PermitInvariant == Permitted(rec) /\ Unfailed

\* What a step without MASTER STOP makes of a record: its transaction goes on,
\* or is released.
Ways ==
    {<<"opening", "opening">>, <<"driving", "driving">>, <<"closing", "closing">>,
     <<"failed", "failed">>, <<"opening", "driving">>, <<"opening", "closing">>,
     <<"driving", "closing">>, <<"closing", "failed">>}
Same(r, q) == Owned(q) /\ q.tx.base = r.tx.base /\ <<Stage(r), Stage(q)>> \in Ways
Gone(r, q) == ~Owned(q) /\ Stage(r) \in {"idle", "opening", "closing"}
Moves(r, q) == q.allowed = r.allowed /\ Permitted(q) /\ (Same(r, q) \/ Gone(r, q))

LEMMA StageIs ==
    ASSUME NEW r, r \in Records, Permitted(r)
    PROVE  /\ ~Owned(r) => Stage(r) = "idle"
           /\ Owned(r) /\ r.tx.rb = "failed" => Stage(r) = "failed" /\ r.st = "fault"
           /\ Owned(r) /\ r.st = "starting" => Stage(r) = "opening"
           /\ Owned(r) /\ r.st \in {"waiting", "executing", "retargeting"} => Stage(r) = "driving"
           /\ Owned(r) /\ r.st \notin Working /\ r.tx.rb = "pending" => Stage(r) = "closing"
           /\ Owned(r) => r.tx.rb \in {"pending", "failed"}
<1>1. Owned(r) => r.tx \in Transactions
  BY Fields DEF Owned
<1>2. Owned(r) => r.tx.rb \in {"pending", "failed"}
  BY <1>1, Fields
<1>3. ~Owned(r) => Stage(r) = "idle"
  BY DEF Stage
<1>4. Owned(r) /\ r.tx.rb = "failed" => Stage(r) = "failed" /\ r.st = "fault"
  BY DEF Stage, Permitted
<1>5. Owned(r) /\ r.st \in Working => r.tx.rb = "pending"
  BY <1>2 DEF Permitted, Working
<1>6. Owned(r) /\ r.st = "starting" => Stage(r) = "opening"
  BY <1>5 DEF Stage, Working
<1>7. Owned(r) /\ r.st \in {"waiting", "executing", "retargeting"} => Stage(r) = "driving"
  BY <1>5 DEF Stage, Working
<1>8. Owned(r) /\ r.st \notin Working /\ r.tx.rb = "pending" => Stage(r) = "closing"
  BY DEF Stage, Working
<1>. QED  BY <1>2, <1>3, <1>4, <1>6, <1>7, <1>8

\* What the operations leave of the two fields that decide.
LEMMA PublishedIs ==
    ASSUME NEW r \in Records, NEW t \in Transactions, NEW st \in States,
           NEW q, q = Publish(r, st, t)
    PROVE  /\ q \in Records /\ q.st = st /\ q.allowed = r.allowed /\ q.tx \in Transactions
           /\ q.tx # None /\ q.tx.rb = t.rb /\ q.tx.own = t.own /\ q.tx.base = t.base
<1>1. /\ q \in Records /\ q.st = st /\ q.allowed = r.allowed /\ q.tx \in Transactions
      /\ q.tx = [t EXCEPT !.st = st]
  BY PublishIs
<1>2. q.tx.rb = t.rb /\ q.tx.own = t.own /\ q.tx.base = t.base
  BY <1>1, StateOnly
<1>. QED  BY <1>1, <1>2, NoTransaction

LEMMA RollbackIs ==
    ASSUME NEW t \in Transactions, NEW x \in {"pending", "failed"}, NEW u,
           u = [t EXCEPT !.rb = x]
    PROVE  u \in Transactions /\ u.rb = x /\ u.own = t.own /\ u.base = t.base
<1>1. u \in Transactions
  BY Updates
<1>2. u.rb = x /\ u.own = t.own /\ u.base = t.base
  BY SMT DEF Transactions
<1>. QED  BY <1>1, <1>2

LEMMA FaultIs ==
    ASSUME NEW r \in Records, NEW t \in Transactions, NEW q, q = Fault(r, t)
    PROVE  /\ q \in Records /\ q.st = "fault" /\ q.allowed = r.allowed
           /\ q.tx # None /\ q.tx.rb = "pending" /\ q.tx.own = t.own /\ q.tx.base = t.base
<1>. DEFINE u == [t EXCEPT !.rb = "pending"]
<1>1. u \in Transactions /\ u.rb = "pending" /\ u.own = t.own /\ u.base = t.base
  BY RollbackIs
<1>2. q = Publish(r, "fault", u) /\ "fault" \in States
  BY DEF Fault, States
<1>. HIDE DEF u
<1>. QED  BY <1>1, <1>2, PublishedIs

\* Changing what is said of a MASTER STOP changes nothing else.
LEMMA SaidIs ==
    ASSUME NEW p \in Records, NEW x, NEW q,
           q = [p EXCEPT !.mst = x] \/ q = [p EXCEPT !.held = TRUE, !.mst = x]
                \/ q = [p EXCEPT !.held = TRUE]
    PROVE  q.st = p.st /\ q.tx = p.tx /\ q.allowed = p.allowed
BY DEF Records

\* A record without owner is idle.
LEMMA GoneMoves ==
    ASSUME NEW r, NEW q, q.allowed = r.allowed, ~Owned(q), q.st \notin AtWork,
           Stage(r) \in {"idle", "opening", "closing"}
    PROVE  Moves(r, q)
BY DEF Moves, Gone, Permitted, AtWork

LEMMA FinishedIs ==
    ASSUME NEW r \in Records, NEW q, q = Finished(r)
    PROVE  q.st = "idle" /\ q.tx = None /\ ~Owned(q) /\ q.allowed = r.allowed
BY DEF Finished, Records, Owned

LEMMA BlockedIs ==
    ASSUME NEW r \in Records, r.tx \in Transactions, NEW q, q = Blocked(r)
    PROVE  q.st = "blocked" /\ ~Owned(q) /\ q.allowed = r.allowed
<1>1. r.tx.b \in Blocks /\ "blocked" \in States
  BY Fields DEF States
<1>2. Unowned("blocked", r.tx.b) \in Transactions /\ Unowned("blocked", r.tx.b).own = "none"
  BY <1>1, UnownedIs
<1>. QED  BY <1>1, <1>2, PublishedIs DEF Blocked, Owned

\* An owner whose stop begins, or goes on.
LEMMA ClosingMoves ==
    ASSUME NEW r, Shape(r), Owned(r), Permitted(r), r.tx.rb = "pending",
           NEW q, q.allowed = r.allowed, q.st \in Ending, q.tx # None,
           q.tx.rb = "pending", q.tx.own = r.tx.own, q.tx.base = r.tx.base
    PROVE  Moves(r, q)
<1>1. Owned(q) /\ q.st \notin AtWork /\ Permitted(q)
  BY DEF Owned, Ending, AtWork, Working, Permitted
<1>2. Stage(q) = "closing"
  BY <1>1 DEF Stage, AtWork, Working
<1>3. Stage(r) \in {"opening", "driving", "closing"}
  BY DEF Stage
<1>. QED  BY <1>1, <1>2, <1>3 DEF Moves, Same, Ways

\* An owner that starts, or goes on driving.
LEMMA DrivingMoves ==
    ASSUME NEW r, Shape(r), Permitted(r), r.st \in Working,
           NEW q, q.allowed = r.allowed, q.st \in Working, q.st = "starting" => r.st = "starting",
           q.tx # None, q.tx.rb = "pending", q.tx.own = r.tx.own, q.tx.base = r.tx.base
    PROVE  Moves(r, q)
<1>0. r \in Records /\ Owned(r)
  BY WorkingIs
<1>1. Owned(q) /\ Permitted(q)
  BY <1>0 DEF Owned, AtWork, Permitted
<1>2. Stage(q) = IF q.st = "starting" THEN "opening" ELSE "driving"
  BY <1>1 DEF Stage, Working
<1>3. Stage(r) = IF r.st = "starting" THEN "opening" ELSE "driving"
  BY <1>0, StageIs DEF Working
<1>. QED  BY <1>1, <1>2, <1>3 DEF Moves, Same, Ways

LEMMA WayBack == ASSUME NEW s \in {"opening", "driving", "closing", "failed"} PROVE <<s, s>> \in Ways
BY DEF Ways

LEMMA StaysMoves == ASSUME NEW r, Shape(r), Permitted(r) PROVE Moves(r, r)
<1>1. r \in Records
  BY DEF Shape
<1>2. CASE ~Owned(r)
  BY <1>1, <1>2, StageIs DEF Moves, Gone
<1>3. CASE Owned(r)
  <2>1. Stage(r) \in {"opening", "driving", "closing", "failed"}
    BY <1>3 DEF Stage
  <2>. QED  BY <1>3, <2>1, WayBack DEF Moves, Same
<1>. QED  BY <1>2, <1>3

\* The transaction changes in what the promise does not see.
LEMMA TxMoves ==
    ASSUME NEW r, Shape(r), Owned(r), Permitted(r), NEW t,
           t # None, t.own = r.tx.own, t.base = r.tx.base, t.rb = r.tx.rb,
           NEW q, q.st = r.st, q.tx = t, q.allowed = r.allowed
    PROVE  Moves(r, q)
<1>1. Owned(q) /\ Permitted(q) /\ Stage(q) = Stage(r)
  BY DEF Owned, Permitted, Stage
<1>2. Stage(r) \in {"opening", "driving", "closing", "failed"}
  BY DEF Stage
<1>. QED  BY <1>1, <1>2, WayBack DEF Moves, Same

LEMMA EndsMove ==
    ASSUME NEW r, Shape(r), Owned(r), Permitted(r), r.tx.rb = "pending"
    PROVE  /\ Moves(r, Fault(r, r.tx)) /\ Moves(r, OutcomeUnknown(r))
           /\ Moves(r, Contradicted(r)) /\ Moves(r, StopRequested(r))
           /\ Moves(r, RestoreUnknown(r))
<1>1. r \in Records /\ r.tx \in Transactions
  BY OwnKin
<1>2. ASSUME NEW t \in Transactions, t.own = r.tx.own, t.base = r.tx.base
      PROVE  Moves(r, Fault(r, t))
  <2>. DEFINE q == Fault(r, t)
  <2>1. /\ q.st = "fault" /\ q.allowed = r.allowed /\ q.tx # None /\ q.tx.rb = "pending"
        /\ q.tx.own = r.tx.own /\ q.tx.base = r.tx.base
    BY <1>1, <1>2, FaultIs
  <2>. HIDE DEF q
  <2>2. Moves(r, q)
    BY <2>1, ClosingMoves DEF Ending
  <2>. QED  BY <2>2 DEF q
<1>3. Moves(r, Fault(r, r.tx)) /\ Moves(r, OutcomeUnknown(r))
  BY <1>1, <1>2 DEF OutcomeUnknown
<1>4. Moves(r, Contradicted(r))
  <2>. DEFINE t == [r.tx EXCEPT !.ack = FALSE]
  <2>1. t \in Transactions /\ t.own = r.tx.own /\ t.base = r.tx.base
    <3>1. t \in Transactions
      BY <1>1, Updates
    <3>2. t.own = r.tx.own /\ t.base = r.tx.base
      BY <1>1, SMT DEF Transactions
    <3>. QED  BY <3>1, <3>2
  <2>. HIDE DEF t
  <2>2. Moves(r, Fault(r, t))
    BY <1>2, <2>1
  <2>. QED  BY <2>2 DEF Contradicted, t
<1>5. Moves(r, RestoreUnknown(r))
  <2>1. /\ RestoreDropped(r.tx) \in Transactions /\ RestoreDropped(r.tx).own = r.tx.own
        /\ RestoreDropped(r.tx).base = r.tx.base
    BY <1>1, DroppedIs
  <2>. QED  BY <1>2, <2>1 DEF RestoreUnknown
<1>6. Moves(r, StopRequested(r))
  <2>. DEFINE t == [r.tx EXCEPT !.rb = "pending"]
              q == Publish(r, "stopping", t)
  <2>1. t \in Transactions /\ t.rb = "pending" /\ t.own = r.tx.own /\ t.base = r.tx.base
    BY <1>1, RollbackIs
  <2>2. StopRequested(r) = q /\ "stopping" \in States
    BY DEF StopRequested, States
  <2>. HIDE DEF t
  <2>3. /\ q.st = "stopping" /\ q.allowed = r.allowed /\ q.tx # None /\ q.tx.rb = "pending"
        /\ q.tx.own = r.tx.own /\ q.tx.base = r.tx.base
    BY <1>1, <2>1, <2>2, PublishedIs
  <2>. HIDE DEF q
  <2>4. Moves(r, q)
    BY <2>3, ClosingMoves DEF Ending
  <2>. QED  BY <2>2, <2>4
<1>. QED  BY <1>3, <1>4, <1>5, <1>6

\* What has no owner is dropped; what has one is released while it opens or
\* closes.
LEMMA ReleaseMoves ==
    ASSUME NEW r, Shape(r), Permitted(r), r.tx # None,
           Stage(r) \in {"idle", "opening", "closing"}
    PROVE  /\ Moves(r, Finished(r)) /\ Moves(r, Blocked(r))
           /\ ~Owned(r) => Moves(r, StopRequested(r))
<1>1. r \in Records /\ r.tx \in Transactions
  BY ShapeTx
<1>2. Moves(r, Finished(r))
  <2>1. /\ Finished(r).st = "idle" /\ ~Owned(Finished(r))
        /\ Finished(r).allowed = r.allowed
    BY <1>1, FinishedIs
  <2>. QED  BY <2>1, GoneMoves DEF AtWork, Working
<1>3. Moves(r, Blocked(r))
  <2>1. Blocked(r).st = "blocked" /\ ~Owned(Blocked(r)) /\ Blocked(r).allowed = r.allowed
    BY <1>1, BlockedIs
  <2>. QED  BY <2>1, GoneMoves DEF AtWork, Working
<1>. QED  BY <1>2, <1>3 DEF StopRequested

LEMMA FailMoves ==
    ASSUME NEW r, Shape(r), Owned(r), Permitted(r), r.tx.rb = "pending", r.st \in Ending
    PROVE  Moves(r, RollbackFailed(r)) /\ Moves(r, Hold(r))
<1>0. r \in Records /\ r.tx \in Transactions
  BY OwnKin
<1>1. Moves(r, RollbackFailed(r))
  <2>. DEFINE t == [r.tx EXCEPT !.rb = "failed"]
              p == Publish(r, "fault", t)
              q == [p EXCEPT !.mst = FailedStop(r)]
  <2>1. t \in Transactions /\ t.rb = "failed" /\ t.own = r.tx.own /\ t.base = r.tx.base
    BY <1>0, RollbackIs
  <2>. HIDE DEF t
  <2>2. /\ p \in Records /\ p.st = "fault" /\ p.allowed = r.allowed /\ p.tx # None
        /\ p.tx.rb = "failed" /\ p.tx.own = r.tx.own /\ p.tx.base = r.tx.base
    BY <1>0, <2>1, PublishedIs DEF States
  <2>. HIDE DEF p
  <2>3. q.st = p.st /\ q.tx = p.tx /\ q.allowed = p.allowed
    BY <2>2, SaidIs
  <2>4. RollbackFailed(r) = q
    BY DEF RollbackFailed, q, p, t
  <2>. HIDE DEF q
  <2>5. Owned(q) /\ Permitted(q) /\ Stage(q) = "failed"
    BY <2>2, <2>3 DEF Owned, Permitted, Stage, AtWork, Working
  <2>6. Stage(r) = "closing"
    BY DEF Stage, Ending
  <2>. QED  BY <2>2, <2>3, <2>4, <2>5, <2>6 DEF Moves, Same, Ways
<1>2. Moves(r, Hold(r))
  <2>. DEFINE p == Fault(r, r.tx)
              q == [p EXCEPT !.held = TRUE, !.mst = FailedStop(r)]
  <2>1. /\ p \in Records /\ p.st = "fault" /\ p.allowed = r.allowed /\ p.tx # None
        /\ p.tx.rb = "pending" /\ p.tx.own = r.tx.own /\ p.tx.base = r.tx.base
    BY <1>0, FaultIs
  <2>2. Hold(r) \in {r, q}
    BY DEF Hold
  <2>. HIDE DEF p
  <2>3. q.st = p.st /\ q.tx = p.tx /\ q.allowed = p.allowed
    BY <2>1, SaidIs
  <2>. HIDE DEF q
  <2>4. Moves(r, q)
    BY <2>1, <2>3, ClosingMoves DEF Ending
  <2>. QED  BY <2>2, <2>4, StaysMoves
<1>. QED  BY <1>1, <1>2

LEMMA AtWorkIs ==
    ASSUME NEW r, Shape(r), Permitted(r), r.st \in Working
    PROVE  /\ r \in Records /\ r.tx \in Transactions /\ r.tx # None /\ Owned(r)
           /\ r.tx.own = "auto" /\ r.tx.rb = "pending"
           /\ Stage(r) = IF r.st = "starting" THEN "opening" ELSE "driving"
<1>1. r \in Records /\ r.tx \in Transactions /\ r.tx # None /\ Owned(r) /\ r.tx.own = "auto"
  BY WorkingIs
<1>2. r.tx.rb = "pending"
  BY <1>1, StageIs DEF Working
<1>. QED  BY <1>1, <1>2, StageIs DEF Working

LEMMA PublishMoves ==
    ASSUME NEW r, Shape(r), Permitted(r), r.st \in Working,
           NEW t \in Transactions, t.own = r.tx.own, t.base = r.tx.base, t.rb = "pending",
           NEW st \in Working, st = "starting" => r.st = "starting"
    PROVE  Moves(r, Publish(r, st, t))
<1>. DEFINE q == Publish(r, st, t)
<1>1. r \in Records /\ st \in States
  BY AtWorkIs DEF Working, States
<1>2. /\ q.st = st /\ q.allowed = r.allowed /\ q.tx # None
      /\ q.tx.rb = "pending" /\ q.tx.own = r.tx.own /\ q.tx.base = r.tx.base
  BY <1>1, PublishedIs
<1>. HIDE DEF q
<1>3. Moves(r, q)
  BY <1>2, DrivingMoves
<1>. QED  BY <1>3 DEF q

LEMMA WorkMoves ==
    ASSUME NEW r, Shape(r), Permitted(r), r.st \in Working, NEW v
    PROVE  /\ r.st # "starting" => \A q \in ObservePhysical(r) : Moves(r, q)
           /\ \A q \in Continue(r, v) \cup ObserveReadback(r, v) : Moves(r, q)
<1>1. /\ r \in Records /\ r.tx \in Transactions /\ Owned(r) /\ r.tx.rb = "pending"
      /\ Moves(r, Fault(r, r.tx)) /\ Moves(r, Contradicted(r)) /\ Moves(r, StopRequested(r))
      /\ Moves(r, r)
  BY AtWorkIs, EndsMove, StaysMoves
<1>2. Moves(r, Publish(r, "executing", r.tx))
  BY <1>1, PublishMoves DEF Working
<1>3. Moves(r, [r EXCEPT !.tx.ack = TRUE])
  <2>. DEFINE t == [r.tx EXCEPT !.ack = TRUE]
              q == [r EXCEPT !.tx = t]
  <2>1. t \in Transactions
    BY <1>1, Updates
  <2>2. t.own = r.tx.own /\ t.base = r.tx.base /\ t.rb = r.tx.rb
    BY <1>1, SMT DEF Transactions
  <2>. HIDE DEF t
  <2>3. q.st = r.st /\ q.tx = t /\ q.allowed = r.allowed
    BY <1>1 DEF Records
  <2>. HIDE DEF q
  <2>4. Moves(r, q)
    BY <1>1, <2>1, <2>2, <2>3, NoTransaction, TxMoves
  <2>. QED  BY <2>4 DEF q, t
<1>. QED  BY <1>1, <1>2, <1>3 DEF ObservePhysical, Continue, ObserveReadback

LEMMA RetargetMoves ==
    ASSUME NEW r, Shape(r), Permitted(r), r.st = "executing", NEW v \in Blocks, NEW b \in Forced,
           NEW q \in PrepareRetarget(r, v, b)
    PROVE  Moves(r, q)
<1>. DEFINE s == [r.tx EXCEPT !.b = b, !.pre = Snap(v), !.sent = "no", !.ack = FALSE]
            t == [s EXCEPT !.rb = "pending", !.rcmd = FALSE, !.rsnap = None, !.rsent = "no",
                           !.moved = FALSE, !.att = 0]
<1>1. /\ r \in Records /\ r.tx \in Transactions /\ Owned(r) /\ r.tx.rb = "pending"
      /\ Moves(r, Contradicted(r)) /\ Moves(r, StopRequested(r))
  BY AtWorkIs, EndsMove DEF Working
<1>2. /\ b \in Blocks /\ Snap(v) \in Snapshots \cup {None} /\ None \in Snapshots \cup {None}
      /\ "no" \in Ages \cup {"no"} /\ FALSE \in BOOLEAN /\ 0 \in 0..2
      /\ "pending" \in {"pending", "failed"}
  BY SnapType DEF Blocks
<1>3. s \in Transactions
  BY <1>1, <1>2, Updates, Zenon
<1>4. s.own = r.tx.own /\ s.base = r.tx.base
  BY <1>1, SMT DEF Transactions
<1>a. q \in {StopRequested(r), Contradicted(r), Publish(r, "retargeting", t)}
  BY DEF PrepareRetarget
<1>. HIDE DEF s
<1>5. t \in Transactions
  BY <1>2, <1>3, Updates, Zenon
<1>6. t.own = s.own /\ t.base = s.base /\ t.rb = "pending"
  BY <1>3, SMT DEF Transactions
<1>. HIDE DEF t
<1>7. Moves(r, Publish(r, "retargeting", t))
  BY <1>4, <1>5, <1>6, PublishMoves DEF Working
<1>. QED  BY <1>1, <1>7, <1>a

\* Back to the predecessor, a transaction of the same owner.
LEMMA CancelMoves ==
    ASSUME NEW r, Shape(r), Permitted(r), r.st \in Working \ {"starting"}, NEW v,
           NEW p \in Transactions, p.own = r.tx.own, p.base = r.tx.base, p.rb = "pending",
           NEW q \in CancelRetarget(r, p, v)
    PROVE  Moves(r, q)
<1>1. Owned(r) /\ r.tx.rb = "pending" /\ Moves(r, StopRequested(r))
  BY AtWorkIs, EndsMove
<1>2. Moves(r, Publish(r, "executing", p))
  BY PublishMoves DEF Working
<1>. QED  BY <1>1, <1>2 DEF CancelRetarget

LEMMA MovesTwice ==
    ASSUME NEW r, NEW q, NEW s, Moves(r, q), Moves(q, s), Stage(r) = "driving", Stage(q) = "driving"
    PROVE  Moves(r, s)
<1>1. Same(q, s)
  BY DEF Moves, Gone
<1>2. Owned(q)
  BY DEF Stage
<1>3. Same(r, q)
  BY <1>2 DEF Moves, Gone
<1>. QED  BY <1>1, <1>3 DEF Moves, Same

LEMMA SentMoves ==
    ASSUME NEW r, Shape(r), Permitted(r), r.st \in {"starting", "retargeting"}, NEW lid \in Nat,
           NEW q \in MarkSent(r, lid)
    PROVE  Moves(r, q)
<1>. DEFINE t == [r.tx EXCEPT !.sent = "same", !.lid = lid]
            f == [t EXCEPT !.rb = "pending"]
<1>1. /\ r.st \in Working /\ r \in Records /\ r.tx \in Transactions /\ Owned(r)
      /\ r.tx.rb = "pending"
  BY AtWorkIs DEF Working
<1>2. t \in Transactions
  BY <1>1 DEF Transactions, Ages
<1>3. t.own = r.tx.own /\ t.base = r.tx.base /\ t.rb = "pending"
  BY <1>1, SMT DEF Transactions
<1>a. \/ q = Publish(r, IF r.st = "starting" THEN "waiting" ELSE r.st, t)
      \/ q = Fault(r, t)
  BY DEF MarkSent
<1>. HIDE DEF t
<1>4. CASE q = Publish(r, IF r.st = "starting" THEN "waiting" ELSE r.st, t)
  BY <1>1, <1>2, <1>3, <1>4, PublishMoves DEF Working
<1>5. CASE q = Fault(r, t)
  <2>1. /\ q.st = "fault" /\ q.allowed = r.allowed /\ q.tx # None /\ q.tx.rb = "pending"
        /\ q.tx.own = r.tx.own /\ q.tx.base = r.tx.base
    BY <1>1, <1>2, <1>3, <1>5, FaultIs
  <2>. QED  BY <1>1, <2>1, ClosingMoves DEF Ending
<1>. QED  BY <1>4, <1>5, <1>a

\* The snapshot of the base that a start is prepared on.
LEMMA PrepareMoves ==
    ASSUME NEW r, Shape(r), Permitted(r), r.st = "starting", NEW v \in Blocks,
           NEW q \in {Prepared(r, v), Deferred(r), Blocked(r)}
    PROVE  Moves(r, q)
<1>1. /\ r \in Records /\ r.tx \in Transactions /\ r.tx # None /\ Owned(r)
      /\ Stage(r) = "opening"
  BY AtWorkIs DEF Working
<1>2. ASSUME NEW x \in Snapshots \cup {None}, q = [r EXCEPT !.tx = [r.tx EXCEPT !.pre = x]]
      PROVE  Moves(r, q)
  <2>. DEFINE t == [r.tx EXCEPT !.pre = x]
  <2>1. t \in Transactions
    BY <1>1, Updates
  <2>2. t.own = r.tx.own /\ t.base = r.tx.base /\ t.rb = r.tx.rb
    BY <1>1, SMT DEF Transactions
  <2>a. q = [r EXCEPT !.tx = t]
    BY <1>2
  <2>. HIDE DEF t
  <2>3. q.st = r.st /\ q.tx = t /\ q.allowed = r.allowed
    BY <1>1, <2>a DEF Records
  <2>. QED  BY <1>1, <2>1, <2>2, <2>3, NoTransaction, TxMoves
<1>3. CASE q = Prepared(r, v)
  BY <1>2, <1>3, SnapType DEF Prepared
<1>4. CASE q = Deferred(r)
  BY <1>2, <1>4 DEF Deferred
<1>5. CASE q = Blocked(r)
  BY <1>1, <1>5, ReleaseMoves
<1>. QED  BY <1>3, <1>4, <1>5

-----------------------------------------------------------------------------
(* ... and of a stop.                                                      *)

\* An owner whose restore has not failed for good.
Closing(r) == Shape(r) /\ Owned(r) /\ Permitted(r) /\ r.tx.rb = "pending" /\ r.st \in Ending

LEMMA ClosingIs ==
    ASSUME NEW r, Closing(r)
    PROVE  /\ r \in Records /\ r.tx \in Transactions /\ r.tx # None /\ Stage(r) = "closing"
           /\ Moves(r, r)
<1>1. r \in Records /\ r.tx \in Transactions /\ r.tx # None
  BY OwnKin DEF Closing
<1>2. Stage(r) = "closing"
  BY DEF Closing, Stage, Ending
<1>. QED  BY <1>1, <1>2, StaysMoves DEF Closing

LEMMA RestoreMoves ==
    ASSUME NEW r, Closing(r), r.st \in Resting, NEW v \in Blocks, NEW verdict, verdict = Verdict(r.tx, v),
           NEW q, q = RestoreOn(r, v, verdict)
    PROVE  /\ Moves(r, q)
           /\ verdict # "done" => Owned(q)
           /\ verdict = "write" => q.tx.rb = "pending"
<1>0. /\ r \in Records /\ r.tx \in Transactions /\ r.tx # None /\ Stage(r) = "closing"
      /\ Moves(r, r) /\ Owned(r) /\ r.tx.rb = "pending" /\ Shape(r) /\ Permitted(r)
  BY ClosingIs DEF Closing
<1>1. Snap(v) \in Snapshots
  BY SnapType
<1>2. CASE verdict = "wait"
  BY <1>0, <1>2 DEF RestoreOn
<1>3. CASE verdict = "barrier"
  <2>. DEFINE t == [r.tx EXCEPT !.rsnap = Snap(v)]
  <2>1. t \in Transactions
    BY <1>0, <1>1, Updates
  <2>2. t.own = r.tx.own /\ t.base = r.tx.base /\ t.rb = r.tx.rb
    BY <1>0, SMT DEF Transactions
  <2>a. q = [r EXCEPT !.tx = t]
    BY <1>3 DEF RestoreOn
  <2>. HIDE DEF t
  <2>3. q.st = r.st /\ q.tx = t /\ q.allowed = r.allowed
    BY <1>0, <2>a DEF Records
  <2>. QED  BY <1>0, <1>3, <2>1, <2>2, <2>3, NoTransaction, TxMoves DEF Owned
<1>4. CASE verdict = "done"
  BY <1>0, <1>4, ReleaseMoves DEF RestoreOn
<1>5. CASE verdict \in {"failed", "hold"}
  <2>1. Moves(r, RollbackFailed(r)) /\ Moves(r, Hold(r))
    BY FailMoves DEF Closing
  <2>2. Owned(RollbackFailed(r)) /\ Owned(Hold(r))
    BY <1>0, EndsHeir DEF Heir, Kin, Owned
  <2>. QED  BY <1>5, <2>1, <2>2 DEF RestoreOn
<1>6. CASE verdict = "write"
  <2>. DEFINE n == r.tx.att + (IF PreparedUnsent(r.tx) THEN 0 ELSE 1)
              t == [r.tx EXCEPT !.rcmd = TRUE, !.rsnap = Snap(v), !.moved = FALSE,
                      !.rb = "pending", !.rsent = "no", !.att = n]
              m == IF r.tx.master THEN "running" ELSE r.mst
  <2>1. t.own = r.tx.own /\ t.base = r.tx.base /\ t.rb = "pending"
    BY <1>0, SMT DEF Transactions
  <2>2. Heir(r, q) /\ q.tx \in Transactions
    <3>1. Heir(r, q)
      BY <1>0, <1>6, RestoreHeir
    <3>. QED  BY <3>1 DEF Heir, Kin
  <2>3. q = [r EXCEPT !.tx = t, !.held = FALSE, !.mst = m]
    BY <1>6 DEF RestoreOn, RestorePrepared
  <2>. HIDE DEF t, m
  <2>4. q.st = r.st /\ q.tx = t /\ q.allowed = r.allowed
    BY <1>0, <2>3 DEF Records
  <2>5. Owned(q)
    BY <1>0, <2>1, <2>2, <2>4, NoTransaction DEF Owned
  <2>6. Moves(r, q)
    BY <1>0, <2>1, <2>4, <2>5, TxMoves DEF Owned
  <2>. QED  BY <1>6, <2>1, <2>4, <2>5, <2>6
<1>7. verdict \in {"wait", "barrier", "done", "failed", "hold", "write"}
  BY DEF Verdict
<1>. QED  BY <1>2, <1>3, <1>4, <1>5, <1>6, <1>7

\* The transaction of an owner whose stop goes on.
LEMMA OnwardMoves ==
    ASSUME NEW r, Closing(r), NEW t \in Transactions, t.own = r.tx.own, t.base = r.tx.base,
           t.rb = "pending", NEW st \in Ending, NEW q, q = Publish(r, st, t)
    PROVE  Moves(r, q)
<1>1. st \in States
  BY DEF Ending, States
<1>2. /\ q.st = st /\ q.allowed = r.allowed /\ q.tx # None /\ q.tx.rb = "pending"
      /\ q.tx.own = r.tx.own /\ q.tx.base = r.tx.base
  BY <1>1, ClosingIs, PublishedIs
<1>. QED  BY <1>2, ClosingMoves DEF Closing

LEMMA NotQueuedMoves ==
    ASSUME NEW r, Closing(r), PreparedUnsent(r.tx), r.tx.refused < 2, NEW q \in RestoreNotQueued(r)
    PROVE  Moves(r, q)
<1>. DEFINE d == RestoreDropped(r.tx)
            n == IF d.att = 0 THEN 0 ELSE d.att - 1
            k == d.refused + 1
            t == [d EXCEPT !.rb = "pending", !.att = n, !.refused = k]
            f == Fault(r, t)
            h == [f EXCEPT !.held = TRUE]
<1>0. r \in Records /\ r.tx \in Transactions
  BY ClosingIs
<1>1. /\ d \in Transactions /\ d.own = r.tx.own /\ d.base = r.tx.base
      /\ d.att = r.tx.att /\ d.refused = r.tx.refused
  BY <1>0, DroppedIs
<1>a. q = h \/ q = Publish(r, "stopping", t)
  BY DEF RestoreNotQueued
<1>. HIDE DEF d
<1>2. n \in 0..2 /\ k \in 0..2
  BY <1>0, <1>1, Fields
<1>. HIDE DEF n, k
<1>3. t \in Transactions
  BY <1>1, <1>2, Zenon DEF Transactions
<1>4. t.own = d.own /\ t.base = d.base /\ t.rb = "pending"
  BY <1>1, SMT DEF Transactions
<1>. HIDE DEF t
<1>5. Moves(r, Publish(r, "stopping", t))
  BY <1>1, <1>3, <1>4, OnwardMoves DEF Ending
<1>6. Moves(r, h)
  <2>1. /\ f \in Records /\ f.st = "fault" /\ f.allowed = r.allowed /\ f.tx # None
        /\ f.tx.rb = "pending" /\ f.tx.own = r.tx.own /\ f.tx.base = r.tx.base
    BY <1>0, <1>1, <1>3, <1>4, FaultIs
  <2>. HIDE DEF f
  <2>2. h.st = f.st /\ h.tx = f.tx /\ h.allowed = f.allowed
    BY <2>1, SaidIs
  <2>. HIDE DEF h
  <2>. QED  BY <2>1, <2>2, ClosingMoves DEF Ending, Closing
<1>. QED  BY <1>5, <1>6, <1>a

LEMMA RestoreSentMoves ==
    ASSUME NEW r, Closing(r), NEW q, q = MarkRestoreSent(r)
    PROVE  Moves(r, q)
<1>. DEFINE t == [r.tx EXCEPT !.rsent = "same"]
<1>0. r.tx \in Transactions /\ r.tx.rb = "pending"
  BY ClosingIs DEF Closing
<1>1. t \in Transactions
  BY <1>0, Updates DEF Ages
<1>2. t.own = r.tx.own /\ t.base = r.tx.base /\ t.rb = "pending"
  BY <1>0, SMT DEF Transactions
<1>3. q = Publish(r, "restoring", t)
  BY DEF MarkRestoreSent
<1>. HIDE DEF t
<1>. QED  BY <1>1, <1>2, <1>3, OnwardMoves DEF Ending

LEMMA ReadbackMoves ==
    ASSUME NEW r, Closing(r), NEW v \in Blocks, NEW q, q = ObserveRestore(r, v)
    PROVE  Moves(r, q)
<1>0. /\ r \in Records /\ r.tx \in Transactions /\ r.tx # None /\ Moves(r, r) /\ Owned(r)
      /\ Moves(r, RollbackFailed(r)) /\ Moves(r, Finished(r)) /\ r.tx.rb = "pending"
  BY ClosingIs, FailMoves, ReleaseMoves DEF Closing
<1>1. Snap(v) \in Snapshots \cup {None}
  BY SnapType
<1>2. CASE q = [r EXCEPT !.tx = [r.tx EXCEPT !.rsnap = Snap(v), !.moved = TRUE]]
  <2>. DEFINE t == [r.tx EXCEPT !.rsnap = Snap(v), !.moved = TRUE]
  <2>1. t \in Transactions
    BY <1>0, <1>1 DEF Transactions
  <2>2. t.own = r.tx.own /\ t.base = r.tx.base /\ t.rb = r.tx.rb
    BY <1>0, SMT DEF Transactions
  <2>a. q = [r EXCEPT !.tx = t]
    BY <1>2
  <2>. HIDE DEF t
  <2>3. q.st = r.st /\ q.tx = t /\ q.allowed = r.allowed
    BY <1>0, <2>a DEF Records
  <2>. QED  BY <1>0, <2>1, <2>2, <2>3, NoTransaction, TxMoves DEF Closing
<1>3. CASE q = Publish(r, "stopping", [RestoreDropped(r.tx) EXCEPT !.rsnap = Snap(v)])
  <2>. DEFINE d == RestoreDropped(r.tx)
              t == [d EXCEPT !.rsnap = Snap(v)]
  <2>1. d \in Transactions /\ d.own = r.tx.own /\ d.base = r.tx.base /\ d.rb = "pending"
    BY <1>0, DroppedIs
  <2>. HIDE DEF d
  <2>2. t \in Transactions
    BY <1>1, <2>1, Updates
  <2>3. t.own = d.own /\ t.base = d.base /\ t.rb = d.rb
    BY <2>1, SMT DEF Transactions
  <2>4. q = Publish(r, "stopping", t)
    BY <1>3 DEF t, d
  <2>. HIDE DEF t
  <2>. QED  BY <2>1, <2>2, <2>3, <2>4, OnwardMoves DEF Ending
<1>. QED  BY <1>0, <1>2, <1>3 DEF ObserveRestore

-----------------------------------------------------------------------------
(* Steps of Home Assistant.                                                *)

\* A step that saves what a record moves to, where it may stand.
Steps(q) ==
    /\ rec' = q /\ saved' \in {saved, q} /\ Moves(rec, q)
    /\ ha'.at = "restore" => q.tx.rb = "pending"
    /\ ha'.at = "retarget" => ha'.pred.rb = "pending"

LEMMA SavesSteps ==
    ASSUME NEW q, NEW next, Saves(q, next), Moves(rec, q), next.at \notin {"restore", "retarget"}
    PROVE  Steps(q)
<1>1. ha'.at \notin {"restore", "retarget"}
  BY ReadyNext DEF Saves
<1>2. saved' \in {saved, q}
  BY DEF Saves
<1>. QED  BY <1>1, <1>2 DEF Saves, Steps

LEMMA CommitSteps ==
    ASSUME HaTyped, NEW q, Moves(rec, q),
           \/ Commit(q, Free) \/ Save(q, Free, TRUE) \/ Save(q, Free, FALSE)
           \/ CommitStop(q, Free, TRUE)
    PROVE  Steps(q)
<1>1. unsaved \in BOOLEAN
  BY HoldsAre
<1>2. ASSUME Commit(q, Free) PROVE Saves(q, Free)
  BY <1>1, <1>2, CommitSaves
<1>3. ASSUME Save(q, Free, TRUE) \/ CommitStop(q, Free, TRUE) PROVE Saves(q, Free)
  <2>1. TRUE \in BOOLEAN
    OBVIOUS
  <2>. QED  BY <1>1, <1>3, <2>1, SaveSaves, Zenon
<1>4. ASSUME Save(q, Free, FALSE) PROVE Saves(q, Free)
  <2>1. FALSE \in BOOLEAN
    OBVIOUS
  <2>. QED  BY <1>1, <1>4, <2>1, SaveSaves, Zenon
<1>5. Saves(q, Free)
  BY <1>2, <1>3, <1>4
<1>. QED  BY <1>5, ReadyNext, SavesSteps

\* The steps of a reconciliation at work, but a new owner's and a retarget.
LEMMA ReconcileSteps ==
    ASSUME HaTyped, PermitInvariant,
           \/ PrepareStart \/ Unblock \/ Deadline \/ Observe \/ Verify \/ Sustain
    PROVE  \E q : Steps(q)
<1>0. /\ Shape(rec) /\ rec \in Records /\ unsaved \in BOOLEAN /\ Permitted(rec)
      /\ view # None => view \in Blocks
  BY HoldsAre DEF PermitInvariant
<1>1. CASE PrepareStart
  <2>1. PICK q \in PrepareCommand(rec, view) :
                Commit(q, IF q.st = "starting" THEN Ready("start") ELSE Free)
    BY <1>1 DEF PrepareStart
  <2>2. rec.st = "starting" /\ view \in Blocks
    BY <1>0, <1>1 DEF PrepareStart, CanGoOn
  <2>3. Moves(rec, q)
    BY <1>0, <2>1, <2>2, PrepareMoves DEF PrepareCommand
  <2>4. \E next \in {Free, Ready("start")} : Saves(q, next)
    BY <1>0, <2>1, CommitSaves
  <2>. QED  BY <2>3, <2>4, ReadyNext, SavesSteps
<1>2. CASE Unblock
  <2>1. rec.st = "blocked" /\ rec.tx # None /\ Commit(Finished(rec), Free)
    BY <1>2 DEF Unblock, CanReconcile
  <2>2. ~Owned(rec)
    BY <1>0, <2>1 DEF Shape, WellFormed, Owned
  <2>3. Moves(rec, Finished(rec))
    BY <1>0, <2>1, <2>2, StageIs, ReleaseMoves
  <2>. QED  BY <2>1, <2>3, CommitSteps
<1>3. CASE Deadline
  <2>. DEFINE q == CASE rec.st = "restoring" -> RollbackFailed(rec)
                [] rec.st \in {"starting", "waiting", "retargeting"} -> Fault(rec, rec.tx)
                [] OTHER -> StopRequested(rec)
  <2>1. rec.tx # None /\ rec.st \notin {"idle", "stopping", "fault"} /\ Commit(q, Free)
    BY <1>3 DEF Deadline, CanReconcile
  <2>2. Owned(rec) => rec.tx.rb = "pending"
    BY <1>0, <2>1, StageIs
  <2>3. Moves(rec, q)
    <3>1. CASE rec.st = "restoring"
      <4>1. Owned(rec)
        BY <1>0, <2>1, <3>1 DEF Shape, WellFormed, Owned
      <4>. QED  BY <1>0, <2>2, <3>1, <4>1, FailMoves DEF Ending
    <3>2. CASE rec.st \in {"starting", "waiting", "retargeting"}
      <4>1. Owned(rec)
        BY <1>0, <3>2, AtWorkIs DEF Working
      <4>. QED  BY <1>0, <2>2, <3>2, <4>1, EndsMove
    <3>3. CASE rec.st \notin {"restoring", "starting", "waiting", "retargeting"}
      <4>1. CASE Owned(rec)
        BY <1>0, <2>2, <3>3, <4>1, EndsMove
      <4>2. CASE ~Owned(rec)
        BY <1>0, <2>1, <3>3, <4>2, StageIs, ReleaseMoves
      <4>. QED  BY <4>1, <4>2
    <3>. QED  BY <3>1, <3>2, <3>3
  <2>. HIDE DEF q
  <2>. QED  BY <2>1, <2>3, CommitSteps
<1>4. CASE Observe \/ Verify \/ Sustain
  <2>1. rec.st \in Working \ {"starting"}
    BY <1>4 DEF Observe, Verify, Sustain, CanReconcile, Working
  <2>2. PICK q \in ObserveReadback(rec, view) \cup ObservePhysical(rec) \cup Continue(rec, view)
                   \cup {StopRequested(rec)} : Commit(q, Free)
    BY <1>4 DEF Observe, Verify, Sustain
  <2>3. Moves(rec, q)
    BY <1>0, <2>1, <2>2, WorkMoves, AtWorkIs, EndsMove
  <2>. QED  BY <2>2, <2>3, CommitSteps
<1>. QED  BY <1>1, <1>2, <1>3, <1>4

\* Nothing of the record changes, and the coroutine stays where it is or gives up.
LEMMA StandsStill ==
    ASSUME HaTyped, PermitInvariant, rec' = rec, saved' = saved,
           ha' \in {Free, [ha EXCEPT !.step = "stale"]}
    PROVE  Steps(rec)
<1>1. Shape(rec) /\ Permitted(rec) /\ ha \in HaRecords
  BY HoldsAre, Positions DEF PermitInvariant
<1>2. ha'.at \in {"restore", "retarget"} => ha'.at = ha.at /\ ha'.pred = ha.pred
  BY <1>1, ReadyNext DEF HaRecords
<1>. QED  BY <1>1, <1>2, StaysMoves DEF Steps, PermitInvariant, Unfailed

\* The predecessor of a retarget is a transaction of the same owner.
Precedes(p, r) ==
    p \in Transactions /\ p.own = "auto" /\ p.base = r.tx.base /\ p.rb = "pending"

LEMMA PredIs ==
    ASSUME HaTyped, Linked, PermitInvariant, ha.at = "retarget"
    PROVE  rec.st = "retargeting" /\ Precedes(ha.pred, rec) /\ WellFormed("executing", ha.pred)
<1>1. /\ rec.st = "retargeting" /\ ha.pred \in Transactions /\ WellFormed("executing", ha.pred)
  BY Positions
<1>2. ha.pred.own = "auto"
  BY <1>1 DEF WellFormed, Working
<1>. QED  BY <1>1, <1>2 DEF Precedes, Linked, PermitInvariant, Unfailed

LEMMA RevertMoves ==
    ASSUME NEW r, Shape(r), Permitted(r), r.st \in Working \ {"starting"}, NEW v,
           NEW p, Precedes(p, r), NEW q \in CancelRetarget(r, p, v)
    PROVE  Moves(r, q)
BY AtWorkIs, CancelMoves DEF Precedes

LEMMA DrivenOn ==
    ASSUME NEW r, Shape(r), Permitted(r), r.st \in Working \ {"starting"},
           NEW q, Shape(q), Moves(r, q), q.st \in Working \ {"starting"}, NEW s, Moves(q, s)
    PROVE  Moves(r, s)
<1>1. Permitted(q)
  BY DEF Moves
<1>. QED  BY <1>1, AtWorkIs, MovesTwice

LEMMA CommitRetargetSteps ==
    ASSUME HaTyped, PermitInvariant, rec.st \in Working \ {"starting"},
           NEW r, Shape(r), Moves(rec, r), NEW p, Precedes(p, rec),
           NEW next, next.at = "retarget", next.pred = p, CommitRetarget(r, p, next)
    PROVE  \E q : Steps(q)
<1>0. Shape(rec) /\ Permitted(rec) /\ Permitted(r)
  BY HoldsAre DEF PermitInvariant, Moves
<1>1. CASE r.st # "retargeting"
  BY <1>1, CommitSteps DEF CommitRetarget
<1>2. CASE rec' = r /\ saved' = r /\ ha' = next
  BY <1>2 DEF Steps, Precedes
<1>3. CASE r.st = "retargeting" /\ \E q \in CancelRetarget(r, p, view) :
               rec' = q /\ saved' \in {saved, q} /\ ha' = Free
  <2>1. PICK q \in CancelRetarget(r, p, view) :
               rec' = q /\ saved' \in {saved, q} /\ ha' = Free
    BY <1>3
  <2>2. Owned(r) /\ r.st \in Working \ {"starting"}
    BY <1>0, <1>3, AtWorkIs DEF Working
  <2>3. Precedes(p, r)
    BY <2>2 DEF Precedes, Moves, Same, Gone
  <2>4. Moves(rec, q)
    BY <1>0, <2>1, <2>2, <2>3, RevertMoves, DrivenOn
  <2>. QED  BY <2>1, <2>4, ReadyNext DEF Steps
<1>. QED  BY <1>1, <1>2, <1>3 DEF CommitRetarget

LEMMA RetargetSteps ==
    ASSUME HaTyped, Linked, PermitInvariant, Retarget \/ RetargetAgain
    PROVE  \E q : Steps(q)
<1>0. /\ Shape(rec) /\ Permitted(rec) /\ rec \in Records /\ ha \in HaRecords
      /\ view # None => view \in Blocks
  BY HoldsAre, Positions DEF PermitInvariant
<1>1. CASE Retarget
  <2>1. rec.st = "executing" /\ view \in Blocks
    BY <1>0, <1>1 DEF Retarget, CanReconcile
  <2>. DEFINE next == [Ready("retarget") EXCEPT !.pred = rec.tx]
  <2>2. PICK b \in Forced \ {rec.tx.b} : \E r \in PrepareRetarget(rec, view, b) :
            CommitRetarget(r, rec.tx, next)
    BY <1>1 DEF Retarget
  <2>3. PICK r \in PrepareRetarget(rec, view, b) : CommitRetarget(r, rec.tx, next)
    BY <2>2
  <2>4. next.at = "retarget" /\ next.pred = rec.tx
    BY DEF Ready, Free
  <2>5. Precedes(rec.tx, rec)
    BY <1>0, <2>1, AtWorkIs DEF Precedes, Working
  <2>6. Moves(rec, r) /\ Shape(r)
    BY <1>0, <2>1, <2>3, RetargetMoves, Retargets DEF Follows
  <2>. HIDE DEF next
  <2>. QED  BY <2>1, <2>3, <2>4, <2>5, <2>6, CommitRetargetSteps DEF Working
<1>2. CASE RetargetAgain
  <2>. DEFINE again == [ha EXCEPT !.step = "ready", !.try = 2]
  <2>1. ha.at = "retarget"
    BY <1>2 DEF RetargetAgain, At
  <2>2. /\ rec.st = "retargeting" /\ rec.st \in Working \ {"starting"}
        /\ Precedes(ha.pred, rec) /\ WellFormed("executing", ha.pred) /\ ha.pred \in Transactions
    BY <2>1, PredIs DEF Precedes, Working
  <2>3. \A q \in CancelRetarget(rec, ha.pred, view) : Moves(rec, q) /\ Shape(q)
    BY <1>0, <2>2, RevertMoves, Cancels DEF Follows
  <2>4. CASE \E r \in CancelRetarget(rec, ha.pred, view) : Commit(r, Free)
    BY <2>3, <2>4, CommitSteps
  <2>5. CASE \E r \in Successors : CommitRetarget(r, ha.pred, again)
    <3>1. PICK r \in Successors : CommitRetarget(r, ha.pred, again)
      BY <2>5
    <3>2. PICK q \in CancelRetarget(rec, ha.pred, view), b \in Forced :
             r \in IF q.st = "executing" THEN PrepareRetarget(q, view, b) ELSE {q}
      BY <3>1 DEF Successors
    <3>3. Moves(rec, q) /\ Shape(q)
      BY <2>3, <3>2
    <3>4. Moves(rec, r) /\ Shape(r)
      <4>1. CASE q.st # "executing"
        BY <3>2, <3>3, <4>1
      <4>2. CASE q.st = "executing"
        <5>1. StopRequested(rec).st # "executing"
          BY <1>0, EndStates
        <5>2. view \in Blocks /\ r \in PrepareRetarget(q, view, b)
          BY <2>2, <3>2, <4>2, <5>1, Fields DEF CancelRetarget
        <5>3. Moves(q, r) /\ Shape(r)
          BY <3>3, <4>2, <5>2, RetargetMoves, Retargets DEF Follows, Moves
        <5>. QED  BY <1>0, <2>2, <3>3, <4>2, <5>3, DrivenOn DEF Working
      <4>. QED  BY <4>1, <4>2
    <3>5. again.at = "retarget" /\ again.pred = ha.pred
      BY <1>0, <2>1 DEF HaRecords
    <3>. HIDE DEF again
    <3>. QED  BY <2>2, <3>1, <3>4, <3>5, CommitRetargetSteps
  <2>. QED  BY <1>2, <2>4, <2>5 DEF RetargetAgain
<1>. QED  BY <1>1, <1>2

\* The ends of a start, of a retarget and of a restore.
LEMMA EndMoves ==
    ASSUME HaTyped, Linked, PermitInvariant, ha.at \in {"start", "retarget"}, NEW q \in Ends,
           q = Blocked(rec) \/ q = Deferred(rec) => ha.at = "start"
    PROVE  Moves(rec, q)
<1>0. /\ Shape(rec) /\ Permitted(rec) /\ rec.st \in {"starting", "retargeting"} /\ arms \in Nat
      /\ ha.at = "start" => rec.st = "starting"
  BY HoldsAre, Positions DEF PermitInvariant
<1>1. Owned(rec) /\ rec.tx.rb = "pending"
  BY <1>0, AtWorkIs DEF Working
<1>2. CASE q = Blocked(rec) \/ q = Deferred(rec)
  <2>1. \E v \in Blocks : TRUE
    BY ExecutorBlocks DEF Blocks
  <2>. QED  BY <1>0, <1>2, <2>1, PrepareMoves
<1>3. CASE q = OutcomeUnknown(rec)
  BY <1>0, <1>1, <1>3, EndsMove
<1>4. CASE q \in MarkSent(rec, arms)
  BY <1>0, <1>4, SentMoves
<1>5. CASE ha.at = "retarget" /\ q \in CancelRetarget(rec, ha.pred, view)
  BY <1>0, <1>5, PredIs, RevertMoves DEF Working
<1>. QED  BY <1>2, <1>3, <1>4, <1>5 DEF Ends

LEMMA DispatchSteps ==
    ASSUME HaTyped, Linked, PermitInvariant,
           \/ StartRejected \/ RetargetRejected \/ StartAnswered \/ RetargetAnswered
           \/ DispatchTimesOut /\ ha.at # "restore"
    PROVE  \E q : Steps(q)
<1>1. CASE StartRejected
  <2>1. PICK q \in {Blocked(rec), Deferred(rec)} : Commit(q, Free)
    BY <1>1 DEF StartRejected
  <2>2. ha.at = "start" /\ q \in Ends
    BY <1>1, <2>1 DEF StartRejected, At, Ends
  <2>. QED  BY <2>1, <2>2, EndMoves, CommitSteps
<1>2. CASE RetargetRejected
  <2>1. PICK q \in CancelRetarget(rec, ha.pred, view) : Commit(q, Free)
    BY <1>2 DEF RetargetRejected
  <2>2. ha.at = "retarget"
    BY <1>2 DEF RetargetRejected, At
  <2>3. Moves(rec, q)
    BY <2>1, <2>2, PredIs, RevertMoves, HoldsAre DEF PermitInvariant, Working
  <2>. QED  BY <2>1, <2>3, CommitSteps
<1>3. CASE StartAnswered
  <2>1. ha.at = "start"
    BY <1>3 DEF StartAnswered, At
  <2>2. CASE \E q \in {Blocked(rec), OutcomeUnknown(rec)} \cup MarkSent(rec, arms) : Commit(q, Free)
    <3>1. PICK q \in {Blocked(rec), OutcomeUnknown(rec)} \cup MarkSent(rec, arms) : Commit(q, Free)
      BY <2>2
    <3>. QED  BY <2>1, <3>1, EndMoves, CommitSteps DEF Ends
  <2>3. CASE ha' = [ha EXCEPT !.step = "stale"] /\ UNCHANGED <<rec, saved>>
    BY <2>3, StandsStill
  <2>. QED  BY <1>3, <2>2, <2>3 DEF StartAnswered
<1>4. CASE RetargetAnswered
  <2>1. ha.at = "retarget"
    BY <1>4 DEF RetargetAnswered, At
  <2>2. /\ Shape(rec) /\ Permitted(rec) /\ arms \in Nat /\ rec.st = "retargeting"
        /\ Precedes(ha.pred, rec)
    BY <2>1, HoldsAre, PredIs DEF PermitInvariant
  <2>3. CASE \E q \in MarkSent(rec, arms) \cup {OutcomeUnknown(rec)} : Commit(q, Free)
    <3>1. PICK q \in MarkSent(rec, arms) \cup {OutcomeUnknown(rec)} : Commit(q, Free)
      BY <2>3
    <3>2. Moves(rec, q)
      BY <2>2, <3>1, SentMoves, EndsMove, AtWorkIs DEF Working
    <3>. QED  BY <3>1, <3>2, CommitSteps
  <2>4. CASE \E q \in CancelRetarget(rec, ha.pred, view) : Commit(q, Free)
    <3>1. PICK q \in CancelRetarget(rec, ha.pred, view) : Commit(q, Free)
      BY <2>4
    <3>2. Moves(rec, q)
      BY <2>2, <3>1, RevertMoves DEF Working
    <3>. QED  BY <3>1, <3>2, CommitSteps
  <2>5. CASE Commit(OutcomeUnknown(rec), Free)
    BY <2>3, <2>5
  <2>6. CASE ha' = [ha EXCEPT !.step = "stale"] /\ UNCHANGED <<rec, saved>>
    BY <2>6, StandsStill
  <2>. QED  BY <1>4, <2>3, <2>4, <2>5, <2>6 DEF RetargetAnswered
<1>5. CASE DispatchTimesOut /\ ha.at # "restore"
  <2>1. ha.at \in {"start", "retarget"}
    BY <1>5, Positions DEF DispatchTimesOut
  <2>2. Save(OutcomeUnknown(rec), Free, TRUE)
    BY <1>5 DEF DispatchTimesOut, GivenUp
  <2>3. Moves(rec, OutcomeUnknown(rec))
    <3>1. rec.st \in Working /\ Shape(rec) /\ Permitted(rec)
      BY <2>1, Positions, HoldsAre DEF Working, PermitInvariant
    <3>. QED  BY <3>1, AtWorkIs, EndsMove
  <2>. QED  BY <2>2, <2>3, CommitSteps
<1>. QED  BY <1>1, <1>2, <1>3, <1>4, <1>5

LEMMA StartAgainSteps ==
    ASSUME HaTyped, PermitInvariant, StartAgain
    PROVE  \E q : Steps(q)
<1>. DEFINE again == [ha EXCEPT !.step = "ready", !.try = 2]
<1>0. /\ Shape(rec) /\ Permitted(rec) /\ ha \in HaRecords /\ rec.st = "starting"
      /\ ha.at = "start" /\ unsaved \in BOOLEAN /\ rec.tx.base \in Blocks
  <2>1. rec.st = "starting"
    BY Positions DEF StartAgain, At
  <2>2. rec.tx \in Transactions
    BY <2>1, HoldsAre, WorkingIs DEF Working
  <2>. QED  BY <2>1, <2>2, HoldsAre, Positions, Fields DEF StartAgain, At, PermitInvariant
<1>1. PICK q \in IF arms < MaxArms THEN Reprepare(rec, view) ELSE {Blocked(rec)} :
        IF q.st # "starting" THEN Commit(q, Free)
        ELSE \/ /\ rec' = q /\ saved' = q /\ unsaved' = FALSE /\ UNCHANGED mishaps
                /\ ha' = again
             \/ /\ Mishap("store") /\ rec' = Blocked(rec) /\ UNCHANGED unsaved
                /\ saved' \in {saved, Blocked(rec)} /\ ha' = Free
  BY DEF StartAgain
<1>2. q = Blocked(rec) \/ (view = rec.tx.base /\ q = Prepared(rec, view))
  BY <1>1 DEF Reprepare
<1>3. Moves(rec, Blocked(rec)) /\ Moves(rec, q)
  BY <1>0, <1>2, PrepareMoves
<1>4. CASE Commit(q, Free)
  BY <1>3, <1>4, CommitSteps
<1>5. CASE rec' = q /\ saved' = q /\ ha' = again
  <2>1. again.at = "start"
    BY <1>0 DEF HaRecords
  <2>. HIDE DEF again
  <2>. QED  BY <1>3, <1>5, <2>1 DEF Steps
<1>6. CASE rec' = Blocked(rec) /\ saved' \in {saved, Blocked(rec)} /\ ha' = Free
  BY <1>3, <1>6, ReadyNext DEF Steps
<1>. QED  BY <1>1, <1>4, <1>5, <1>6

LEMMA RestoreDispatchSteps ==
    ASSUME HaTyped, PermitInvariant,
           \/ RestoreRejected \/ RestoreAnswered
           \/ DispatchTimesOut /\ ha.at = "restore"
    PROVE  \E q : Steps(q)
<1>0. ha.at = "restore"
  BY DEF RestoreRejected, RestoreAnswered, At
<1>1. /\ Closing(rec) /\ PreparedUnsent(rec.tx) /\ rec.tx.refused < 2
  BY <1>0, HoldsAre, Positions DEF Closing, PermitInvariant, Unfailed, Resting, Ending
<1>2. /\ Moves(rec, RestoreUnknown(rec)) /\ Moves(rec, MarkRestoreSent(rec))
      /\ \A q \in RestoreNotQueued(rec) : Moves(rec, q)
  BY <1>1, EndsMove, RestoreSentMoves, NotQueuedMoves DEF Closing
<1>3. CASE RestoreRejected
  BY <1>3, StandsStill DEF RestoreRejected
<1>4. CASE DispatchTimesOut
  <2>1. Save(RestoreUnknown(rec), Free, TRUE)
    BY <1>0, <1>4 DEF DispatchTimesOut, GivenUp
  <2>. QED  BY <1>2, <2>1, CommitSteps
<1>5. CASE RestoreAnswered
  <2>1. \/ Save(MarkRestoreSent(rec), Free, FALSE) \/ Save(RestoreUnknown(rec), Free, TRUE)
        \/ \E q \in RestoreNotQueued(rec) : Save(q, Free, FALSE)
    BY <1>5 DEF RestoreAnswered
  <2>. QED  BY <1>2, <2>1, CommitSteps
<1>. QED  BY <1>3, <1>4, <1>5

-----------------------------------------------------------------------------
(* Stopping.                                                               *)

LEMMA RestorableIs ==
    ASSUME HaTyped, PermitInvariant, Restorable
    PROVE  Closing(rec) /\ rec.st \in Resting /\ view \in Blocks /\ rec.tx # None
<1>1. /\ Shape(rec) /\ Permitted(rec) /\ rec.st \in Resting /\ view \in Blocks /\ rec.tx.rb # "failed"
      /\ rec \in Records
  BY HoldsAre DEF PermitInvariant, Restorable, CanReconcile, Resting
<1>2. Owned(rec)
  BY <1>1 DEF Shape, WellFormed, Owned, Resting
<1>3. rec.tx.rb = "pending"
  BY <1>1, <1>2, StageIs
<1>. QED  BY <1>1, <1>2, <1>3 DEF Closing, Resting, Ending, Owned

LEMMA ChangedIs ==
    ASSUME NEW r, NEW next, unsaved \in BOOLEAN, SaveIfChanged(r, next)
    PROVE  rec' = r /\ saved' \in {saved, r} /\ ha' \in {next, Free}
<1>1. CASE Saves(r, next)
  BY <1>1 DEF Saves
<1>2. CASE r = rec /\ ha' = next /\ UNCHANGED <<rec, saved>>
  BY <1>2
<1>. QED  BY <1>1, <1>2, ChangedSaves

\* ... and only an owner that has restored, or must not, is released.
LEMMA StoppingSteps ==
    ASSUME HaTyped, PermitInvariant, PrepareRestore \/ DenyRestore \/ Settle \/ ObserveRestored
    PROVE  \E q : Steps(q) /\ (preserved' # preserved => Owned(rec) /\ ~Owned(q))
<1>1. CASE PrepareRestore
  <2>. DEFINE verdict == Verdict(rec.tx, view)
              q == RestoreOn(rec, view, verdict)
              next == IF verdict = "write" THEN Ready("restore") ELSE Free
  <2>1. Closing(rec) /\ view \in Blocks /\ rec.st \in Resting
    BY <1>1, RestorableIs DEF PrepareRestore
  <2>2. /\ SaveIfChanged(q, next)
        /\ preserved' = (preserved \/ (view = OffGrid /\ verdict = "done"))
    BY <1>1 DEF PrepareRestore
  <2>3. /\ Moves(rec, q) /\ (verdict # "done" => Owned(q))
        /\ verdict = "write" => q.tx.rb = "pending"
    BY <2>1, RestoreMoves
  <2>4. preserved' # preserved => ~Owned(q)
    <3>1. preserved \in BOOLEAN /\ rec \in Records
      BY HoldsAre
    <3>2. preserved' # preserved => verdict = "done"
      BY <2>2, <3>1
    <3>3. verdict = "done" => ~Owned(q)
      BY <3>1, FinishedIs DEF RestoreOn
    <3>. QED  BY <3>2, <3>3
  <2>5. /\ next.at \in {"free", "restore"}
        /\ next.at = "restore" => q.tx.rb = "pending"
    BY <2>3, ReadyNext
  <2>. HIDE DEF q, verdict, next
  <2>6. unsaved \in BOOLEAN
    BY HoldsAre
  <2>7. Steps(q)
    <3>1. rec' = q /\ saved' \in {saved, q} /\ ha' \in {next, Free}
      BY <2>2, <2>6, ChangedIs
    <3>. QED  BY <2>3, <2>5, <3>1, ReadyNext DEF Steps
  <2>. QED  BY <2>1, <2>4, <2>7 DEF Closing
<1>2. CASE DenyRestore
  <2>1. Closing(rec) /\ view \in Blocks /\ preserved' = preserved
    BY <1>2, RestorableIs DEF DenyRestore, Kept
  <2>2. PICK q \in RestoreDenied(rec) : SaveIfChanged(q, Free)
    BY <1>2 DEF DenyRestore
  <2>3. Moves(rec, q)
    BY <2>1, <2>2, FailMoves DEF RestoreDenied, Closing
  <2>4. unsaved \in BOOLEAN
    BY HoldsAre
  <2>5. rec' = q /\ saved' \in {saved, q} /\ ha' = Free
    BY <2>2, <2>4, ChangedIs
  <2>. QED  BY <2>1, <2>3, <2>5, ReadyNext DEF Steps
<1>3. CASE Settle
  <2>1. Closing(rec) /\ preserved' = preserved /\ rec.tx # None
    BY <1>3, RestorableIs DEF Settle, Kept
  <2>2. Moves(rec, Finished(rec))
    BY <2>1, ClosingIs, ReleaseMoves DEF Closing
  <2>3. CASE Save(Finished(rec), Free, TRUE)
    BY <2>1, <2>2, <2>3, CommitSteps
  <2>4. CASE UNCHANGED <<rec, saved, ha>>
    <3>1. Steps(rec)
      BY <2>1, <2>4, ClosingIs DEF Steps, PermitInvariant, Unfailed
    <3>. QED  BY <2>1, <3>1
  <2>. QED  BY <1>3, <2>3, <2>4 DEF Settle
<1>4. CASE ObserveRestored
  <2>1. /\ rec.st = "restoring" /\ view \in Blocks /\ preserved' = preserved
        /\ Save(ObserveRestore(rec, view), Free, TRUE)
    BY <1>4, HoldsAre DEF ObserveRestored, CanReconcile, Kept
  <2>2. Closing(rec)
    <3>1. Shape(rec) /\ Permitted(rec) /\ rec \in Records
      BY HoldsAre DEF PermitInvariant
    <3>2. Owned(rec)
      BY <2>1, <3>1 DEF Shape, WellFormed, Owned
    <3>. QED  BY <2>1, <3>1, <3>2, StageIs DEF Closing, Ending
  <2>3. Moves(rec, ObserveRestore(rec, view))
    BY <2>1, <2>2, ReadbackMoves
  <2>. QED  BY <2>1, <2>3, CommitSteps
<1>. QED  BY <1>1, <1>2, <1>3, <1>4

-----------------------------------------------------------------------------
(* What the steps are to OwnedTransaction.                                 *)

TransactionStep ==
    [Transaction!Next]_<<Outline(rec), Outline(saved), ForceIsLive, preserved>>

LEMMA OutlineIs ==
    /\ \A r : /\ Outline(r).phase = Stage(r) /\ Outline(r).latched = ~r.allowed
              /\ Outline(r).base = IF Owned(r) THEN r.tx.base ELSE None
              /\ ~Owned(r) => Outline(r) = Transaction!Nobody(~r.allowed)
    /\ \A r, q, s : Stage(q) = s /\ Owned(q) /\ Owned(r) /\ q.tx.base = r.tx.base
                      /\ q.allowed = r.allowed
                    => Outline(q) = [Outline(r) EXCEPT !.phase = s]
    /\ \A r, q : Stage(q) = Stage(r) /\ q.allowed = r.allowed
                    /\ (Owned(r) => q.tx.base = r.tx.base) /\ (Owned(q) <=> Owned(r))
                    => Outline(q) = Outline(r)
    /\ \A r : Owned(r) <=> Stage(r) # "idle"
<1>1. \A r : /\ Outline(r).phase = Stage(r) /\ Outline(r).latched = ~r.allowed
             /\ Outline(r).base = IF Owned(r) THEN r.tx.base ELSE None
  BY DEF Outline
<1>2. \A r : Owned(r) <=> Stage(r) # "idle"
  BY DEF Stage
<1>3. \A r : ~Owned(r) => Outline(r) = Transaction!Nobody(~r.allowed)
  BY <1>2 DEF Outline, Transaction!Nobody
<1>4. ASSUME NEW r, NEW q, NEW s, Stage(q) = s, Owned(q), Owned(r), q.tx.base = r.tx.base,
             q.allowed = r.allowed
      PROVE  Outline(q) = [Outline(r) EXCEPT !.phase = s]
  BY <1>4 DEF Outline
<1>5. ASSUME NEW r, NEW q, Stage(q) = Stage(r), q.allowed = r.allowed,
             Owned(r) => q.tx.base = r.tx.base, Owned(q) <=> Owned(r)
      PROVE  Outline(q) = Outline(r)
  BY <1>5 DEF Outline
<1>. QED  BY <1>1, <1>2, <1>3, <1>4, <1>5

LEMMA OutlineNext ==
    ASSUME NEW q, rec' = q
    PROVE  Outline(rec)' = Outline(q) /\ Outline(saved)' = Outline(saved')
<1>1. Outline(rec)' = Outline(rec')
  BY DEF Outline, Stage, Owned
<1>2. Outline(saved)' = Outline(saved')
  BY DEF Outline, Stage, Owned
<1>. QED  BY <1>1, <1>2

\* A step that saves what the record moves to.
LEMMA StepsTransaction ==
    ASSUME NEW q, Steps(q), UNCHANGED ForceIsLive, Permitted(rec), rec \in Records,
           ForceIsLive => Owned(q) \/ preserved',
           preserved \in BOOLEAN, preserved' \in {preserved, TRUE},
           preserved' # preserved => Owned(rec) /\ ~Owned(q)
    PROVE  TransactionStep
<1>. DEFINE own == Outline(rec)
            stored == Outline(saved)
            o == Outline(q)
<1>1. /\ rec' = q /\ Moves(rec, q) /\ saved' \in {saved, q}
  BY DEF Steps
<1>2. Outline(rec)' = o /\ Outline(saved)' \in {stored, o}
  <2>1. Outline(rec)' = o /\ Outline(saved)' = Outline(saved')
    BY <1>1, OutlineNext
  <2>2. saved' = saved => Outline(saved') = stored
    OBVIOUS
  <2>3. saved' = q => Outline(saved') = o
    OBVIOUS
  <2>. QED  BY <1>1, <2>1, <2>2, <2>3
<1>3. q.allowed = rec.allowed /\ (Same(rec, q) \/ Gone(rec, q))
  BY <1>1 DEF Moves
<1>4. CASE o = own /\ preserved' = preserved
  BY <1>2, <1>4 DEF TransactionStep, Transaction!Next, Transaction!Save
<1>5. CASE Gone(rec, q) /\ ~Owned(rec)
  <2>1. o = own
    BY <1>3, <1>5, OutlineIs DEF Gone
  <2>. QED  BY <1>4, <1>5, <2>1
<1>6. CASE Gone(rec, q) /\ Owned(rec)
  <2>1. own.phase \in {"opening", "closing"} /\ o = Transaction!Nobody(own.latched)
    BY <1>3, <1>6, OutlineIs DEF Gone
  <2>2. ForceIsLive => preserved'
    BY <1>6 DEF Gone
  <2>. QED
    BY <1>2, <2>1, <2>2
    DEF TransactionStep, Transaction!Next, Transaction!Release, Transaction!Becomes,
        Transaction!Waives
<1>7. CASE Same(rec, q)
  <2>1. preserved' = preserved /\ Owned(q) /\ q.tx.base = rec.tx.base
        /\ <<Stage(rec), Stage(q)>> \in Ways
    BY <1>7 DEF Same
  <2>2. Owned(rec)
    BY <2>1, OutlineIs DEF Ways
  <2>3. o = [own EXCEPT !.phase = Stage(q)] /\ own.phase = Stage(rec)
    BY <1>3, <2>1, <2>2, OutlineIs
  <2>4. CASE Stage(q) = Stage(rec)
    <3>1. o = own
      BY <1>3, <2>1, <2>2, <2>4, OutlineIs
    <3>. QED  BY <1>4, <2>1, <3>1
  <2>5. CASE Stage(q) # Stage(rec)
    <3>1. \/ Stage(rec) = "opening" /\ Stage(q) = "driving"
          \/ Stage(rec) \in {"opening", "driving"} /\ Stage(q) = "closing"
          \/ Stage(rec) = "closing" /\ Stage(q) = "failed"
      BY <2>1, <2>5 DEF Ways
    <3>2. ASSUME NEW s, s = Stage(q) PROVE Transaction!Enters(s)
      BY <1>2, <2>1, <2>3, <3>2 DEF Transaction!Enters, Transaction!Becomes
    <3>3. Transaction!Drive \/ Transaction!Close \/ Transaction!GiveUp
      BY <2>3, <3>1, <3>2 DEF Transaction!Drive, Transaction!Close, Transaction!GiveUp
    <3>. QED  BY <3>3 DEF TransactionStep, Transaction!Next
  <2>. QED  BY <2>4, <2>5
<1>. QED  BY <1>3, <1>5, <1>6, <1>7

\* What makes a forced block live.
LEMMA LiveIs == ForceIsLive <=> driven \/ ForcedQueued \/ Arms(net)
BY DEF ForceIsLive, ForcedQueued, Arms

LEMMA LiveNext ==
    ASSUME UNCHANGED <<driven, bus>>, Arms(net') <=> Arms(net)
    PROVE  ForceIsLive' = ForceIsLive
<1>1. UNCHANGED ForcedQueued
  BY DEF ForcedQueued
<1>2. ForceIsLive' <=> ForceIsLive
  BY <1>1 DEF ForceIsLive, ForcedQueued, Arms
<1>3. ForceIsLive \in BOOLEAN /\ ForceIsLive' \in BOOLEAN
  BY DEF ForceIsLive
<1>. QED  BY <1>2, <1>3

\* Home Assistant puts nothing forced on its way but an arm, and takes nothing back.
LEMMA HaLive == ASSUME NetTyped, HaStep, ~SendArm PROVE ForceIsLive' = ForceIsLive
<1>0. UNCHANGED <<driven, bus>> /\ net \subseteq Requests
  BY HaStill DEF NetTyped
<1>1. CASE net' = net
  BY <1>0, <1>1, LiveNext
<1>2. CASE Unawaited
  <2>1. ASSUME NEW m \in net
        PROVE  /\ [m EXCEPT !.awaited = FALSE].kind = m.kind
               /\ [m EXCEPT !.awaited = FALSE].cur = m.cur
    BY <1>0 DEF Requests
  <2>2. \A m \in net : m.cur => [m EXCEPT !.awaited = FALSE] \in net'
    BY <1>2, <2>1 DEF Unawaited, Matters
  <2>3. \A n \in net' : \E m \in net : n = [m EXCEPT !.awaited = FALSE]
    BY <1>2 DEF Unawaited, Matters
  <2>4. Arms(net) => Arms(net')
    <3>. SUFFICES ASSUME NEW m \in net, m.kind = "arm", m.cur PROVE Arms(net')
      BY DEF Arms
    <3>1. PICK n : n = [m EXCEPT !.awaited = FALSE]
      OBVIOUS
    <3>2. n \in net' /\ n.kind = "arm" /\ n.cur
      BY <2>1, <2>2, <3>1
    <3>. QED  BY <3>2 DEF Arms
  <2>5. Arms(net') => Arms(net)
    <3>. SUFFICES ASSUME NEW n \in net', n.kind = "arm", n.cur PROVE Arms(net)
      BY DEF Arms
    <3>1. PICK m \in net : n = [m EXCEPT !.awaited = FALSE]
      BY <2>3
    <3>2. m.kind = "arm" /\ m.cur
      BY <2>1, <3>1
    <3>. QED  BY <3>2 DEF Arms
  <2>. QED  BY <1>0, <2>4, <2>5, LiveNext
<1>3. CASE net' = {OfAnOlderOwner(m) : m \in net}
  <2>1. ASSUME NEW m \in net
        PROVE  OfAnOlderOwner(m).kind = m.kind /\ OfAnOlderOwner(m).cur = m.cur
    BY <1>0 DEF Requests, OfAnOlderOwner
  <2>2. Arms(net') <=> Arms(net)
    BY <1>3, <2>1 DEF Arms
  <2>. QED  BY <1>0, <2>2, LiveNext
<1>4. CASE SendRestore
  <2>1. net' = net \cup {Request("restore", 1, Target(rec.tx))}
    BY <1>4 DEF SendRestore, Send
  <2>2. Request("restore", 1, Target(rec.tx)).kind = "restore"
    BY DEF Request
  <2>3. Arms(net') <=> Arms(net)
    BY <2>1, <2>2 DEF Arms
  <2>. QED  BY <1>0, <2>3, LiveNext
<1>5. net' = net \/ Unawaited \/ net' = {OfAnOlderOwner(m) : m \in net} \/ SendRestore
  <2>1. CASE \/ Select \/ PrepareStart \/ Unblock \/ Deadline \/ Observe
             \/ Verify \/ Sustain \/ Retarget \/ Stopping \/ Rearm
    BY <2>1 DEF Select, PrepareStart, Unblock, Deadline, Observe, Verify, Sustain, Retarget,
       Stopping, PrepareRestore, DenyRestore, Settle, ObserveRestored, Rearm, Quiet
  <2>2. CASE \/ StartRejected \/ RestoreRejected \/ RetargetRejected \/ StartAnswered
             \/ RetargetAnswered \/ RestoreAnswered \/ StartAgain \/ RetargetAgain
    BY <2>2 DEF StartRejected, RestoreRejected, RetargetRejected, StartAnswered,
       RetargetAnswered, RestoreAnswered, StartAgain, RetargetAgain, Quiet, Taken
  <2>3. CASE DispatchTimesOut \/ Restart \/ Start
    BY <2>3 DEF DispatchTimesOut, Restart, Start
  <2>4. CASE RequestMasterStop \/ RetryPersistence
    BY <2>4 DEF RequestMasterStop, RetryPersistence, Quiet
  <2>. QED  BY <2>1, <2>2, <2>3, <2>4 DEF HaStep, Reconcile, Dispatching
<1>. QED  BY <1>1, <1>2, <1>3, <1>4, <1>5

\* The firmware forces nothing that was not on its way, and knows no record.
LEMMA FirmwareLive ==
    ASSUME Typed, Firmware \/ OutsideChange \/ EspRestart
    PROVE  (ForceIsLive' => ForceIsLive) /\ HaIdle
<1>0. EspTyped /\ NetTyped
  BY DEF Typed
<1>1. CASE PollDue
  <2>1. /\ UNCHANGED <<driven, net>> /\ bus' = Append(bus, Poll) /\ HaIdle
    BY <1>1 DEF PollDue, EspIdle
  <2>2. Poll \notin Forced
    BY PollIsNoWrite DEF Blocks
  <2>3. ForcedQueued' <=> ForcedQueued
    BY <1>0, <2>1, <2>2, Appended
  <2>. QED  BY <2>1, <2>3 DEF ForceIsLive, ForcedQueued
<1>2. CASE WriteApplied \/ WriteLost
  <2>1. /\ net' = net /\ bus # <<>> /\ bus' = Tail(bus) /\ HaIdle
        /\ driven' => driven \/ Head(bus) \in Forced
    <3>1. CASE WriteApplied
      BY <3>1 DEF WriteApplied, EspIdle
    <3>2. CASE WriteLost
      BY <3>2 DEF WriteLost, EspIdle
    <3>. QED  BY <1>2, <3>1, <3>2
  <2>2. Head(bus) \in Forced \/ ForcedQueued' => ForcedQueued
    BY <1>0, <2>1, Dequeued
  <2>3. driven' \/ ForcedQueued' => driven \/ ForcedQueued
    BY <2>1, <2>2
  <2>4. ForceIsLive' <=> driven' \/ ForcedQueued' \/ Arms(net)
    BY <2>1 DEF ForceIsLive, ForcedQueued, Arms
  <2>. QED  BY <2>1, <2>3, <2>4, LiveIs
<1>3. CASE Reading
  <2>1. /\ driven' = driven /\ bus # <<>> /\ bus' = Tail(bus) /\ HaIdle
        /\ net' = Matters({[m EXCEPT !.cur = FALSE] : m \in net})
    BY <1>3 DEF Reading, EspIdle
  <2>2. ForcedQueued' => ForcedQueued
    BY <1>0, <2>1, Dequeued
  <2>3. Arms(net)' => Arms(net)
    BY <1>0, <2>1, Passing, ArmsPass
  <2>. QED  BY <2>1, <2>2, <2>3 DEF ForceIsLive, ForcedQueued, Arms
<1>4. CASE LeaseTimer
  <2>1. UNCHANGED <<net, driven>> /\ HaIdle
    BY <1>4, TimerIs DEF LeaseTimer, EspIdle
  <2>2. ForcedQueued' => ForcedQueued
    <3>1. CASE UNCHANGED bus
      BY <3>1 DEF ForcedQueued
    <3>2. CASE lease \in Leases /\ Queued(lease.fb)
      <4>1. lease.fb \in Blocks /\ lease.fb \notin Forced
        BY <3>2, ExecutorBlocks DEF Leases, Blocks
      <4>. QED  BY <1>0, <3>2, <4>1, QueuedIs
    <3>. QED  BY <1>4, <3>1, <3>2, TimerIs
  <2>. QED  BY <2>1, <2>2 DEF ForceIsLive, ForcedQueued
<1>5. CASE OutsideChange
  BY <1>5 DEF OutsideChange, EspIdle, ForceIsLive
<1>6. CASE EspRestart
  <2>1. driven' = driven /\ bus' = <<>> /\ net' = {} /\ HaIdle
    BY <1>6 DEF EspRestart, EspIdle
  <2>2. ~\E i \in 1..Len(<<>>) : <<>>[i] \in Forced
    OBVIOUS
  <2>. QED  BY <2>1, <2>2 DEF ForceIsLive
<1>7. CASE \E m \in net : EspArms(m) \/ EspRestores(m) \/ EspRefuses(m) \/ RequestLost(m)
  <2>1. PICK m \in net : EspArms(m) \/ EspRestores(m) \/ EspRefuses(m) \/ RequestLost(m)
    BY <1>7
  <2>2. net' = net \ {m} /\ driven' = driven /\ HaIdle
    BY <2>1 DEF EspArms, EspRestores, EspRefuses, RequestLost, Answer, espVars, espOwn
  <2>3. CASE EspArms(m)
    <3>1. m.kind = "arm" /\ m.cur
      BY <2>3 DEF EspArms, ArmAllowed
    <3>. QED  BY <2>2, <3>1 DEF ForceIsLive
  <2>4. CASE EspRestores(m)
    <3>1. Queued(m.b) /\ m.b \notin Forced /\ m.b \in Blocks
      BY <1>0, <2>4 DEF EspRestores, NetTyped, Requests
    <3>2. ForcedQueued' => ForcedQueued
      BY <1>0, <3>1, QueuedIs
    <3>. QED  BY <2>2, <3>2 DEF ForceIsLive, ForcedQueued
  <2>5. CASE EspRefuses(m) \/ RequestLost(m)
    <3>1. bus' = bus
      BY <2>5 DEF EspRefuses, RequestLost, espVars, espOwn
    <3>. QED  BY <2>2, <3>1 DEF ForceIsLive
  <2>. QED  BY <2>1, <2>3, <2>4, <2>5
<1>. QED  BY <1>1, <1>2, <1>3, <1>4, <1>5, <1>6, <1>7 DEF Firmware

\* The steps at rest: choosing, and saving once more.
LEMMA RestSteps ==
    ASSUME HaTyped, PermitInvariant, Select \/ RetryPersistence
    PROVE  \E q : Steps(q)
<1>0. Shape(rec) /\ rec \in Records /\ Permitted(rec) /\ unsaved \in BOOLEAN
  BY HoldsAre DEF PermitInvariant
<1>1. CASE Select
  <2>1. PICK b \in Forced :
          Commit(SelectIntent(rec, b), IF SelectIntent(rec, b).st = "selected" THEN Loop ELSE Free)
    BY <1>1 DEF Select
  <2>2. PICK q : q = SelectIntent(rec, b)
    OBVIOUS
  <2>3. ~Owned(rec) /\ b \in Blocks
    BY <1>0, <1>1 DEF Select, CanReconcile, Shape, WellFormed, Owned, Blocks
  <2>4. ASSUME NEW st \in {"selected", "blocked"}, q = Publish(rec, st, Unowned(st, b))
        PROVE  q.st = st /\ q.allowed = rec.allowed /\ ~Owned(q) /\ q.tx.rb = "pending"
    <3>1. st \in States /\ Unowned(st, b).rb = "pending"
      BY DEF States, Unowned
    <3>2. Unowned(st, b) \in Transactions /\ Unowned(st, b).own = "none"
      BY <2>3, <3>1, UnownedIs
    <3>. QED  BY <1>0, <2>4, <3>1, <3>2, PublishedIs DEF Owned
  <2>5. /\ q.allowed = rec.allowed /\ ~Owned(q) /\ (q.st \in AtWork => q.allowed)
        /\ q.tx.rb = "pending"
    BY <2>2, <2>4 DEF SelectIntent, AtWork, Working
  <2>6. Moves(rec, q)
    BY <1>0, <2>3, <2>5, StageIs DEF Moves, Gone, Permitted
  <2>7. \E next \in {Free, Loop} : Saves(q, next)
    BY <1>0, <2>1, <2>2, CommitSaves
  <2>. QED  BY <2>6, <2>7, ReadyNext, SavesSteps
<1>2. CASE RetryPersistence
  <2>1. CommitStop(rec, Free, TRUE)
    BY <1>2 DEF RetryPersistence
  <2>. QED  BY <1>0, <2>1, StaysMoves, CommitSteps
<1>. QED  BY <1>1, <1>2

\* A new owner: allowed, and with a base other than Off-Grid.
Opens(q) ==
    /\ rec' = q /\ saved' \in {saved, q} /\ ha'.at \notin {"restore", "retarget"}
    /\ ~Owned(rec) /\ rec.allowed /\ q.allowed /\ Permitted(q)
    /\ Owned(q) /\ Stage(q) = "opening" /\ q.tx.base \in SelfUse \cup Forced

LEMMA StartSteps ==
    ASSUME HaTyped, PermitInvariant, Start
    PROVE  \E q : Steps(q) \/ Opens(q)
<1>0. /\ Shape(rec) /\ rec \in Records /\ Permitted(rec) /\ unsaved \in BOOLEAN
      /\ rec.st = "selected" /\ view \in Blocks
  BY HoldsAre DEF PermitInvariant, Start, CanGoOn
<1>1. rec.tx \in Transactions /\ rec.tx # None /\ ~Owned(rec) /\ rec.allowed /\ rec.tx.rb = "pending"
  <2>1. rec.tx # None
    BY <1>0 DEF Shape
  <2>2. rec.tx \in Transactions /\ ~Owned(rec)
    BY <1>0, <2>1, ShapeTx DEF WellFormed, Owned
  <2>3. rec.allowed /\ rec.tx.rb = "pending"
    BY <1>0 DEF Permitted, AtWork
  <2>. QED  BY <2>1, <2>2, <2>3
<1>2. PICK q \in StartOn(rec, view) \cup {StopRequested(rec)} :
              Commit(q, IF q.st = "starting" THEN Loop ELSE Free)
  BY DEF Start
<1>3. \E next \in {Free, Loop} : Saves(q, next)
  BY <1>0, <1>2, CommitSaves
<1>4. CASE q \in {Blocked(rec), StopRequested(rec)}
  <2>1. Moves(rec, q)
    BY <1>0, <1>1, <1>4, StageIs, ReleaseMoves
  <2>. QED  BY <1>3, <2>1, ReadyNext, SavesSteps
<1>5. CASE /\ view # OffGrid
           /\ q = Publish(rec, "starting", [rec.tx EXCEPT !.own = "auto", !.base = view])
  <2>. DEFINE t == [rec.tx EXCEPT !.own = "auto", !.base = view]
  <2>1. t \in Transactions
    BY <1>0, <1>1 DEF Transactions
  <2>2. t.own = "auto" /\ t.base = view /\ t.rb = rec.tx.rb
    BY <1>1, SMT DEF Transactions
  <2>3. q = Publish(rec, "starting", t) /\ "starting" \in States
    BY <1>5 DEF States
  <2>. HIDE DEF t
  <2>4. /\ q.st = "starting" /\ q.allowed = rec.allowed /\ q.tx # None /\ q.tx.rb = "pending"
        /\ q.tx.own = "auto" /\ q.tx.base = view
    <3>1. rec \in Records /\ rec.tx.rb = "pending"
      BY <1>0, <1>1
    <3>. QED  BY <2>1, <2>2, <2>3, <3>1, PublishedIs
  <2>5. Owned(q) /\ Permitted(q) /\ Stage(q) = "opening"
    BY <1>1, <2>4 DEF Owned, Permitted, Stage
  <2>6. rec' = q /\ saved' \in {saved, q} /\ ha'.at \notin {"restore", "retarget"}
    BY <1>3, ReadyNext DEF Saves
  <2>. QED  BY <1>0, <1>1, <1>5, <2>4, <2>5, <2>6 DEF Opens, Blocks
<1>. QED  BY <1>2, <1>4, <1>5 DEF StartOn

\* MASTER STOP: an owner keeps its base and is on its way out, or has failed;
\* where there is none the mode of the block read may have to be restored.
LEMMA MasterIs ==
    ASSUME NEW r, Shape(r), Permitted(r), NEW v \in Blocks, NEW q \in MasterStop(r, v)
    PROVE  /\ ~q.allowed /\ Permitted(q) /\ (q.st = "idle" => ~Owned(q))
           /\ Owned(r) => /\ Owned(q) /\ q.tx.base = r.tx.base
                          /\ Stage(q) \in {"closing", Stage(r)} \cap {"closing", "failed"}
           /\ Owned(q) /\ ~Owned(r) => Stage(q) = "closing" /\ q.tx.base \in SelfUse \cup Forced
<1>. DEFINE l == Latched(r)
<1>0. /\ r \in Records /\ l \in Records /\ l.tx = r.tx /\ ~l.allowed
      /\ Owned(r) => r.tx \in Transactions /\ r.tx # None
      /\ Owned(r) => (r.tx.rb = "failed" /\ Stage(r) = "failed") \/ r.tx.rb = "pending"
  BY LatchedIs, OwnKin, StageIs DEF Shape, Latched, Records
<1>. HIDE DEF l
<1>1. ASSUME q.tx # None, q.tx.own # "none", q.st \in {"stopping", "fault"}, ~q.allowed,
             q.tx.rb = "pending" \/ (q.tx.rb = "failed" /\ q.st = "fault")
      PROVE  /\ Owned(q) /\ Permitted(q)
             /\ Stage(q) = IF q.tx.rb = "failed" THEN "failed" ELSE "closing"
  BY <1>1 DEF Owned, Permitted, Stage, AtWork, Working
<1>2. CASE Owned(r) /\ q = StopBlocked(r)
  <2>. DEFINE t == [r.tx EXCEPT !.master = TRUE]
              p == Publish(l, "fault", t)
              b == [p EXCEPT !.mst = "blocked"]
  <2>1. t \in Transactions
    BY <1>0, <1>2 DEF Transactions
  <2>2. t.own = r.tx.own /\ t.base = r.tx.base /\ t.rb = r.tx.rb
    BY <1>0, <1>2, SMT DEF Transactions
  <2>3. q = b /\ "fault" \in States
    BY <1>2 DEF StopBlocked, States, l
  <2>. HIDE DEF t
  <2>4. /\ p \in Records /\ p.st = "fault" /\ ~p.allowed /\ p.tx # None
        /\ p.tx.own = r.tx.own /\ p.tx.base = r.tx.base /\ p.tx.rb = r.tx.rb
    BY <1>0, <2>1, <2>2, <2>3, PublishedIs
  <2>. HIDE DEF p
  <2>5. b.st = p.st /\ b.tx = p.tx /\ b.allowed = p.allowed
    BY <2>4, SaidIs
  <2>. HIDE DEF b
  <2>6. q.st = p.st /\ q.tx = p.tx /\ q.allowed = p.allowed
    BY <2>3, <2>5
  <2>7. q.tx.own # "none"
    BY <1>2, <2>4, <2>6 DEF Owned
  <2>. QED  BY <1>0, <1>1, <1>2, <2>4, <2>6, <2>7
<1>3. CASE Owned(r) /\ q = StopTakesOver(r)
  <2>. DEFINE d == RestoreDropped(r.tx)
              t == [d EXCEPT !.rb = "pending", !.rsnap = None, !.att = 0, !.master = TRUE]
  <2>1. d \in Transactions /\ d.own = r.tx.own /\ d.base = r.tx.base
    BY <1>0, <1>3, DroppedIs
  <2>. HIDE DEF d
  <2>2. 0 \in 0..2
    OBVIOUS
  <2>3. t \in Transactions
    BY <2>1, <2>2, Zenon DEF Transactions
  <2>4. t.own = d.own /\ t.base = d.base /\ t.rb = "pending"
    BY <2>1, SMT DEF Transactions
  <2>5. q = Publish(l, "stopping", t) /\ "stopping" \in States
    BY <1>3 DEF StopTakesOver, States, l, d
  <2>. HIDE DEF t
  <2>6. /\ q.st = "stopping" /\ ~q.allowed /\ q.tx # None
        /\ q.tx.own = r.tx.own /\ q.tx.base = r.tx.base /\ q.tx.rb = "pending"
    BY <1>0, <2>1, <2>3, <2>4, <2>5, PublishedIs
  <2>7. q.tx.own # "none"
    BY <1>3, <2>6 DEF Owned
  <2>. QED  BY <1>1, <1>3, <2>6, <2>7
<1>4. CASE ~Owned(r) /\ q = StopBlocked(r)
  <2>1. q.st = "blocked" /\ q.tx = r.tx /\ ~q.allowed
    BY <1>0, <1>4 DEF StopBlocked, Records, l
  <2>. QED  BY <1>4, <2>1 DEF Owned, Permitted, AtWork, Working
<1>5. CASE ~Owned(r) /\ q = StopFromRest(r, v)
  <2>1. CASE v = OffGrid
    <3>1. q.st = "idle" /\ q.tx = None /\ ~q.allowed
      BY <1>0, <1>5, <2>1 DEF StopFromRest, Records, l
    <3>. QED  BY <1>5, <3>1 DEF Owned, Permitted, AtWork, Working
  <2>2. CASE v # OffGrid
    <3>. DEFINE u == Unowned("stopping", Neutral(v))
                t == [u EXCEPT !.own = "manual", !.base = v, !.master = TRUE]
    <3>1. u \in Transactions /\ u.rb = "pending" /\ "stopping" \in States
      <4>1. Neutral(v) \in Blocks
        BY ExecutorBlocks DEF Neutral, Blocks
      <4>2. "stopping" \in States
        BY DEF States
      <4>3. u.rb = "pending"
        BY DEF Unowned
      <4>. QED  BY <4>1, <4>2, <4>3, UnownedIs
    <3>2. q = Publish(l, "stopping", t)
      BY <1>5, <2>2 DEF StopFromRest, l
    <3>. HIDE DEF u
    <3>3. t \in Transactions
      BY <3>1 DEF Transactions
    <3>4. t.own = "manual" /\ t.base = v /\ t.rb = "pending"
      BY <3>1, SMT DEF Transactions
    <3>. HIDE DEF t
    <3>5. /\ q.st = "stopping" /\ ~q.allowed /\ q.tx # None
          /\ q.tx.own = "manual" /\ q.tx.base = v /\ q.tx.rb = "pending"
      BY <1>0, <3>1, <3>2, <3>3, <3>4, PublishedIs
    <3>. QED  BY <1>1, <1>5, <2>2, <3>5 DEF Blocks
  <2>. QED  BY <2>1, <2>2
<1>. QED  BY <1>2, <1>3, <1>4, <1>5 DEF MasterStop

\* A restart goes back to what the Store has, and begins the stop.
LEMMA RecoveredIs ==
    ASSUME NEW r, Shape(r), NEW q, q = Recovered(r)
    PROVE  /\ q.allowed = r.allowed /\ Permitted(q) /\ (Owned(q) <=> Owned(r))
           /\ Owned(r) => q.tx.base = r.tx.base /\ Stage(q) = "closing"
<1>0. r \in Records /\ (Owned(r) => r.tx \in Transactions /\ r.tx # None)
  BY OwnKin DEF Shape
<1>1. CASE r.tx = None
  BY <1>1 DEF Recovered, Owned, Permitted, Shape, AtWork, Working
<1>2. CASE r.tx # None /\ ~Owned(r)
  <2>1. q.st = "idle" /\ ~Owned(q) /\ q.allowed = r.allowed
    BY <1>0, <1>2, FinishedIs DEF Recovered
  <2>. QED  BY <1>2, <2>1 DEF Permitted, AtWork, Working
<1>3. CASE Owned(r) /\ RestoreInFlight(r)
  <2>1. q = r /\ q.st = "restoring" /\ q.tx.rb = "pending"
    BY <1>0, <1>3 DEF Recovered, RestoreInFlight
  <2>. QED  BY <1>3, <2>1 DEF Permitted, Stage, AtWork, Working
<1>4. CASE Owned(r) /\ ~RestoreInFlight(r)
  <2>. DEFINE d == RestoreDropped(r.tx)
              t == [d EXCEPT !.rb = "pending"]
              p == Publish(r, "stopping", t)
              b == [p EXCEPT !.mst = r.mst]
  <2>1. d \in Transactions /\ d.own = r.tx.own /\ d.base = r.tx.base
    BY <1>0, <1>4, DroppedIs
  <2>. HIDE DEF d
  <2>2. t \in Transactions /\ t.rb = "pending" /\ t.own = d.own /\ t.base = d.base
    BY <2>1, RollbackIs
  <2>3. q = b /\ "stopping" \in States
    BY <1>0, <1>4 DEF Recovered, States, d
  <2>. HIDE DEF t
  <2>4. /\ p \in Records /\ p.st = "stopping" /\ p.allowed = r.allowed /\ p.tx # None
        /\ p.tx.own = r.tx.own /\ p.tx.base = r.tx.base /\ p.tx.rb = "pending"
    BY <1>0, <2>1, <2>2, <2>3, PublishedIs
  <2>. HIDE DEF p
  <2>5. b.st = p.st /\ b.tx = p.tx /\ b.allowed = p.allowed
    BY <2>4, SaidIs
  <2>. HIDE DEF b
  <2>6. q.st = p.st /\ q.tx = p.tx /\ q.allowed = p.allowed
    BY <2>3, <2>5
  <2>7. Owned(q)
    BY <1>4, <2>4, <2>6 DEF Owned
  <2>. QED  BY <1>4, <2>4, <2>6, <2>7 DEF Permitted, Stage, AtWork, Working
<1>. QED  BY <1>1, <1>2, <1>3, <1>4

\* Every step, and what it leaves of the invariant.
LEMMA PermitNext ==
    ASSUME Permitted(rec'),
           ha'.at = "restore" => rec'.tx.rb = "pending",
           ha'.at = "retarget" => ha'.pred.rb = "pending"
    PROVE  PermitInvariant'
BY DEF PermitInvariant, Permitted, Unfailed, Owned

LEMMA PermitSame ==
    ASSUME PermitInvariant, rec' = rec, ha'.at = ha.at, ha'.pred = ha.pred
    PROVE  PermitInvariant'
BY PermitNext DEF PermitInvariant, Unfailed

LEMMA LiveNextOwned == OwnershipInvariant' => ForceOwned'
<1>1. OwnershipInvariant => ForceOwned
  BY LiveIsOwned DEF ForceOwned
<1>. QED  BY <1>1, PTL

\* RAM moves to q, and the Store may miss it.
LEMMA BecomesIs ==
    ASSUME NEW q, rec' = q, saved' \in {saved, q}
    PROVE  /\ Outline(rec)' = Outline(q)
           /\ Outline(saved)' \in {Outline(saved), Outline(q)}
<1>1. Outline(rec)' = Outline(q) /\ Outline(saved)' = Outline(saved')
  BY OutlineNext
<1>2. saved' = saved => Outline(saved') = Outline(saved)
  OBVIOUS
<1>3. saved' = q => Outline(saved') = Outline(q)
  OBVIOUS
<1>. QED  BY <1>1, <1>2, <1>3

LEMMA StillTransaction ==
    ASSUME Outline(rec)' = Outline(rec), Outline(saved)' = Outline(saved),
           ForceIsLive' = ForceIsLive, preserved' = preserved
    PROVE  TransactionStep
BY DEF TransactionStep

LEMMA StepsKept ==
    ASSUME OwnershipInvariant, OwnershipInvariant', PermitInvariant, UNCHANGED ForceIsLive,
           preserved' \in {preserved, TRUE}, NEW q, Steps(q),
           preserved' # preserved => Owned(rec) /\ ~Owned(q)
    PROVE  PermitInvariant' /\ TransactionStep
<1>1. rec' = q /\ Permitted(q)
  BY DEF Steps, Moves
<1>2. PermitInvariant'
  BY <1>1, PermitNext DEF Steps
<1>3. ForceIsLive => Owned(q) \/ preserved'
  BY <1>1, LiveNextOwned DEF ForceOwned, Owned
<1>4. rec \in Records /\ preserved \in BOOLEAN /\ Permitted(rec)
  BY HoldsAre DEF OwnershipInvariant, Typed, PermitInvariant
<1>. QED  BY <1>2, <1>3, <1>4, StepsTransaction

\* The reconciliations and dispatches that only move on what there is.
LEMMA MovingKept ==
    ASSUME OwnershipInvariant, OwnershipInvariant', PermitInvariant,
           HaStep, ~Start, ~Rearm, ~RequestMasterStop, ~Restart, ~SendArm, ~SendRestore
    PROVE  PermitInvariant' /\ TransactionStep
<1>0. HaTyped /\ Linked /\ NetTyped
  BY DEF OwnershipInvariant, Typed
<1>1. UNCHANGED ForceIsLive
  BY <1>0, HaLive
<1>2. CASE Stopping
  <2>1. PICK q : Steps(q) /\ (preserved' # preserved => Owned(rec) /\ ~Owned(q))
    BY <1>0, <1>2, StoppingSteps DEF Stopping
  <2>2. preserved' \in {preserved, TRUE}
    <3>1. CASE PrepareRestore
      BY <1>0, <3>1, HoldsAre DEF PrepareRestore
    <3>2. CASE DenyRestore \/ Settle \/ ObserveRestored
      BY <3>2 DEF DenyRestore, Settle, ObserveRestored, Kept
    <3>. QED  BY <1>2, <3>1, <3>2 DEF Stopping
  <2>. QED  BY <1>1, <2>1, <2>2, StepsKept
<1>3. CASE ~Stopping
  <2>1. PICK q : Steps(q)
    <3>1. CASE Select \/ RetryPersistence
      BY <1>0, <3>1, RestSteps
    <3>2. CASE PrepareStart \/ Unblock \/ Deadline \/ Observe \/ Verify \/ Sustain
      BY <1>0, <3>2, ReconcileSteps
    <3>3. CASE Retarget \/ RetargetAgain
      BY <1>0, <3>3, RetargetSteps
    <3>4. CASE \/ StartRejected \/ RetargetRejected \/ StartAnswered \/ RetargetAnswered
               \/ (DispatchTimesOut /\ ha.at # "restore")
      BY <1>0, <3>4, DispatchSteps
    <3>5. CASE StartAgain
      BY <1>0, <3>5, StartAgainSteps
    <3>6. CASE RestoreRejected \/ RestoreAnswered \/ (DispatchTimesOut /\ ha.at = "restore")
      BY <1>0, <3>6, RestoreDispatchSteps
    <3>. QED  BY <1>3, <3>1, <3>2, <3>3, <3>4, <3>5, <3>6 DEF HaStep, Reconcile, Dispatching
  <2>2. UNCHANGED preserved
    <3>1. CASE \/ Select \/ PrepareStart \/ Unblock \/ Deadline \/ Observe
               \/ Verify \/ Sustain \/ Retarget \/ RetryPersistence
      BY <3>1 DEF Select, PrepareStart, Unblock, Deadline, Observe, Verify, Sustain, Retarget,
         RetryPersistence, Kept
    <3>2. CASE \/ StartRejected \/ RestoreRejected \/ RetargetRejected \/ StartAnswered
               \/ RetargetAnswered \/ RestoreAnswered \/ StartAgain \/ RetargetAgain
               \/ DispatchTimesOut
      BY <3>2 DEF StartRejected, RestoreRejected, RetargetRejected, StartAnswered,
         RetargetAnswered, RestoreAnswered, StartAgain, RetargetAgain, DispatchTimesOut, Kept
    <3>. QED  BY <1>3, <3>1, <3>2 DEF HaStep, Reconcile, Dispatching
  <2>. QED  BY <1>1, <2>1, <2>2, StepsKept
<1>. QED  BY <1>2, <1>3

LEMMA StartKept ==
    ASSUME OwnershipInvariant, OwnershipInvariant', PermitInvariant, Start
    PROVE  PermitInvariant' /\ TransactionStep
<1>0. HaTyped /\ NetTyped /\ HaStep /\ ~SendArm /\ UNCHANGED preserved
  <2>1. ha.at \in {"free", "loop"}
    BY DEF Start, CanGoOn, Free, Loop
  <2>. QED  BY <2>1 DEF OwnershipInvariant, Typed, HaStep, Reconcile, SendArm, Start, Kept
<1>1. UNCHANGED ForceIsLive
  BY <1>0, HaLive
<1>2. PICK q : Steps(q) \/ Opens(q)
  BY <1>0, StartSteps
<1>3. CASE Steps(q)
  BY <1>0, <1>1, <1>3, StepsKept
<1>4. CASE Opens(q)
  <2>. DEFINE own == Outline(rec)
              o == Outline(q)
  <2>1. rec' = q /\ saved' \in {saved, q} /\ Permitted(q)
    BY <1>4 DEF Opens
  <2>2. PermitInvariant'
    BY <1>4, <2>1, PermitNext DEF Opens
  <2>3. Outline(rec)' = o /\ Outline(saved)' \in {Outline(saved), o}
    BY <2>1, BecomesIs
  <2>4. /\ own.phase = "idle" /\ own.latched = FALSE /\ q.tx.base \in SelfUse \cup Forced
        /\ o = [own EXCEPT !.phase = "opening", !.base = q.tx.base]
    <3>1. ~Owned(rec) /\ rec.allowed /\ q.allowed /\ Owned(q) /\ Stage(q) = "opening"
      BY <1>4 DEF Opens
    <3>2. own = [phase |-> "idle", base |-> None, latched |-> FALSE]
      BY <3>1 DEF Outline, Stage
    <3>3. o = [phase |-> "opening", base |-> q.tx.base, latched |-> FALSE]
      BY <3>1 DEF Outline
    <3>. HIDE DEF own, o
    <3>4. own.phase = "idle" /\ own.latched = FALSE
      BY <3>2
    <3>5. o = [own EXCEPT !.phase = "opening", !.base = q.tx.base]
      <4>1. PICK n, y, l : n = [own EXCEPT !.phase = "opening"] /\ y = q.tx.base /\ l = FALSE
        OBVIOUS
      <4>2. n = [phase |-> "opening", base |-> None, latched |-> l]
        BY <3>2, <4>1
      <4>3. [n EXCEPT !.base = y] = [phase |-> "opening", base |-> y, latched |-> l]
        BY <4>2
      <4>. QED  BY <3>3, <4>1, <4>3
    <3>. QED  BY <1>4, <3>4, <3>5 DEF Opens
  <2>. HIDE DEF o
  <2>5. Transaction!Open
    BY <1>0, <1>1, <2>3, <2>4 DEF Transaction!Open, Transaction!Becomes
  <2>. QED  BY <2>2, <2>5 DEF TransactionStep, Transaction!Next
<1>. QED  BY <1>2, <1>3, <1>4

LEMMA RearmKept ==
    ASSUME OwnershipInvariant, PermitInvariant, Rearm
    PROVE  PermitInvariant' /\ TransactionStep
<1>0. /\ HaTyped /\ NetTyped /\ HaStep /\ ~SendArm /\ UNCHANGED preserved
      /\ Shape(rec) /\ rec \in Records /\ unsaved \in BOOLEAN /\ rec.st = "idle"
      /\ Commit(Rearmed(rec), Free)
  <2>1. ha.at \in {"free", "loop"}
    BY DEF Rearm, CanReconcile, Free, Loop
  <2>2. HaTyped /\ NetTyped
    BY DEF OwnershipInvariant, Typed
  <2>. QED
    BY <2>1, <2>2, HoldsAre DEF HaStep, Reconcile, SendArm, Rearm, CanReconcile, Kept
<1>1. UNCHANGED ForceIsLive
  BY <1>0, HaLive
<1>2. PICK q : q = Rearmed(rec)
  OBVIOUS
<1>3. q.st = "idle" /\ q.tx = rec.tx /\ q.allowed = TRUE /\ ~Owned(rec)
  BY <1>0, <1>2 DEF Rearmed, Records, Shape, WellFormed, Owned
<1>4. ~Owned(q) /\ Permitted(q)
  BY <1>3 DEF Owned, Permitted, AtWork, Working
<1>5. rec' = q /\ saved' \in {saved, q} /\ ha'.at = "free"
  <2>1. Saves(q, Free)
    BY <1>0, <1>2, CommitSaves
  <2>. QED  BY <2>1, ReadyNext DEF Saves
<1>6. PermitInvariant'
  BY <1>4, <1>5, PermitNext
<1>7. Outline(rec)' = Outline(q) /\ Outline(saved)' \in {Outline(saved), Outline(q)}
  BY <1>5, BecomesIs
<1>8. Outline(rec).phase = "idle" /\ Outline(q) = Transaction!Nobody(FALSE)
  <2>1. Outline(rec).phase = "idle"
    BY <1>3, OutlineIs
  <2>2. Outline(q) = Transaction!Nobody(~q.allowed)
    BY <1>4, OutlineIs
  <2>. QED  BY <1>3, <2>1, <2>2
<1>9. Transaction!Rearm
  BY <1>0, <1>1, <1>7, <1>8 DEF Transaction!Rearm, Transaction!Becomes
<1>. QED  BY <1>6, <1>9 DEF TransactionStep, Transaction!Next

LEMMA MasterKept ==
    ASSUME OwnershipInvariant, PermitInvariant, RequestMasterStop
    PROVE  PermitInvariant' /\ TransactionStep
<1>0. /\ HaTyped /\ NetTyped /\ HaStep /\ ~SendArm /\ view \in Blocks /\ ha = Free
      /\ Shape(rec) /\ Permitted(rec) /\ unsaved \in BOOLEAN /\ preserved \in BOOLEAN
      /\ preserved' = (preserved \/ (view = OffGrid /\ rec'.st = "idle"))
  <2>1. ha.at = "free"
    BY DEF RequestMasterStop, Free
  <2>2. HaTyped /\ NetTyped /\ Permitted(rec)
    BY DEF OwnershipInvariant, Typed, PermitInvariant
  <2>. QED  BY <2>1, <2>2, HoldsAre DEF HaStep, SendArm, RequestMasterStop
<1>1. UNCHANGED ForceIsLive
  BY <1>0, HaLive
<1>2. PICK q \in MasterStop(rec, view) : CommitStop(q, Free, TRUE)
  BY DEF RequestMasterStop
<1>3. rec' = q /\ saved' \in {saved, q} /\ ha'.at = "free"
  <2>1. TRUE \in BOOLEAN
    OBVIOUS
  <2>2. Saves(q, Free)
    BY <1>0, <1>2, <2>1, SaveSaves, Zenon
  <2>. QED  BY <2>2, ReadyNext DEF Saves
<1>4. /\ ~q.allowed /\ Permitted(q) /\ (q.st = "idle" => ~Owned(q))
      /\ Owned(rec) => /\ Owned(q) /\ q.tx.base = rec.tx.base
                       /\ Stage(q) \in {"closing", Stage(rec)} \cap {"closing", "failed"}
      /\ Owned(q) /\ ~Owned(rec) => Stage(q) = "closing" /\ q.tx.base \in SelfUse \cup Forced
  BY <1>0, <1>2, MasterIs
<1>5. PermitInvariant'
  BY <1>3, <1>4, PermitNext
<1>6. Outline(rec)' = Outline(q) /\ Outline(saved)' \in {Outline(saved), Outline(q)}
  BY <1>3, BecomesIs
<1>7. preserved' \in {preserved, TRUE} /\ (Owned(q) => preserved' = preserved)
  BY <1>0, <1>3, <1>4
<1>8. CASE ~Owned(rec) /\ ~Owned(q)
  <2>1. Outline(rec).phase = "idle" /\ Outline(q) = Transaction!Nobody(~q.allowed)
    BY <1>8, OutlineIs
  <2>2. Outline(q) = Transaction!Nobody(TRUE)
    BY <1>4, <2>1
  <2>3. Transaction!MasterStop
    BY <1>1, <1>6, <1>7, <2>1, <2>2
    DEF Transaction!MasterStop, Transaction!Becomes, Transaction!Waives
  <2>. QED  BY <1>5, <2>3 DEF TransactionStep, Transaction!Next
<1>9. CASE ~Owned(rec) /\ Owned(q)
  <2>1. Outline(rec).phase = "idle"
    BY <1>9, OutlineIs
  <2>2. Outline(q) = [phase |-> "closing", base |-> q.tx.base, latched |-> TRUE]
    BY <1>4, <1>9 DEF Outline
  <2>3. Transaction!MasterStop
    BY <1>1, <1>4, <1>6, <1>7, <1>9, <2>1, <2>2
    DEF Transaction!MasterStop, Transaction!Becomes
  <2>. QED  BY <1>5, <2>3 DEF TransactionStep, Transaction!Next
<1>10. CASE Owned(rec)
  <2>. DEFINE s == Stage(q)
  <2>1. Outline(rec).phase = Stage(rec) /\ Outline(rec).phase # "idle"
    BY <1>10, OutlineIs
  <2>2. Outline(q) = [Outline(rec) EXCEPT !.phase = s, !.latched = TRUE]
    <3>1. Outline(rec) = [phase |-> Stage(rec), base |-> rec.tx.base, latched |-> ~rec.allowed]
      BY <1>10 DEF Outline
    <3>2. Outline(q) = [phase |-> s, base |-> rec.tx.base, latched |-> TRUE]
      BY <1>4, <1>10 DEF Outline
    <3>. HIDE DEF s
    <3>3. PICK n, b, k, l : /\ n = [Outline(rec) EXCEPT !.phase = s]
                            /\ b = rec.tx.base /\ k = ~rec.allowed /\ l = TRUE
      OBVIOUS
    <3>4. n = [phase |-> s, base |-> b, latched |-> k]
      BY <3>1, <3>3
    <3>5. [n EXCEPT !.latched = l] = [phase |-> s, base |-> b, latched |-> l]
      BY <3>4
    <3>. QED  BY <3>2, <3>3, <3>5
  <2>3. s \in {"closing", Outline(rec).phase} \cap {"closing", "failed"} /\ Owned(q)
    BY <1>4, <1>10, <2>1
  <2>. HIDE DEF s
  <2>4. Transaction!MasterStop
    BY <1>1, <1>6, <1>7, <2>1, <2>2, <2>3 DEF Transaction!MasterStop, Transaction!Becomes
  <2>. QED  BY <1>5, <2>4 DEF TransactionStep, Transaction!Next
<1>. QED  BY <1>8, <1>9, <1>10

LEMMA RestartKept ==
    ASSUME OwnershipInvariant, PermitInvariant, Restart
    PROVE  PermitInvariant' /\ TransactionStep
<1>0. /\ NetTyped /\ HaStep /\ Shape(saved) /\ ha' = Free /\ UNCHANGED preserved
      /\ rec' = Recovered(saved) /\ saved' = Recovered(saved)
  BY HoldsAre DEF OwnershipInvariant, Typed, HaStep, Restart
<1>1. UNCHANGED ForceIsLive
  <2>1. ~SendArm \/ net' = net \cup {Request("arm", arms + 1, rec.tx.b)}
    BY DEF SendArm, Send
  <2>2. arms' = arms
    BY DEF Restart
  <2>3. HaTyped
    BY DEF OwnershipInvariant, Typed
  <2>4. ~SendArm
    BY <2>2, <2>3, HoldsAre, ControllerBounds DEF SendArm
  <2>. QED  BY <1>0, <2>4, HaLive
<1>2. PICK q : q = Recovered(saved)
  OBVIOUS
<1>3. /\ q.allowed = saved.allowed /\ Permitted(q) /\ (Owned(q) <=> Owned(saved))
      /\ Owned(saved) => q.tx.base = saved.tx.base /\ Stage(q) = "closing"
  BY <1>0, <1>2, RecoveredIs
<1>4. rec' = q /\ saved' = q /\ ha'.at = "free"
  BY <1>0, <1>2, ReadyNext
<1>5. PermitInvariant'
  BY <1>3, <1>4, PermitNext
<1>6. Outline(rec)' = Outline(q) /\ Outline(saved)' = Outline(q)
  <2>1. Outline(rec)' = Outline(q) /\ Outline(saved)' = Outline(saved')
    BY <1>4, OutlineNext
  <2>. QED  BY <1>4, <2>1
<1>7. Outline(q) = IF Outline(saved).phase = "idle" THEN Outline(saved)
                   ELSE [Outline(saved) EXCEPT !.phase = "closing"]
  <2>1. CASE Owned(saved)
    <3>1. Outline(saved).phase # "idle"
      BY <2>1, OutlineIs
    <3>2. Outline(q) = [Outline(saved) EXCEPT !.phase = "closing"]
      BY <1>3, <2>1, OutlineIs
    <3>. QED  BY <3>1, <3>2
  <2>2. CASE ~Owned(saved)
    <3>1. Outline(saved).phase = "idle" /\ Outline(saved) = Transaction!Nobody(~saved.allowed)
      BY <2>2, OutlineIs
    <3>2. Outline(q) = Transaction!Nobody(~q.allowed)
      BY <1>3, <2>2, OutlineIs
    <3>. QED  BY <1>3, <3>1, <3>2
  <2>. QED  BY <2>1, <2>2
<1>8. Transaction!Restart
  BY <1>0, <1>1, <1>6, <1>7 DEF Transaction!Restart
<1>. QED  BY <1>5, <1>8 DEF TransactionStep, Transaction!Next

\* An arm leaves when the Store knows its owner, and none has been stopped.
LEMMA SendKept ==
    ASSUME OwnershipInvariant, PermitInvariant, SendArm \/ SendRestore
    PROVE  PermitInvariant' /\ TransactionStep
<1>0. /\ HaTyped /\ NetTyped /\ Linked /\ Shape(rec) /\ Permitted(rec) /\ ha \in HaRecords
      /\ HaStep /\ UNCHANGED <<rec, saved, preserved>> /\ ha' = [ha EXCEPT !.step = "await"]
  <2>1. HaTyped /\ NetTyped /\ Linked /\ Permitted(rec)
    BY DEF OwnershipInvariant, Typed, PermitInvariant
  <2>. QED
    BY <2>1, HoldsAre, Positions DEF HaStep, Dispatching, SendArm, SendRestore, Send
<1>1. PermitInvariant'
  <2>1. ha'.at = ha.at /\ ha'.pred = ha.pred
    BY <1>0 DEF HaRecords
  <2>. QED  BY <1>0, <2>1, PermitSame
<1>2. Outline(rec)' = Outline(rec) /\ Outline(saved)' = Outline(saved)
  <2>1. Outline(rec)' = Outline(rec) /\ Outline(saved)' = Outline(saved')
    BY <1>0, OutlineNext
  <2>. QED  BY <1>0, <2>1
<1>3. CASE ForceIsLive' = ForceIsLive
  BY <1>0, <1>1, <1>2, <1>3, StillTransaction
<1>4. CASE SendArm
  <2>1. saved = rec /\ rec.st \in {"starting", "retargeting"}
    BY <1>0, <1>4, Positions DEF Linked, SendArm
  <2>2. Owned(rec) /\ Stage(rec) \in {"opening", "driving"} /\ rec.allowed
    BY <1>0, <2>1, AtWorkIs DEF Working, Permitted, AtWork
  <2>3. /\ Outline(rec).phase \in {"opening", "driving"} /\ Outline(rec).latched = FALSE
        /\ Outline(saved) = Outline(rec)
    BY <2>1, <2>2, OutlineIs
  <2>4. ForceIsLive' = ForceIsLive \/ ForceIsLive' = TRUE
    <3>1. ForceIsLive => ForceIsLive'
      <4>1. UNCHANGED <<driven, bus>> /\ net \subseteq net'
        BY <1>4, HaStill DEF SendArm, Send, espVars, espOwn
      <4>. QED  BY <4>1 DEF ForceIsLive
    <3>2. ForceIsLive \in BOOLEAN /\ ForceIsLive' \in BOOLEAN
      BY DEF ForceIsLive
    <3>. QED  BY <3>1, <3>2
  <2>5. CASE ForceIsLive' = TRUE
    <3>1. Transaction!Force
      BY <1>0, <1>2, <2>3, <2>5 DEF Transaction!Force
    <3>. QED  BY <1>1, <3>1 DEF TransactionStep, Transaction!Next
  <2>. QED  BY <1>3, <2>4, <2>5
<1>5. CASE ~SendArm
  BY <1>0, <1>3, <1>5, HaLive
<1>. QED  BY <1>4, <1>5

\* The firmware and the inverter change no record, and what is live only ends.
LEMMA FirmwareKept ==
    ASSUME OwnershipInvariant, PermitInvariant, Firmware \/ OutsideChange \/ EspRestart
    PROVE  PermitInvariant' /\ TransactionStep
<1>1. (ForceIsLive' => ForceIsLive) /\ UNCHANGED <<rec, saved, ha, preserved>>
  BY FirmwareLive DEF OwnershipInvariant, HaIdle
<1>2. PermitInvariant'
  BY <1>1, PermitSame
<1>3. Outline(rec)' = Outline(rec) /\ Outline(saved)' = Outline(saved)
  <2>1. Outline(rec)' = Outline(rec) /\ Outline(saved)' = Outline(saved')
    BY <1>1, OutlineNext
  <2>. QED  BY <1>1, <2>1
<1>4. ForceIsLive' = ForceIsLive \/ ForceIsLive' = FALSE
  <2>1. ForceIsLive \in BOOLEAN /\ ForceIsLive' \in BOOLEAN
    BY DEF ForceIsLive
  <2>. QED  BY <1>1, <2>1
<1>5. CASE ForceIsLive' = FALSE
  <2>1. Transaction!Subside
    BY <1>1, <1>3, <1>5 DEF Transaction!Subside
  <2>. QED  BY <1>2, <2>1 DEF TransactionStep, Transaction!Next
<1>. QED  BY <1>1, <1>2, <1>3, <1>4, <1>5, StillTransaction

\* A reading ages the transactions and no more.
LEMMA AgedOutline ==
    ASSUME NEW r, Shape(r), NEW lost \in BOOLEAN, NEW q, q = Elder(r, lost)
    PROVE  /\ Outline(q) = Outline(r) /\ (Permitted(r) => Permitted(q))
           /\ r.tx # None => q.tx.rb = r.tx.rb
<1>0. /\ r \in Records /\ q.st = r.st /\ (Owned(q) <=> Owned(r))
      /\ q.allowed = r.allowed /\ q.tx = AgedTx(r.tx, lost)
  <2>1. r \in Records /\ q.st = r.st /\ (Owned(q) <=> Owned(r))
    BY AgedRecord DEF Shape
  <2>. QED  BY <2>1 DEF Elder, Records
<1>1. r.tx # None => q.tx.base = r.tx.base /\ q.tx.rb = r.tx.rb
  BY <1>0, ShapeTx, AgedTxs
<1>2. Owned(r) => r.tx # None
  BY DEF Owned
<1>3. Stage(q) = Stage(r)
  BY <1>0, <1>1, <1>2 DEF Stage
<1>4. Outline(q) = Outline(r)
  BY <1>0, <1>1, <1>2, <1>3, OutlineIs
<1>5. r.st = "selected" => r.tx # None
  BY DEF Shape
<1>. QED  BY <1>0, <1>1, <1>2, <1>4, <1>5 DEF Permitted

LEMMA ReceivedKept ==
    ASSUME OwnershipInvariant, PermitInvariant, NEW lost \in BOOLEAN, ReadingReceived(lost)
    PROVE  PermitInvariant' /\ TransactionStep
<1>0. /\ HaTyped /\ Shape(rec) /\ Shape(saved) /\ rec \in Records /\ ha \in HaRecords
      /\ Permitted(rec) /\ Unfailed
  BY HoldsAre, Positions DEF OwnershipInvariant, Typed, PermitInvariant
<1>1. UNCHANGED <<net, bus, driven, preserved>>
  BY DEF ReadingReceived
<1>2. ForceIsLive' = ForceIsLive
  BY <1>1 DEF ForceIsLive
<1>3. CASE ~lag
  <2>1. UNCHANGED <<rec, saved, ha>>
    BY <1>3 DEF ReadingReceived
  <2>2. Outline(rec)' = Outline(rec) /\ Outline(saved)' = Outline(saved')
    BY <2>1, OutlineNext
  <2>. QED  BY <1>1, <1>2, <2>1, <2>2, PermitSame, StillTransaction
<1>4. CASE lag
  <2>1. PICK q : q = Elder(rec, lost)
    OBVIOUS
  <2>2. PICK s : s = Elder(saved, lost)
    OBVIOUS
  <2>3. rec' = q /\ saved' = s /\ ha' = [ha EXCEPT !.pred = AgedTx(ha.pred, lost)]
    BY <1>4, <2>1, <2>2 DEF ReadingReceived, Elder
  <2>4. /\ Outline(q) = Outline(rec) /\ Permitted(q) /\ Outline(s) = Outline(saved)
        /\ rec.tx # None => q.tx.rb = rec.tx.rb
    BY <1>0, <2>1, <2>2, AgedOutline
  <2>5. ha'.at = ha.at /\ ha'.pred = AgedTx(ha.pred, lost)
    BY <1>0, <2>3 DEF HaRecords
  <2>6. ha.at = "restore" => rec.tx # None
    BY <1>0, Positions DEF Owned
  <2>7. ha.at = "retarget" => ha'.pred.rb = ha.pred.rb
    BY <1>0, <2>5, Positions, AgedTxs
  <2>8. PermitInvariant'
    BY <1>0, <2>3, <2>4, <2>5, <2>6, <2>7, PermitNext DEF Unfailed
  <2>9. Outline(rec)' = Outline(q) /\ Outline(saved)' = Outline(saved')
    BY <2>3, OutlineNext
  <2>. QED  BY <1>1, <1>2, <2>3, <2>4, <2>8, <2>9, StillTransaction
<1>. QED  BY <1>3, <1>4

LEMMA TransactionKeeps ==
    OwnershipInvariant /\ PermitInvariant /\ [Next]_vars => PermitInvariant' /\ TransactionStep
<1>. SUFFICES ASSUME OwnershipInvariant, PermitInvariant, [Next]_vars
              PROVE  PermitInvariant' /\ TransactionStep
  OBVIOUS
<1>0. OwnershipInvariant'
  BY OwnershipStep
<1>1. CASE Start
  BY <1>0, <1>1, StartKept
<1>2. CASE Rearm
  BY <1>2, RearmKept
<1>3. CASE RequestMasterStop
  BY <1>3, MasterKept
<1>4. CASE Restart
  BY <1>4, RestartKept
<1>5. CASE SendArm \/ SendRestore
  BY <1>5, SendKept
<1>6. CASE HaStep
  BY <1>0, <1>1, <1>2, <1>3, <1>4, <1>5, <1>6, MovingKept
<1>7. CASE Firmware \/ OutsideChange \/ EspRestart
  BY <1>7, FirmwareKept
<1>8. CASE \E lost \in BOOLEAN : ReadingReceived(lost)
  BY <1>8, ReceivedKept
<1>9. CASE UNCHANGED vars
  <2>1. UNCHANGED <<rec, saved, ha, net, bus, driven, preserved>>
    BY <1>9 DEF vars, haVars, espVars, espOwn
  <2>2. Outline(rec)' = Outline(rec) /\ Outline(saved)' = Outline(saved')
    BY <2>1, OutlineNext
  <2>3. ForceIsLive' = ForceIsLive
    BY <2>1 DEF ForceIsLive
  <2>. QED  BY <2>1, <2>2, <2>3, PermitSame, StillTransaction
<1>. QED  BY <1>6, <1>7, <1>8, <1>9 DEF Next, HaStep

LEMMA InitTransaction == Init => PermitInvariant /\ Transaction!Init
<1>. SUFFICES ASSUME Init PROVE PermitInvariant /\ Transaction!Init
  OBVIOUS
<1>1. /\ rec.st = "idle" /\ rec.tx = None /\ rec.allowed = TRUE /\ saved = rec
      /\ ha.at = "free" /\ preserved = FALSE /\ driven = FALSE /\ bus = <<>> /\ net = {}
  BY DEF Init, IdleRecord, Free
<1>2. PermitInvariant
  BY <1>1 DEF PermitInvariant, Permitted, Unfailed, AtWork, Working, Owned
<1>3. Outline(rec) = Transaction!Nobody(FALSE)
  <2>1. ~Owned(rec)
    BY <1>1 DEF Owned
  <2>2. Outline(rec) = Transaction!Nobody(~rec.allowed)
    BY <2>1, OutlineIs
  <2>. QED  BY <1>1, <2>2
<1>4. ForceIsLive = FALSE
  <2>1. ~\E i \in 1..Len(bus) : bus[i] \in Forced
    BY <1>1
  <2>. QED  BY <1>1, <2>1 DEF ForceIsLive
<1>. QED  BY <1>1, <1>2, <1>3, <1>4 DEF Transaction!Init

\* The controller implements the promise of OwnedTransaction (TransactionSpec): in
\* whatever order readings, timeouts, refusals, failing saves, restarts and a MASTER
\* STOP come, every step of async_reconcile, of its dispatches, of async_master_stop
\* and of recover is one the promise allows, or none at all.
THEOREM TransactionKept == Spec => TransactionSpec
<1>. QED
  BY InitOwnership, InitTransaction, OwnershipStep, TransactionKeeps, PTL
  DEF Spec, TransactionSpec, Transaction!Spec, TransactionStep

\* A step of OwnedTransaction, whoever takes it, leaves no force without its owner.
LEMMA RecordedKept == Transaction!Recorded /\ Transaction!Next => Transaction!Recorded'
<1>. DEFINE own == Outline(rec)
            stored == Outline(saved)
<1>. SUFFICES ASSUME Transaction!Recorded, Transaction!Next, ForceIsLive', ~preserved'
              PROVE  /\ own'.phase # "idle" /\ stored'.phase # "idle"
                     /\ own'.base = stored'.base
  BY DEF Transaction!Recorded
<1>1. ForceIsLive /\ ~preserved =>
          own.phase # "idle" /\ stored.phase # "idle" /\ own.base = stored.base
  BY DEF Transaction!Recorded
<1>2. /\ own = [phase |-> own.phase, base |-> own.base, latched |-> own.latched]
      /\ stored = [phase |-> stored.phase, base |-> stored.base, latched |-> stored.latched]
  BY DEF Outline
<1>3. \A phase : /\ [own EXCEPT !.phase = phase].phase = phase
                 /\ [own EXCEPT !.phase = phase].base = own.base
  BY <1>2
<1>4. CASE Transaction!Force
  <2>1. own.phase # "idle" /\ own' = own /\ stored' = own
    BY <1>4 DEF Transaction!Force
  <2>. QED  BY <2>1
<1>5. CASE Transaction!Subside
  BY <1>5 DEF Transaction!Subside
<1>6. CASE Transaction!Drive \/ Transaction!Close \/ Transaction!GiveUp
  <2>1. PICK phase \in {"driving", "closing", "failed"} : Transaction!Enters(phase)
    BY <1>6 DEF Transaction!Drive, Transaction!Close, Transaction!GiveUp
  <2>2. /\ own' = [own EXCEPT !.phase = phase] /\ stored' \in {stored, own'}
        /\ ForceIsLive /\ ~preserved
    BY <2>1 DEF Transaction!Enters, Transaction!Becomes
  <2>. QED  BY <1>1, <1>3, <2>2
<1>7. CASE Transaction!Open \/ Transaction!Rearm
  <2>1. own.phase = "idle"
    BY <1>7 DEF Transaction!Open, Transaction!Rearm
  <2>2. UNCHANGED <<ForceIsLive, preserved>>
    BY <1>7 DEF Transaction!Open, Transaction!Rearm
  <2>. QED  BY <1>1, <2>1, <2>2
<1>8. CASE Transaction!Release
  BY <1>8 DEF Transaction!Release
<1>9. CASE Transaction!MasterStop
  <2>1. ForceIsLive /\ ~preserved
    BY <1>9 DEF Transaction!MasterStop, Transaction!Waives
  <2>2. PICK phase \in {"closing", "failed"} :
            Transaction!Becomes([own EXCEPT !.phase = phase, !.latched = TRUE])
    BY <1>1, <1>9, <2>1 DEF Transaction!MasterStop
  <2>3. own' = [own EXCEPT !.phase = phase, !.latched = TRUE] /\ stored' \in {stored, own'}
    BY <2>2 DEF Transaction!Becomes
  <2>4. own'.phase = phase /\ own'.base = own.base
    BY <1>2, <2>3
  <2>. QED  BY <1>1, <2>1, <2>2, <2>3, <2>4
<1>10. CASE Transaction!Save
  <2>1. own' = own /\ stored' = own /\ ForceIsLive /\ ~preserved
    BY <1>10 DEF Transaction!Save
  <2>. QED  BY <1>1, <2>1
<1>11. CASE Transaction!Restart
  <2>1. stored.phase # "idle" /\ own' = [stored EXCEPT !.phase = "closing"] /\ stored' = own'
    BY <1>1, <1>11 DEF Transaction!Restart
  <2>2. own'.phase = "closing"
    BY <1>2, <2>1
  <2>. QED  BY <2>1, <2>2
<1>. QED
  BY <1>4, <1>5, <1>6, <1>7, <1>8, <1>9, <1>10, <1>11 DEF Transaction!Next

\* What OwnedTransaction promises is enough (Recorded): whoever implements its steps
\* has, while anything forced may act, an owner in RAM and in the Store, of one base.
THEOREM PromiseSuffices == Transaction!Spec => []Transaction!Recorded
<1>1. Transaction!Init => Transaction!Recorded
  BY DEF Transaction!Init, Transaction!Recorded
<1>2. UNCHANGED <<Outline(rec), Outline(saved), ForceIsLive, preserved>> /\ Transaction!Recorded
          => Transaction!Recorded'
  BY DEF Transaction!Recorded
<1>. QED  BY <1>1, <1>2, RecordedKept, PTL DEF Transaction!Spec

\* While anything forced may act, the record in RAM and the one in the Store have an
\* owner, and of one and the same base (Recorded of OwnedTransaction, for the records
\* of the active controller): a restart restores what the owner found.
THEOREM OneBase == Spec => []Transaction!Recorded
<1>. QED  BY TransactionKept, PromiseSuffices, PTL DEF TransactionSpec
=============================================================================
