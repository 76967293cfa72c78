------------------------------- MODULE EspLease -------------------------------
(***************************************************************************)
(* The control lease kept by the ESP32 firmware (packages/settings.yaml).   *)
(*                                                                         *)
(* Home Assistant may drive the inverter into a forced mode (4 charge, 5    *)
(* discharge) only under a lease: a record of the block it writes, of the   *)
(* Self-Use block to fall back to and of the forced block it replaces,      *)
(* saved in flash before the write leaves, with a soft expiry that renewals *)
(* push and a hard deadline that nothing pushes.  When the lease runs out,  *)
(* or after a power loss, the firmware itself restores the fall-back block, *)
(* but only over a block it recognises as its own.                         *)
(*                                                                         *)
(* Time is counted down: soft and hard are what is left of the expiry and   *)
(* the deadline, ages count up and saturate one past the last value a guard *)
(* tells apart.  A block stands for the seven registers 4300-4306, a lease  *)
(* identity for (session, lease id, transaction, command generation): the   *)
(* lease id is drawn once per command generation, so (session, generation)  *)
(* stands for it.  Hashes and CRCs are taken to be collision free.          *)
(***************************************************************************)
EXTENDS Integers, Sequences

CONSTANTS
    SelfUseBlocks,   \* blocks with mode 0, the only legal fall-back
    ForcedBlocks,    \* blocks with mode 4 or 5, written under a lease only
    OtherBlocks,     \* any other block: Off-Grid, modes set by the user
    OddBlocks,       \* blocks with a register out of the range the barrier accepts
    NoBlock,         \* "no reading since boot", "no predecessor"
    Clear,           \* the all-zero record
    Junk,            \* a stored record whose schema or CRC does not check
    Poll,            \* an FC03 read of 4300-4306 waiting in the Modbus queue
    Sessions, Txs,   \* session and transaction identifiers
    MaxGen,          \* bound on command generations
    MaxSeq,          \* bound on the renewals of one lease
    Nonces,          \* nonces the firmware may draw
    TTL,             \* 120 s, the longest soft lease
    MaxHard,         \* 86400 s, the longest hard deadline
    ArmNonceAge,     \* 60 s, the oldest nonce an arm may carry
    RenewNonceAge,   \* 120 s, the oldest nonce a renewal may carry
    Fresh,           \* 15 s, the oldest reading a decision may use
    MaxMishaps       \* bound on power losses, flash faults and outside acts

Blocks == SelfUseBlocks \cup ForcedBlocks \cup OtherBlocks
Ids == [session : Sessions, tx : Txs, gen : 1..MaxGen]
Leases == [id : Ids, active : ForcedBlocks, fallback : SelfUseBlocks,
           pred : ForcedBlocks \cup {NoBlock}]
Proofs == [kind : 0..3, lease : Leases \cup {Clear}]
ArmRequests == [id : Ids, block : Blocks, hard : 1..MaxHard,
                nonce : Nonces, current : BOOLEAN]
RenewRequests == [id : Ids, block : Blocks, seq : 1..MaxSeq, nonce : Nonces,
                  auth : 1..MaxHard, authorized : BOOLEAN]

ASSUME BlocksAssumption ==
    /\ SelfUseBlocks \cap ForcedBlocks = {}
    /\ SelfUseBlocks \cap OtherBlocks = {}
    /\ ForcedBlocks \cap OtherBlocks = {}
    /\ OddBlocks \subseteq SelfUseBlocks \cup OtherBlocks
    /\ NoBlock \notin Blocks /\ Poll \notin Blocks /\ Poll # NoBlock
ASSUME MarksAssumption ==
    Clear \notin Leases /\ Junk \notin Leases /\ Clear # Junk /\ Junk \notin Proofs
ASSUME BoundsAssumption ==
    /\ MaxGen \in Nat /\ MaxSeq \in Nat /\ MaxMishaps \in Nat
    /\ TTL \in Nat \ {0} /\ MaxHard \in Nat \ {0} /\ Fresh \in Nat
    /\ ArmNonceAge \in Nat /\ RenewNonceAge \in Nat
    /\ ArmNonceAge <= RenewNonceAge

VARIABLES
    st,         \* ems_control_lease_state
    rec,        \* ems_control_lease_record in RAM
    ident,      \* ems_control_identity_record: the lease it was saved with
    term,       \* ems_control_terminal_record
    soft,       \* time to ems_control_lease_expiry_ms
    hard,       \* time to ems_control_lease_hard_deadline_ms
    seq,        \* ems_control_lease_last_sequence
    nonce,      \* the current nonce, its age and whether it is valid
    prev,       \* ems_control_lease_previous_nonce
    durable,    \* the lease record in flash
    dIdent,     \* the identity sidecar in flash
    dTerm,      \* the terminal proof sidecar in flash
    barrier,    \* the acknowledgement barrier of the last queued write
    seen,       \* the block of the last FC03 reading since boot
    readAge,    \* age of that reading
    bus,        \* Modbus commands not yet served, in order
    phys,       \* the block the inverter holds
    driven,     \* history: phys was put there by a leased write
    last,       \* history: the lease that held the record in RAM last
    mishaps     \* number of mishaps so far

ramVars == <<st, rec, ident, term, soft, hard, seq, nonce, prev>>
flashVars == <<durable, dIdent, dTerm>>
readVars == <<barrier, seen, readAge>>
plantVars == <<bus, phys, driven>>
vars == <<ramVars, flashVars, readVars, plantVars, last, mishaps>>

States == {"disarmed", "pending", "confirmed", "expired", "restoring", "hold"}
Armed == {"pending", "confirmed"}
Live == {"pending", "confirmed", "expired", "restoring"}

BarrierOff == [on |-> FALSE, expect |-> NoBlock, mism |-> FALSE]
Retired == [kind |-> 0, lease |-> Clear]
MinOf(S) == CHOOSE x \in S : \A y \in S : x <= y
DecWrapping(n) == n - 1
Dec(n) == IF n = 0 THEN 0 ELSE n - 1

Init ==
    /\ st = "disarmed" /\ rec = Clear /\ ident = Clear /\ term = Retired
    /\ soft = 0 /\ hard = 0 /\ seq = 0
    /\ prev \in Nonces
    /\ nonce = [val |-> prev, age |-> RenewNonceAge + 1, ok |-> FALSE]
    /\ durable = Clear /\ dIdent = Clear /\ dTerm = Retired
    /\ barrier = BarrierOff /\ seen = NoBlock /\ readAge = Fresh + 1
    /\ bus = <<>> /\ phys \in SelfUseBlocks \cup OtherBlocks
    /\ driven = FALSE /\ last = Clear /\ mishaps = 0

Mishap == mishaps < MaxMishaps /\ mishaps' = mishaps + 1
SeenFresh == readAge <= Fresh
NonceCurrent(n, maxAge) == nonce.ok /\ n = nonce.val /\ nonce.age <= maxAge
Invalidated == [nonce EXCEPT !.ok = FALSE, !.age = RenewNonceAge + 1]
NewNonce(n) ==
    /\ n \notin {nonce.val, prev}
    /\ nonce' = [val |-> n, age |-> 0, ok |-> TRUE]

-----------------------------------------------------------------------------
(* The Modbus side. *)

\* The write script, past its guards: expect an acknowledgement, queue FC16.
Queue(b) ==
    /\ barrier' = [on |-> TRUE, expect |-> b, mism |-> FALSE]
    /\ bus' = Append(bus, b)

PollDue ==
    /\ \A i \in 1..Len(bus) : bus[i] # Poll
    /\ bus' = Append(bus, Poll)
    /\ UNCHANGED <<ramVars, flashVars, readVars, phys, driven, last, mishaps>>

WriteApplied ==
    /\ bus # <<>> /\ Head(bus) # Poll
    /\ bus' = Tail(bus) /\ phys' = Head(bus)
    /\ driven' = (Head(bus) \in ForcedBlocks)
    /\ UNCHANGED <<ramVars, flashVars, readVars, last, mishaps>>

\* A command the inverter does not answer is dropped after the retries.
CommandLost ==
    /\ bus # <<>> /\ bus' = Tail(bus)
    /\ UNCHANGED <<ramVars, flashVars, readVars, phys, driven, last, mishaps>>

\* The user, another Modbus master, the cloud or the inverter itself.
OutsideChange ==
    /\ Mishap
    /\ phys' \in Blocks /\ driven' = FALSE
    /\ UNCHANGED <<ramVars, flashVars, readVars, bus, last>>

\* An unleased write of a whole block; the script refuses modes 4 and 5 and a
\* register out of range.
NeutralWrite(b) ==
    /\ Mishap
    /\ b \notin ForcedBlocks \cup OddBlocks /\ ~barrier.on /\ SeenFresh
    /\ Queue(b)
    /\ UNCHANGED <<ramVars, flashVars, seen, readAge, phys, driven, last>>

-----------------------------------------------------------------------------
(* The end of a lease: a terminal proof of the exact lease, then the erasure. *)

Proof(kind) == [kind |-> kind, lease |-> rec]
ProofSaved(kind) ==
    IF ident = rec THEN term' = Proof(kind) /\ dTerm' = Proof(kind)
                   ELSE UNCHANGED <<term, dTerm>>
ProofLost(kind) ==
    ident = rec /\ term' = term /\ dTerm' \in {dTerm, Proof(kind), Junk}
Erased == durable' = Clear /\ st' = "disarmed"
EraseFailed == durable' \in {durable, Clear, Junk} /\ st' = "hold"

ClearLease(kind) ==
    /\ rec' = Clear /\ soft' = 0 /\ hard' = 0 /\ seq' = 0
    /\ \/ ProofSaved(kind) /\ Erased /\ UNCHANGED mishaps
       \/ ProofLost(kind) /\ Erased /\ Mishap
       \/ (ProofSaved(kind) \/ ProofLost(kind)) /\ EraseFailed /\ Mishap
    /\ UNCHANGED <<ident, prev, dIdent, last>>

\* A live lease that stops being armed keeps its record and nothing else.
Expire ==
    /\ st' = "expired" /\ nonce' = Invalidated
    /\ soft' = 0 /\ hard' = 0 /\ seq' = 0
    /\ UNCHANGED <<rec, ident, term, prev, flashVars, last, mishaps>>

-----------------------------------------------------------------------------
(* The FC03 handler of register 4306: barrier first, then the lease. *)

BarrierDroppedOnAnyReading(b) == BarrierOff
\* A reading out of range neither confirms the write nor counts as another block.
BarrierAfter(b) ==
    IF barrier.on /\ b \in OddBlocks THEN barrier
    ELSE IF ~barrier.on \/ b = barrier.expect \/ barrier.mism
    THEN BarrierOff ELSE [barrier EXCEPT !.mism = TRUE]

\* What the handler decides about the lease once no write is pending.
PollKind(b) ==
    CASE st = "pending" /\ b \notin {rec.active, rec.pred} -> 3
      [] st = "confirmed" /\ b \notin {rec.active, rec.pred} -> 2
      [] st = "restoring" /\ b = rec.fallback -> 1
      [] st = "restoring" /\ b \notin {rec.fallback, rec.active, rec.pred} -> 2
      [] OTHER -> 0

PollAnswered ==
    /\ bus # <<>> /\ Head(bus) = Poll
    /\ bus' = Tail(bus) /\ seen' = phys /\ readAge' = 0
    /\ barrier' = BarrierAfter(phys)
    /\ UNCHANGED <<phys, driven>>

PollQuiet ==
    /\ PollAnswered
    /\ \/ BarrierAfter(phys).on
       \/ st \in {"disarmed", "expired", "hold"}
       \/ st = "confirmed" /\ phys = rec.active
    /\ UNCHANGED <<ramVars, flashVars, last, mishaps>>

PollConfirms ==
    /\ PollAnswered /\ ~BarrierAfter(phys).on
    /\ st = "pending" /\ phys = rec.active
    /\ st' = "confirmed"
    /\ UNCHANGED <<rec, ident, term, soft, hard, seq, nonce, prev, flashVars,
                   last, mishaps>>

\* The predecessor is back, or the restore did not take.
PollReverts ==
    /\ PollAnswered /\ ~BarrierAfter(phys).on
    /\ \/ st \in Armed /\ phys = rec.pred /\ phys # rec.active /\ Expire
       \/ /\ st = "restoring" /\ phys \in {rec.active, rec.pred}
          /\ st' = "expired"
          /\ UNCHANGED <<rec, ident, term, soft, hard, seq, nonce, prev,
                         flashVars, last, mishaps>>

PollClears ==
    /\ PollAnswered /\ ~BarrierAfter(phys).on
    /\ PollKind(phys) # 0 /\ ClearLease(PollKind(phys))
    /\ nonce' = Invalidated

-----------------------------------------------------------------------------
(* The local one-second timer. *)

Overdue == st \in Armed /\ (soft = 0 \/ hard = 0)
TimerForgetsExpired == Overdue /\ ~barrier.on /\ SeenFresh
TimerActs == (Overdue \/ st = "expired") /\ ~barrier.on /\ SeenFresh
TimerNonce == nonce' = IF Overdue THEN Invalidated ELSE nonce

TimerExpires ==
    /\ Overdue /\ (barrier.on \/ ~SeenFresh)
    /\ Expire
    /\ UNCHANGED <<readVars, plantVars>>

TimerKind ==
    CASE TimerActs /\ seen = rec.fallback -> 1
      [] TimerActs /\ seen \notin {rec.fallback, rec.active, rec.pred} -> 2
      [] OTHER -> 0

TimerClears ==
    /\ TimerKind # 0 /\ ClearLease(TimerKind) /\ TimerNonce
    /\ UNCHANGED <<readVars, plantVars>>

TimerRestores ==
    /\ TimerActs /\ seen \in {rec.active, rec.pred}
    /\ rec.fallback \notin OddBlocks /\ Queue(rec.fallback) /\ TimerNonce
    /\ st' = "restoring" /\ soft' = 0 /\ hard' = 0 /\ seq' = 0
    /\ UNCHANGED <<rec, ident, term, prev, flashVars, seen, readAge,
                   phys, driven, last, mishaps>>

\* The write script refused the restore: the block the lease was armed over has a
\* register out of range, the hardware is not ready, the topology.
TimerHolds ==
    /\ TimerActs /\ seen \in {rec.active, rec.pred}
    /\ TimerNonce
    /\ \/ rec.fallback \in OddBlocks /\ UNCHANGED mishaps
       \/ Mishap
    /\ st' = "hold" /\ soft' = 0 /\ hard' = 0 /\ seq' = 0
    /\ UNCHANGED <<rec, ident, term, prev, flashVars, readVars, plantVars, last>>

-----------------------------------------------------------------------------
(* The lease actions of the native API. *)

Challenge(n) ==
    /\ NewNonce(n)
    /\ UNCHANGED <<st, rec, ident, term, soft, hard, seq, prev, flashVars,
                   readVars, plantVars, last, mishaps>>

Retarget == st = "confirmed"

RetargetAllowed(m) ==
    /\ rec.id.session = m.id.session /\ rec.id.tx = m.id.tx
    /\ m.id.gen > rec.id.gen
    /\ seen = rec.active /\ hard > 0

ArmAllowed(m) ==
    /\ st \in {"disarmed", "confirmed"}
    /\ NonceCurrent(m.nonce, ArmNonceAge)
    /\ m.hard > nonce.age
    /\ m.block \in ForcedBlocks
    /\ m.current /\ SeenFresh
    /\ IF Retarget THEN RetargetAllowed(m) ELSE seen \in SelfUseBlocks

LeaseWithoutPredecessor(m) ==
    [id |-> m.id, active |-> m.block,
     fallback |-> IF Retarget THEN rec.fallback ELSE seen, pred |-> NoBlock]
LeaseOf(m) ==
    [id |-> m.id, active |-> m.block,
     fallback |-> IF Retarget THEN rec.fallback ELSE seen,
     pred |-> IF Retarget THEN seen ELSE NoBlock]

\* The deadline is anchored when the nonce was issued; a retarget never moves it.
DeadlineMoved(m) == m.hard - nonce.age
DeadlineOf(m) ==
    IF Retarget THEN MinOf({m.hard - nonce.age, hard}) ELSE m.hard - nonce.age

\* The proof of the previous lease goes before the first save of a new one.
ProofKept == UNCHANGED <<term, dTerm>>
RetireProof == term' = Retired /\ dTerm' = Retired

ArmAccepted(m, n) ==
    /\ ArmAllowed(m) /\ ~barrier.on
    /\ RetireProof
    /\ ident' = LeaseOf(m) /\ dIdent' = LeaseOf(m)
    /\ rec' = LeaseOf(m) /\ durable' = LeaseOf(m) /\ last' = LeaseOf(m)
    /\ st' = "pending"
    /\ hard' = DeadlineOf(m) /\ soft' = MinOf({TTL, DeadlineOf(m)}) /\ seq' = 0
    /\ Queue(m.block) /\ NewNonce(n)
    /\ UNCHANGED <<prev, seen, readAge, phys, driven, mishaps>>

\* One of the three saves fails: nothing is sent, RAM keeps the old lease.
ArmStoreFailed(m) ==
    /\ ArmAllowed(m) /\ Mishap
    /\ \/ /\ dTerm' \in {dTerm, Retired, Junk}
          /\ UNCHANGED <<term, dIdent, durable>>
       \/ /\ dTerm' = Retired /\ term' = Retired
          /\ \/ dIdent' \in {dIdent, LeaseOf(m), Junk} /\ UNCHANGED durable
             \/ dIdent' = LeaseOf(m) /\ durable' \in {durable, LeaseOf(m), Junk}
    /\ UNCHANGED <<st, rec, ident, soft, hard, seq, nonce, prev, readVars, plantVars,
                   last>>

\* The saves succeed and the write script refuses: put the old lease back.
ArmRolledBack(m) ==
    /\ ArmAllowed(m)
    /\ \/ barrier.on /\ UNCHANGED mishaps
       \/ Mishap
    /\ RetireProof
    /\ nonce' = Invalidated
    /\ UNCHANGED <<last, st, rec, soft, hard, seq, prev, readVars, plantVars>>
    /\ durable' = rec
    /\ IF Retarget THEN ident' = ident /\ dIdent' = ident
                   ELSE ident' = LeaseOf(m) /\ dIdent' = LeaseOf(m)

\* As above, and a save of the roll-back fails too.
ArmRollbackFailed(m) ==
    /\ ArmAllowed(m) /\ Mishap
    /\ RetireProof
    /\ nonce' = Invalidated
    /\ \/ /\ st' = "hold" /\ soft' = 0 /\ hard' = 0 /\ seq' = 0
          /\ durable' \in {rec, LeaseOf(m), Junk}
          /\ ident' = LeaseOf(m) /\ dIdent' = LeaseOf(m)
       \/ /\ Retarget /\ durable' = rec
          /\ ident' = Clear /\ dIdent' \in {ident, LeaseOf(m), Junk}
          /\ UNCHANGED <<st, soft, hard, seq>>
    /\ UNCHANGED <<rec, prev, readVars, plantVars, last>>

\* The request is authorized if what it claims of Home Assistant and of the
\* snapshot it was made on is acceptable: the policy, and a generation not ahead.
RenewValid(m) ==
    /\ st = "confirmed" /\ m.authorized /\ soft > 0 /\ hard > 0
    /\ m.id = rec.id /\ m.block = rec.active
    /\ seen = rec.active /\ SeenFresh

\* A repeat of the renewal accepted last is answered again and changes nothing.
RenewDuplicate(m) == RenewValid(m) /\ m.seq = seq /\ m.nonce = prev

\* The policy end is anchored when the nonce was issued, whatever the delay.
RenewedWithoutPolicy(m) == MinOf({TTL, hard})
RenewedSoft(m) == MinOf({TTL, hard, m.auth - nonce.age})

RenewAccepted(m, n) ==
    /\ RenewValid(m) /\ m.seq = seq + 1
    /\ NonceCurrent(m.nonce, RenewNonceAge) /\ m.auth > nonce.age
    /\ soft' = RenewedSoft(m)
    /\ seq' = m.seq /\ prev' = nonce.val /\ NewNonce(n)
    /\ UNCHANGED <<st, rec, ident, term, hard, flashVars, readVars, plantVars,
                   last, mishaps>>

-----------------------------------------------------------------------------
(* Power loss: RAM and the queued commands go, flash stays. *)

\* on_boot, with what flash holds by then
BootState(d) ==
    IF d = Clear THEN "disarmed" ELSE IF d = Junk THEN "hold" ELSE "expired"

Boot ==
    /\ st' = BootState(durable')
    /\ rec' = IF durable' = Junk THEN Clear ELSE durable'
    /\ ident' = IF dIdent' = Junk THEN Clear ELSE dIdent'
    /\ term' = IF dTerm' = Junk THEN Retired ELSE dTerm'
    /\ soft' = 0 /\ hard' = 0 /\ seq' = 0
    /\ nonce' = Invalidated
    /\ barrier' = BarrierOff /\ seen' = NoBlock /\ readAge' = Fresh + 1
    /\ bus' = <<>>
    /\ \/ UNCHANGED <<phys, driven>>
       \/ /\ bus # <<>> /\ Head(bus) # Poll          \* the frame on the wire
          /\ phys' = Head(bus) /\ driven' = (Head(bus) \in ForcedBlocks)
    /\ last' = IF rec' = Clear THEN last ELSE rec'
    /\ UNCHANGED prev

PowerLoss ==
    Mishap /\ UNCHANGED flashVars /\ Boot

\* ... after one, two or three saves of an arm
PowerLossInArm(m) ==
    /\ ArmAllowed(m) /\ Mishap
    /\ dTerm' = Retired
    /\ \/ UNCHANGED <<dIdent, durable>>
       \/ dIdent' = LeaseOf(m) /\ durable' \in {durable, LeaseOf(m)}
    /\ Boot

\* ... after the proof of a lease and before its erasure
PowerLossInClear ==
    /\ \/ TimerKind # 0 /\ dTerm' = Proof(TimerKind)
       \/ /\ bus # <<>> /\ Head(bus) = Poll /\ ~BarrierAfter(phys).on
          /\ PollKind(phys) # 0 /\ dTerm' = Proof(PollKind(phys))
    /\ ident = rec /\ Mishap
    /\ UNCHANGED <<durable, dIdent>>
    /\ Boot

-----------------------------------------------------------------------------
Older(age, max) == IF age > max THEN age ELSE age + 1

Tick ==
    /\ soft' = Dec(soft) /\ hard' = Dec(hard)
    /\ nonce' = [nonce EXCEPT !.age = Older(@, RenewNonceAge)]
    /\ readAge' = Older(readAge, Fresh)
    /\ UNCHANGED <<st, rec, ident, term, seq, prev, flashVars, barrier, seen,
                   plantVars, last, mishaps>>

Modbus == PollDue \/ WriteApplied \/ CommandLost
    \/ PollQuiet \/ PollConfirms \/ PollReverts \/ PollClears
Timer == TimerExpires \/ TimerClears \/ TimerRestores \/ TimerHolds
Outside == OutsideChange \/ PowerLoss \/ PowerLossInClear
    \/ \E b \in Blocks : NeutralWrite(b)
ArmOutcome(m) == ArmStoreFailed(m) \/ ArmRolledBack(m) \/ ArmRollbackFailed(m)
    \/ PowerLossInArm(m) \/ \E n \in Nonces : ArmAccepted(m, n)
Local == Modbus \/ Timer \/ Outside \/ Tick

\* Home Assistant gives each arm an identity of its own; what it asks for is
\* otherwise arbitrary.
IdsHeld == {l.id : l \in {rec, last, ident, durable, dIdent, term.lease} \ {Clear, Junk}}
    \cup (IF dTerm = Junk \/ dTerm = Retired THEN {} ELSE {dTerm.lease.id})
Next ==
    \/ Local
    \/ \E n \in Nonces : Challenge(n)
    \/ \E m \in ArmRequests : m.id \notin IdsHeld /\ ArmOutcome(m)
    \/ \E m \in RenewRequests, n \in Nonces : RenewAccepted(m, n)

Spec == Init /\ [][Next]_vars

\* Time passes, the inverter is polled, a command retried for ever is answered
\* in the end, and the timer, which runs every second, runs within the 15 s a
\* reading stays fresh: it cannot always come too late, hence SF.
Fairness ==
    /\ WF_vars(Tick) /\ SF_vars(Timer) /\ WF_vars(PollDue)
    /\ SF_vars(PollQuiet \/ PollConfirms \/ PollReverts \/ PollClears)
    /\ SF_vars(WriteApplied)
FairSpec == Spec /\ Fairness
-----------------------------------------------------------------------------
(* Correctness. *)

TypeOK ==
    /\ st \in States /\ rec \in Leases \cup {Clear}
    /\ ident \in Leases \cup {Clear} /\ term \in Proofs
    /\ soft \in 0..TTL /\ hard \in 0..MaxHard /\ seq \in 0..MaxSeq
    /\ nonce \in [val : Nonces, age : 0..RenewNonceAge + 1, ok : BOOLEAN]
    /\ prev \in Nonces
    /\ durable \in Leases \cup {Clear, Junk}
    /\ dIdent \in Leases \cup {Clear, Junk} /\ dTerm \in Proofs \cup {Junk}
    /\ barrier \in [on : BOOLEAN, expect : Blocks \cup {NoBlock}, mism : BOOLEAN]
    /\ seen \in Blocks \cup {NoBlock} /\ readAge \in 0..Fresh + 1
    /\ bus \in Seq(Blocks \cup {Poll}) /\ phys \in Blocks
    /\ driven \in BOOLEAN /\ last \in Leases \cup {Clear}
    /\ mishaps \in 0..MaxMishaps

\* A forced block the lease put on the inverter and nobody changed since can
\* be recovered after a power loss at this instant: flash holds a lease that
\* names the block as its own (or a record the boot refuses and holds on).
RecoverableForce ==
    driven => \/ durable = Junk
              \/ durable \in Leases /\ phys \in {durable.active, durable.pred}

\* The barrier covers the last write until the inverter has answered it: when
\* it is down, a write still in the queue only repeats what the last reading
\* showed, so the next decision is taken on the block that write leaves behind.
BarrierCovers ==
    ~barrier.on => \A i \in 1..Len(bus) : bus[i] \in {Poll, seen}

\* A terminal proof is shown only of the transaction that held the record last:
\* the proof of an older one never survives a newer lease, whatever save failed
\* and wherever power was lost.
LeaseCleared == durable = Clear /\ rec = Clear /\ st = "disarmed"
SameTransaction(k, l) == k.id.session = l.id.session /\ k.id.tx = l.id.tx
ProofOfLastTransaction ==
    LeaseCleared /\ term.kind # 0 => SameTransaction(term.lease, last)

\* The window of forced control (refinement of ForcedWindow): the deadline of
\* a lease is never pushed back and a power loss never just ends a lease.
Phase ==
    CASE st = "disarmed" -> "free"
      [] st \in Armed -> "granted"
      [] st \in {"expired", "restoring"} -> "recovering"
      [] OTHER -> "held"
Window == INSTANCE ForcedWindow WITH phase <- Phase, left <- hard, MaxLeft <- MaxHard
WindowSpec == Window!Spec

\* Whatever Home Assistant does, a lease ends: it is released, restored or held;
\* unless the inverter shows for ever, after a write, a block out of range, which
\* keeps the barrier up and with it the lease, as only a power loss or a reading
\* in range can change.
Stuck == barrier.on /\ phys \in OddBlocks
LeaseEnds == (st \in Live ~> st \in {"disarmed", "hold"}) \/ <>[]Stuck
=============================================================================
