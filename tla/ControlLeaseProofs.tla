-------------------------- MODULE ControlLeaseProofs --------------------------
(***************************************************************************)
(* Theorems about the lease: first at the firmware alone (EspLease), for any *)
(* blocks, sessions, transactions, nonces, and number of faults and power    *)
(* losses; then at both ends (ControlLease): what Home Assistant believes of *)
(* the lease never exceeds what the firmware grants, and the firmware never  *)
(* grants past what Home Assistant asked, for any lengths of time and number *)
(* of messages in transit.                                                   *)
(*                                                                         *)
(* The firmware's invariant grows in layers, each proved from those before: *)
(* types and live records (Typed), the queue and the barrier (BusInv), what *)
(* a forced write may wait for (WaitInv), the owner of every leased block   *)
(* (ForceInv), deadlines (DeadlineInv), terminal proofs (ProofInv).  The    *)
(* generation numbers of the barrier (WriteBarrier) follow.                 *)
(*                                                                         *)
(* The invariant of both ends joins the two clocks.  A request that carries *)
(* the nonce in force counts its policy end from a later moment than the    *)
(* firmware does (PolicyInv); the arm in hand has an identity nothing else  *)
(* in transit has (IdentityInv), and a granted arm a nonce that is spent    *)
(* (SpentInv); so a response in transit offers no more than the firmware    *)
(* still grants, to the arm in hand (OfferInv) and to the renewal in hand   *)
(* (RightInv).                                                              *)
(***************************************************************************)
EXTENDS ControlLease, WriteBarrier, TLAPS

Positions == 1..Len(bus)

\* A record stands behind every live lease, a block behind every fresh reading.
LiveRecord ==
    /\ st \in Live => rec \in Leases
    /\ SeenFresh => seen \in Blocks

\* The queue: one poll at most; behind it only the write the barrier waits for;
\* before it only that write and repeats of what the last reading showed.
BusInv ==
    /\ \A i, j \in Positions : bus[i] = Poll /\ bus[j] = Poll => i = j
    /\ \A i, j \in Positions : bus[i] = Poll /\ i < j =>
           barrier.on /\ ~barrier.mism /\ bus[j] = barrier.expect
    /\ \A i \in Positions : bus[i] \in {Poll, seen} \/ (barrier.on /\ bus[i] = barrier.expect)

\* A forced write is waited for only while the lease that made it is pending or
\* has run out; otherwise a leased block is the one the last reading showed.
WaitInv ==
    /\ barrier.on /\ barrier.expect \in ForcedBlocks => st \in {"pending", "expired"}
    /\ driven => phys \in ForcedBlocks
    /\ driven /\ seen # NoBlock /\ ~(barrier.on /\ barrier.expect \in ForcedBlocks)
           => phys = seen

\* The leased blocks, on the inverter or on their way to it, belong to the
\* lease in flash and to the live record.
Stake == ({bus[i] : i \in Positions} \cap ForcedBlocks)
    \cup (IF driven THEN {phys} ELSE {})
Own(l, b) == l \in Leases /\ b \in {l.active, l.pred}
ForceInv ==
    \A b \in Stake : /\ durable = Junk \/ Own(durable, b)
                     /\ st \in Live => Own(rec, b)

-----------------------------------------------------------------------------
\* The minimum of two integers.
LEMMA MinOfTwo ==
    ASSUME NEW a \in Int, NEW b \in Int
    PROVE  MinOf({a, b}) \in {a, b} /\ MinOf({a, b}) <= a /\ MinOf({a, b}) <= b
<1>1. \E x \in {a, b} : \A y \in {a, b} : x <= y
  <2>1. CASE a <= b  BY <2>1
  <2>2. CASE b <= a  BY <2>2
  <2>. QED  BY <2>1, <2>2
<1>. QED  BY <1>1 DEF MinOf

\* The minimum of three integers.
LEMMA MinOfThree ==
    ASSUME NEW a \in Int, NEW b \in Int, NEW c \in Int
    PROVE  /\ MinOf({a, b, c}) \in {a, b, c}
           /\ MinOf({a, b, c}) <= a /\ MinOf({a, b, c}) <= b /\ MinOf({a, b, c}) <= c
<1>1. \E x \in {a, b, c} : \A y \in {a, b, c} : x <= y
  <2>1. CASE a <= b /\ a <= c  BY <2>1
  <2>2. CASE b <= a /\ b <= c  BY <2>2
  <2>3. CASE c <= a /\ c <= b  BY <2>3
  <2>. QED  BY <2>1, <2>2, <2>3
<1>. QED  BY <1>1 DEF MinOf

USE DEF ramVars, flashVars, readVars, plantVars

\* The device leaves the factory well typed.
LEMMA InitTyped == Init => TypeOK /\ LiveRecord
<1>. USE BlocksAssumption, BoundsAssumption
<1>. SUFFICES ASSUME Init PROVE TypeOK /\ LiveRecord  OBVIOUS
<1>1. prev \in Nonces /\ nonce \in [val : Nonces, age : 0..RenewNonceAge + 1, ok : BOOLEAN]
  BY DEF Init
<1>2. term \in Proofs /\ dTerm \in Proofs
  BY DEF Init, Retired, Proofs
<1>3. barrier \in [on : BOOLEAN, expect : Blocks \cup {NoBlock}, mism : BOOLEAN]
  BY DEF Init, BarrierOff
<1>4. TypeOK
  <2>1. bus \in Seq(Blocks \cup {Poll})  BY DEF Init
  <2>2. phys \in Blocks  BY DEF Init, Blocks
  <2>3. soft \in 0..TTL /\ hard \in 0..MaxHard /\ seq \in 0..MaxSeq /\ readAge \in 0..Fresh + 1
        /\ mishaps \in 0..MaxMishaps
    BY DEF Init
  <2>. QED  BY <1>1, <1>2, <1>3, <2>1, <2>2, <2>3 DEF Init, TypeOK, States
<1>5. LiveRecord  BY DEF Init, LiveRecord, Live, SeenFresh
<1>. QED  BY <1>4, <1>5

-----------------------------------------------------------------------------
(* The lease a request asks for, and the time it is granted. *)

\* An arm that passes the guards of the leased arm action asks for a lease.
LEMMA LeaseTyped ==
    ASSUME TypeOK, LiveRecord, NEW m \in ArmRequests, ArmAllowed(m)
    PROVE  LeaseOf(m) \in Leases /\ m.block \in ForcedBlocks
<1>. USE BlocksAssumption
<1>1. m.block \in ForcedBlocks /\ m.id \in Ids
  BY DEF ArmAllowed, ArmRequests
<1>2. CASE Retarget
  <2>1. rec \in Leases /\ seen = rec.active
    BY <1>2 DEF Retarget, LiveRecord, Live, ArmAllowed, RetargetAllowed
  <2>. QED  BY <1>1, <1>2, <2>1 DEF LeaseOf, Leases
<1>3. CASE ~Retarget
  <2>1. seen \in SelfUseBlocks  BY <1>3 DEF ArmAllowed
  <2>. QED  BY <1>1, <1>3, <2>1 DEF LeaseOf, Leases
<1>. QED  BY <1>1, <1>2, <1>3

\* The deadline granted to an arm is a positive one within the bound.
LEMMA DeadlineTyped ==
    ASSUME TypeOK, NEW m \in ArmRequests, ArmAllowed(m)
    PROVE  DeadlineOf(m) \in 1..MaxHard /\ MinOf({TTL, DeadlineOf(m)}) \in 0..TTL
<1>. USE BoundsAssumption
<1>1. m.hard \in 1..MaxHard /\ nonce.age \in Nat /\ hard \in 0..MaxHard /\ m.hard > nonce.age
  BY DEF TypeOK, ArmAllowed, ArmRequests
<1>2. m.hard - nonce.age \in 1..MaxHard  BY <1>1
<1>3. DeadlineOf(m) \in 1..MaxHard
  <2>1. CASE Retarget
    <3>1. hard > 0  BY <2>1 DEF ArmAllowed, RetargetAllowed
    <3>2. MinOf({m.hard - nonce.age, hard}) \in {m.hard - nonce.age, hard}
      <4>1. m.hard - nonce.age \in Int /\ hard \in Int  BY <1>1, <1>2
      <4>. QED  BY ONLY <4>1, MinOfTwo
    <3>. QED  BY <1>1, <1>2, <2>1, <3>1, <3>2 DEF DeadlineOf
  <2>2. CASE ~Retarget  BY <1>2, <2>2 DEF DeadlineOf
  <2>. QED  BY <2>1, <2>2
<1>4. MinOf({TTL, DeadlineOf(m)}) \in {TTL, DeadlineOf(m)} /\ MinOf({TTL, DeadlineOf(m)}) <= TTL
  <2>1. TTL \in Int /\ DeadlineOf(m) \in Int  BY <1>3
  <2>. QED  BY ONLY <2>1, MinOfTwo
<1>. QED  BY <1>3, <1>4

\* A renewal grants no more than the longest soft lease.
LEMMA RenewedTyped ==
    ASSUME TypeOK, NEW m \in RenewRequests, m.auth > nonce.age
    PROVE  RenewedSoft(m) \in 0..TTL
<1>. USE BoundsAssumption
<1>1. m.auth \in Nat /\ nonce.age \in Nat /\ hard \in Nat
  BY DEF TypeOK, RenewRequests
<1>2. /\ RenewedSoft(m) \in {TTL, hard, m.auth - nonce.age}
      /\ RenewedSoft(m) <= TTL
  <2>1. TTL \in Int /\ hard \in Int /\ m.auth - nonce.age \in Int  BY <1>1
  <2>. QED  BY ONLY <2>1, MinOfThree DEF RenewedSoft
<1>. QED  BY <1>1, <1>2

-----------------------------------------------------------------------------
(* Type correctness, step by step. *)

Typed == TypeOK /\ LiveRecord
NonceType == [val : Nonces, age : 0..RenewNonceAge + 1, ok : BOOLEAN]
BarrierType == [on : BOOLEAN, expect : Blocks \cup {NoBlock}, mism : BOOLEAN]

\* An invalidated nonce is a nonce.
LEMMA InvalidatedTyped == TypeOK => Invalidated \in NonceType
<1>. SUFFICES ASSUME TypeOK PROVE Invalidated \in NonceType  OBVIOUS
<1>1. nonce \in NonceType  BY DEF TypeOK, NonceType
<1>2. RenewNonceAge + 1 \in 0..RenewNonceAge + 1  BY BoundsAssumption
<1>. QED  BY <1>1, <1>2 DEF Invalidated, NonceType

\* The released barrier is a barrier.
LEMMA BarrierOffTyped == BarrierOff \in BarrierType
BY DEF BarrierOff, BarrierType

\* Whatever save fails, clearing a lease leaves a typed state.
LEMMA ClearLeaseTyped ==
    ASSUME Typed, NEW kind \in 0..3, ClearLease(kind), seen' \in Blocks, phys' = phys,
           nonce' \in {nonce, Invalidated}, bus' \in Seq(Blocks \cup {Poll}),
           barrier' \in {barrier, BarrierOff}, readAge' \in 0..Fresh + 1, driven' = driven
    PROVE  Typed'
<1>. USE BoundsAssumption
<1>1. term' \in Proofs /\ dTerm' \in Proofs \cup {Junk}
  <2>1. Proof(kind) \in Proofs  BY DEF Typed, TypeOK, Proof, Proofs
  <2>. QED  BY <2>1 DEF Typed, TypeOK, ClearLease, ProofSaved, ProofLost
<1>2. st' \in {"disarmed", "hold"} /\ durable' \in {durable, Clear, Junk}
  BY DEF ClearLease, Erased, EraseFailed
<1>3. mishaps' \in 0..MaxMishaps
  BY DEF Typed, TypeOK, ClearLease, Mishap
<1>4. nonce' \in [val : Nonces, age : 0..RenewNonceAge + 1, ok : BOOLEAN]
  <2>1. nonce \in NonceType  BY DEF Typed, TypeOK, NonceType
  <2>. QED  BY <2>1, InvalidatedTyped DEF Typed, NonceType
<1>5. barrier' \in [on : BOOLEAN, expect : Blocks \cup {NoBlock}, mism : BOOLEAN]
  <2>1. barrier \in BarrierType  BY DEF Typed, TypeOK, BarrierType
  <2>. QED  BY <2>1, BarrierOffTyped DEF BarrierType
<1>. QED
  BY <1>1, <1>2, <1>3, <1>4, <1>5
  DEF Typed, TypeOK, LiveRecord, ClearLease, States, Live, SeenFresh

\* The barrier after a reading is a barrier.
LEMMA BarrierTyped ==
    ASSUME TypeOK, NEW b \in Blocks
    PROVE  BarrierAfter(b) \in [on : BOOLEAN, expect : Blocks \cup {NoBlock}, mism : BOOLEAN]
BY DEF TypeOK, BarrierAfter, BarrierOff

\* A served reading leaves the reading, the barrier and the queue typed.
LEMMA PollTyped ==
    ASSUME Typed, PollAnswered
    PROVE  /\ bus' \in Seq(Blocks \cup {Poll}) /\ seen' \in Blocks /\ phys' = phys
           /\ driven' = driven /\ readAge' \in 0..Fresh + 1
           /\ barrier' \in [on : BOOLEAN, expect : Blocks \cup {NoBlock}, mism : BOOLEAN]
BY BarrierTyped, BoundsAssumption DEF Typed, TypeOK, PollAnswered

\* A restart leaves a typed state whatever flash holds.
LEMMA BootTyped ==
    ASSUME Typed, Boot, durable' \in Leases \cup {Clear, Junk},
           dIdent' \in Leases \cup {Clear, Junk}, dTerm' \in Proofs \cup {Junk},
           mishaps' \in 0..MaxMishaps
    PROVE  Typed'
<1>. USE BoundsAssumption, MarksAssumption
<1>1. rec' \in Leases \cup {Clear} /\ ident' \in Leases \cup {Clear} /\ term' \in Proofs
  BY DEF Boot, Retired, Proofs
<1>2. st' \in States /\ (st' \in Live => rec' \in Leases)
  BY DEF Boot, BootState, States, Live
<1>3. nonce' \in [val : Nonces, age : 0..RenewNonceAge + 1, ok : BOOLEAN]
  BY InvalidatedTyped DEF Boot, Typed, NonceType
<1>4. phys' \in Blocks /\ driven' \in BOOLEAN
  <2>1. CASE UNCHANGED <<phys, driven>>  BY <2>1 DEF Typed, TypeOK
  <2>2. CASE bus # <<>> /\ Head(bus) # Poll /\ phys' = Head(bus)
             /\ driven' = (Head(bus) \in ForcedBlocks)
    BY <2>2 DEF Typed, TypeOK
  <2>. QED  BY <2>1, <2>2 DEF Boot
<1>5. last' \in Leases \cup {Clear}
  BY <1>1 DEF Boot, Typed, TypeOK
<1>6. barrier' \in [on : BOOLEAN, expect : Blocks \cup {NoBlock}, mism : BOOLEAN]
  BY DEF Boot, BarrierOff
<1>7. soft' \in 0..TTL /\ hard' \in 0..MaxHard /\ seq' \in 0..MaxSeq
      /\ readAge' \in 0..Fresh + 1 /\ prev' \in Nonces /\ ~SeenFresh'
      /\ bus' \in Seq(Blocks \cup {Poll}) /\ seen' \in Blocks \cup {NoBlock}
  BY DEF Boot, Typed, TypeOK, SeenFresh
<1>. QED  BY <1>1, <1>2, <1>3, <1>4, <1>5, <1>6, <1>7 DEF Typed, TypeOK, LiveRecord

\* Every step keeps the types and the records behind live leases.
LEMMA NextTyped == ASSUME Typed, [Next]_vars PROVE Typed'
<1>. USE BoundsAssumption
<1>1. CASE UNCHANGED vars
  BY <1>1 DEF Typed, TypeOK, LiveRecord, Live, SeenFresh, vars
<1>2. CASE PollDue
  <2>1. bus' \in Seq(Blocks \cup {Poll})  BY <1>2 DEF PollDue, Typed, TypeOK
  <2>. QED  BY <1>2, <2>1 DEF PollDue, Typed, TypeOK, LiveRecord, Live, SeenFresh
<1>3. CASE WriteApplied
  <2>1. bus' \in Seq(Blocks \cup {Poll}) /\ phys' \in Blocks /\ driven' \in BOOLEAN
    BY <1>3 DEF WriteApplied, Typed, TypeOK
  <2>. QED  BY <1>3, <2>1 DEF WriteApplied, Typed, TypeOK, LiveRecord, Live, SeenFresh
<1>4. CASE CommandLost
  <2>1. bus' \in Seq(Blocks \cup {Poll})  BY <1>4 DEF CommandLost, Typed, TypeOK
  <2>. QED  BY <1>4, <2>1 DEF CommandLost, Typed, TypeOK, LiveRecord, Live, SeenFresh
<1>5. CASE PollQuiet
  BY <1>5, PollTyped DEF PollQuiet, Typed, TypeOK, LiveRecord, Live, SeenFresh
<1>6. CASE PollConfirms
  BY <1>6, PollTyped DEF PollConfirms, Typed, TypeOK, LiveRecord, Live, States, SeenFresh
<1>7. CASE PollReverts
  <2>1. st \in Live /\ st' = "expired" /\ nonce' \in {nonce, Invalidated}
        /\ soft' \in {soft, 0} /\ hard' \in {hard, 0} /\ seq' \in {seq, 0}
        /\ UNCHANGED <<rec, ident, term, prev, flashVars, last, mishaps>>
    BY <1>7 DEF PollReverts, Expire, Live, Armed
  <2>2. nonce' \in NonceType
    BY <2>1, InvalidatedTyped DEF Typed, TypeOK, NonceType
  <2>3. PollAnswered  BY <1>7 DEF PollReverts
  <2>. QED  BY <2>1, <2>2, <2>3, PollTyped DEF NonceType, Typed, TypeOK, LiveRecord, States, SeenFresh
<1>8. CASE PollClears
  <2>1. PollAnswered /\ nonce' = Invalidated  BY <1>8 DEF PollClears
  <2>2. barrier' = BarrierOff
    BY <1>8 DEF PollClears, PollAnswered, BarrierAfter, BarrierOff
  <2>3. PollKind(phys) \in 0..3  BY DEF PollKind
  <2>4. ClearLease(PollKind(phys))  BY <1>8 DEF PollClears
  <2>. QED  BY <2>1, <2>2, <2>3, <2>4, PollTyped, ClearLeaseTyped
<1>9. CASE TimerExpires
  <2>1. nonce' \in NonceType
    BY <1>9, InvalidatedTyped DEF TimerExpires, Expire, Typed
  <2>2. st \in Live  BY <1>9 DEF TimerExpires, Overdue, Armed, Live
  <2>. QED
    BY <1>9, <2>1, <2>2
    DEF TimerExpires, Expire, NonceType, Typed, TypeOK, LiveRecord, States, SeenFresh
<1>10. CASE TimerClears
  <2>1. TimerKind \in 0..3 /\ ClearLease(TimerKind)
    BY <1>10 DEF TimerClears, TimerKind
  <2>2. nonce' \in {nonce, Invalidated}  BY <1>10 DEF TimerClears, TimerNonce
  <2>3. SeenFresh  BY <1>10 DEF TimerClears, TimerKind, TimerActs
  <2>4. UNCHANGED <<readVars, plantVars>>  BY <1>10 DEF TimerClears
  <2>. QED  BY <2>1, <2>2, <2>3, <2>4, ClearLeaseTyped DEF Typed, TypeOK, LiveRecord
<1>11. CASE TimerRestores
  <2>1. st \in Live /\ nonce' \in {nonce, Invalidated}
    BY <1>11 DEF TimerRestores, TimerActs, TimerNonce, Overdue, Armed, Live
  <2>2. nonce' \in NonceType
    BY <2>1, InvalidatedTyped DEF Typed, TypeOK, NonceType
  <2>3. rec.fallback \in Blocks
    BY <2>1 DEF Typed, LiveRecord, Leases, Blocks
  <2>4. barrier' \in BarrierType /\ bus' \in Seq(Blocks \cup {Poll})
    BY <1>11, <2>3 DEF TimerRestores, Queue, BarrierType, Typed, TypeOK
  <2>. QED
    BY <1>11, <2>1, <2>2, <2>4
    DEF TimerRestores, NonceType, BarrierType, Typed, TypeOK, LiveRecord, States, SeenFresh
<1>12. CASE TimerHolds
  <2>1. nonce' \in NonceType
    BY <1>12, InvalidatedTyped DEF TimerHolds, TimerNonce, Typed, TypeOK, NonceType
  <2>2. mishaps' \in 0..MaxMishaps
    BY <1>12 DEF TimerHolds, Mishap, Typed, TypeOK
  <2>. QED
    BY <1>12, <2>1, <2>2
    DEF TimerHolds, NonceType, Typed, TypeOK, LiveRecord, Live, States, SeenFresh
<1>13. CASE OutsideChange
  <2>1. mishaps' \in 0..MaxMishaps  BY <1>13 DEF OutsideChange, Mishap, Typed, TypeOK
  <2>2. phys' \in Blocks /\ driven' \in BOOLEAN  BY <1>13 DEF OutsideChange
  <2>. QED
    BY <1>13, <2>1, <2>2 DEF OutsideChange, Typed, TypeOK, LiveRecord, Live, SeenFresh
<1>14. CASE PowerLoss
  BY <1>14, BootTyped DEF PowerLoss, Mishap, Typed, TypeOK
<1>15. CASE PowerLossInClear
  <2>1. PollKind(phys) \in 0..3 /\ TimerKind \in 0..3  BY DEF PollKind, TimerKind
  <2>2. dTerm' \in Proofs
    BY <1>15, <2>1 DEF PowerLossInClear, Proof, Proofs, Typed, TypeOK
  <2>. QED  BY <1>15, <2>2, BootTyped DEF PowerLossInClear, Mishap, Typed, TypeOK
<1>16. ASSUME NEW b \in Blocks, NeutralWrite(b) PROVE Typed'
  <2>1. barrier' \in BarrierType /\ bus' \in Seq(Blocks \cup {Poll})
    BY <1>16 DEF NeutralWrite, Queue, BarrierType, Typed, TypeOK
  <2>. QED
    BY <1>16, <2>1 DEF NeutralWrite, Mishap, BarrierType, Typed, TypeOK, LiveRecord, Live, SeenFresh
<1>17. CASE Tick
  <2>1. nonce' \in NonceType
    <3>1. Older(nonce.age, RenewNonceAge) \in 0..RenewNonceAge + 1
      BY DEF Older, Typed, TypeOK
    <3>. QED  BY <1>17, <3>1 DEF Tick, NonceType, Typed, TypeOK
  <2>2. readAge' \in 0..Fresh + 1 /\ (SeenFresh' => SeenFresh)
    <3>1. readAge \in 0..Fresh + 1  BY DEF Typed, TypeOK
    <3>2. readAge' = Older(readAge, Fresh)  BY <1>17 DEF Tick
    <3>. QED  BY <3>1, <3>2, BoundsAssumption DEF Older, SeenFresh
  <2>3. soft' \in 0..TTL /\ hard' \in 0..MaxHard
    <3>1. soft \in 0..TTL /\ hard \in 0..MaxHard  BY DEF Typed, TypeOK
    <3>2. soft' = Dec(soft) /\ hard' = Dec(hard)  BY <1>17 DEF Tick
    <3>. QED  BY <3>1, <3>2 DEF Dec
  <2>. QED  BY <1>17, <2>1, <2>2, <2>3 DEF Tick, NonceType, Typed, TypeOK, LiveRecord, Live
<1>18. ASSUME NEW n \in Nonces, Challenge(n) PROVE Typed'
  <2>1. nonce' \in NonceType  BY <1>18 DEF Challenge, NewNonce, NonceType
  <2>. QED  BY <1>18, <2>1 DEF Challenge, NonceType, Typed, TypeOK, LiveRecord, Live, SeenFresh
<1>19. ASSUME NEW m \in ArmRequests, ArmOutcome(m) PROVE Typed'
  <2>1. ArmAllowed(m)
    BY <1>19 DEF ArmOutcome, ArmStoreFailed, ArmRolledBack, ArmRollbackFailed,
                 PowerLossInArm, ArmAccepted
  <2>2. LeaseOf(m) \in Leases /\ m.block \in Blocks
    BY <2>1, LeaseTyped DEF Typed, Blocks
  <2>3. Retired \in Proofs  BY DEF Retired, Proofs
  <2>4. CASE ArmStoreFailed(m)
    BY <2>2, <2>3, <2>4
    DEF ArmStoreFailed, Mishap, Typed, TypeOK, LiveRecord, Live, SeenFresh
  <2>5. CASE ArmRolledBack(m)
    <3>1. mishaps' \in 0..MaxMishaps /\ nonce' \in NonceType
      BY <2>5, InvalidatedTyped DEF ArmRolledBack, Mishap, Typed, TypeOK
    <3>. QED
      BY <2>2, <2>3, <2>5, <3>1
      DEF ArmRolledBack, RetireProof, NonceType, Typed, TypeOK, LiveRecord, Live, SeenFresh
  <2>6. CASE ArmRollbackFailed(m)
    <3>1. mishaps' \in 0..MaxMishaps /\ nonce' \in NonceType
      BY <2>6, InvalidatedTyped DEF ArmRollbackFailed, Mishap, Typed, TypeOK
    <3>2. /\ st' \in {st, "hold"} /\ soft' \in {soft, 0} /\ hard' \in {hard, 0}
          /\ seq' \in {seq, 0} /\ UNCHANGED <<rec, prev, readVars, plantVars, last>>
          /\ durable' \in Leases \cup {Clear, Junk} /\ ident' \in Leases \cup {Clear}
          /\ dIdent' \in Leases \cup {Clear, Junk} /\ term' = Retired /\ dTerm' = Retired
      BY <2>2, <2>6 DEF ArmRollbackFailed, RetireProof, Typed, TypeOK
    <3>. QED
      BY <2>3, <3>1, <3>2 DEF NonceType, Typed, TypeOK, LiveRecord, Live, States, SeenFresh
  <2>7. CASE PowerLossInArm(m)
    BY <2>2, <2>3, <2>7, BootTyped DEF PowerLossInArm, Mishap, Typed, TypeOK
  <2>8. ASSUME NEW n \in Nonces, ArmAccepted(m, n) PROVE Typed'
    <3>1. DeadlineOf(m) \in 0..MaxHard /\ MinOf({TTL, DeadlineOf(m)}) \in 0..TTL
      BY <2>1, DeadlineTyped DEF Typed
    <3>2. nonce' \in NonceType /\ barrier' \in BarrierType /\ bus' \in Seq(Blocks \cup {Poll})
      BY <2>2, <2>8 DEF ArmAccepted, NewNonce, Queue, NonceType, BarrierType, Typed, TypeOK
    <3>. QED
      BY <2>2, <2>3, <2>8, <3>1, <3>2
      DEF ArmAccepted, RetireProof, NonceType, BarrierType, Typed, TypeOK, LiveRecord,
          Live, States, SeenFresh
  <2>. QED  BY <1>19, <2>4, <2>5, <2>6, <2>7, <2>8 DEF ArmOutcome
<1>20. ASSUME NEW m \in RenewRequests, NEW n \in Nonces, RenewAccepted(m, n) PROVE Typed'
  <2>1. RenewedSoft(m) \in 0..TTL
    BY <1>20, RenewedTyped DEF RenewAccepted, Typed
  <2>2. nonce' \in NonceType /\ prev' \in Nonces /\ seq' \in 0..MaxSeq
    BY <1>20 DEF RenewAccepted, RenewRequests, NewNonce, NonceType, Typed, TypeOK
  <2>. QED
    BY <1>20, <2>1, <2>2 DEF RenewAccepted, NonceType, Typed, TypeOK, LiveRecord, Live, SeenFresh
<1>. QED
  BY <1>1, <1>2, <1>3, <1>4, <1>5, <1>6, <1>7, <1>8, <1>9, <1>10, <1>11, <1>12, <1>13,
     <1>14, <1>15, <1>16, <1>17, <1>18, <1>19, <1>20
  DEF Next, Local, Modbus, Timer, Outside

\* The state the firmware keeps is well typed, for every set of blocks, sessions
\* and nonces and every bound on times and generations.
THEOREM TypeCorrect == Spec => []TypeOK
<1>1. Init => Typed  BY InitTyped DEF Typed
<1>2. Typed /\ [Next]_vars => Typed'  BY NextTyped
<1>3. Typed => TypeOK  BY DEF Typed
<1>. QED  BY <1>1, <1>2, <1>3, PTL DEF Spec

-----------------------------------------------------------------------------
(* The queue and the barrier. *)

\* What the steps do to the queue, the barrier and the last reading.
QueueKept == UNCHANGED <<bus, barrier, seen>>
QueuePolled ==
    /\ \A i \in Positions : bus[i] # Poll
    /\ bus' = Append(bus, Poll) /\ UNCHANGED <<barrier, seen>>
QueueServed == bus # <<>> /\ bus' = Tail(bus) /\ UNCHANGED <<barrier, seen>>
QueueWrites == \E b \in Blocks : ~barrier.on /\ Queue(b) /\ UNCHANGED seen
QueueEmptied == bus' = <<>> /\ barrier' = BarrierOff /\ seen' = NoBlock
QueueStep == QueueKept \/ QueuePolled \/ QueueServed \/ QueueWrites \/ QueueEmptied
    \/ PollAnswered

\* Serving the head of the queue moves the other commands up by one.
LEMMA TailPositions ==
    ASSUME NEW S, NEW q \in Seq(S), q # <<>>
    PROVE  /\ Tail(q) \in Seq(S) /\ Len(Tail(q)) = Len(q) - 1 /\ Len(q) \in Nat \ {0}
           /\ Head(q) = q[1] /\ \A i \in 1..Len(Tail(q)) : Tail(q)[i] = q[i + 1]
OBVIOUS

\* A queued command comes last and moves nothing.
LEMMA AppendPositions ==
    ASSUME NEW S, NEW q \in Seq(S), NEW x
    PROVE  /\ Len(Append(q, x)) = Len(q) + 1 /\ Len(q) \in Nat
           /\ \A i \in 1..Len(q) : Append(q, x)[i] = q[i]
           /\ Append(q, x)[Len(q) + 1] = x
OBVIOUS

\* Every step leaves the queue, serves its head, appends to it or restarts.
LEMMA QueueSteps == ASSUME Typed, [Next]_vars PROVE QueueStep
<1>1. CASE UNCHANGED vars  BY <1>1 DEF vars, QueueStep, QueueKept
<1>2. CASE PollDue  BY <1>2 DEF PollDue, QueueStep, QueuePolled, Positions
<1>3. CASE WriteApplied \/ CommandLost
  BY <1>3 DEF WriteApplied, CommandLost, QueueStep, QueueServed
<1>4. CASE PollQuiet \/ PollConfirms \/ PollReverts \/ PollClears
  BY <1>4 DEF PollQuiet, PollConfirms, PollReverts, PollClears, QueueStep
<1>5. CASE TimerExpires \/ TimerClears \/ TimerHolds
  BY <1>5 DEF TimerExpires, TimerClears, TimerHolds, QueueStep, QueueKept
<1>6. CASE TimerRestores
  <2>1. st \in Live  BY <1>6 DEF TimerRestores, TimerActs, Overdue, Armed, Live
  <2>2. rec.fallback \in Blocks  BY <2>1 DEF Typed, LiveRecord, Leases, Blocks
  <2>. QED  BY <1>6, <2>2 DEF TimerRestores, TimerActs, QueueStep, QueueWrites
<1>7. CASE OutsideChange \/ Tick  BY <1>7 DEF OutsideChange, Tick, QueueStep, QueueKept
<1>8. CASE PowerLoss \/ PowerLossInClear
  BY <1>8 DEF PowerLoss, PowerLossInClear, Boot, QueueStep, QueueEmptied
<1>9. ASSUME NEW b \in Blocks, NeutralWrite(b) PROVE QueueStep
  BY <1>9 DEF NeutralWrite, QueueStep, QueueWrites
<1>10. ASSUME NEW n \in Nonces, Challenge(n) PROVE QueueStep
  BY <1>10 DEF Challenge, QueueStep, QueueKept
<1>11. ASSUME NEW m \in ArmRequests, ArmOutcome(m) PROVE QueueStep
  <2>1. CASE ArmStoreFailed(m) \/ ArmRolledBack(m) \/ ArmRollbackFailed(m)
    BY <2>1 DEF ArmStoreFailed, ArmRolledBack, ArmRollbackFailed, QueueStep, QueueKept
  <2>2. CASE PowerLossInArm(m)
    BY <2>2 DEF PowerLossInArm, Boot, QueueStep, QueueEmptied
  <2>3. ASSUME NEW n \in Nonces, ArmAccepted(m, n) PROVE QueueStep
    <3>1. ArmAllowed(m)  BY <2>3 DEF ArmAccepted
    <3>2. m.block \in Blocks  BY <3>1, LeaseTyped DEF Typed, Blocks
    <3>. QED  BY <2>3, <3>2 DEF ArmAccepted, QueueStep, QueueWrites
  <2>. QED  BY <1>11, <2>1, <2>2, <2>3 DEF ArmOutcome
<1>12. ASSUME NEW m \in RenewRequests, NEW n \in Nonces, RenewAccepted(m, n) PROVE QueueStep
  BY <1>12 DEF RenewAccepted, QueueStep, QueueKept
<1>. QED
  BY <1>1, <1>2, <1>3, <1>4, <1>5, <1>6, <1>7, <1>8, <1>9, <1>10, <1>11, <1>12
  DEF Next, Local, Modbus, Timer, Outside

\* Every step keeps the order of the queue the barrier relies on.
LEMMA NextBus == ASSUME Typed, BusInv, [Next]_vars PROVE BusInv'
<1>. USE BlocksAssumption
<1>0. bus \in Seq(Blocks \cup {Poll}) /\ barrier \in BarrierType
  BY DEF Typed, TypeOK, BarrierType
<1>1. CASE QueueKept  BY <1>1 DEF QueueKept, BusInv, Positions
<1>2. CASE QueuePolled
  <2>1. Positions' = 1..Len(bus) + 1  BY <1>0, <1>2, AppendPositions DEF QueuePolled, Positions
  <2>2. \A i \in Positions' : bus'[i] = IF i \in Positions THEN bus[i] ELSE Poll
    BY <1>0, <1>2, <2>1, AppendPositions DEF QueuePolled, Positions
  <2>3. \A i \in Positions : bus[i] # Poll  BY <1>2 DEF QueuePolled
  <2>. QED  BY <1>0, <1>2, <2>1, <2>2, <2>3 DEF QueuePolled, BusInv, Positions
<1>3. CASE QueueServed
  <2>1. \A i \in Positions' : i + 1 \in Positions /\ bus'[i] = bus[i + 1]
    BY <1>0, <1>3, TailPositions DEF QueueServed, Positions
  <2>2. Positions' \subseteq Int  BY DEF Positions
  <2>. QED  BY <1>3, <2>1, <2>2 DEF QueueServed, BusInv, Positions
<1>4. CASE QueueWrites
  <2>1. PICK b \in Blocks : ~barrier.on /\ Queue(b) /\ UNCHANGED seen
    BY <1>4 DEF QueueWrites
  <2>2. barrier' = [on |-> TRUE, expect |-> b, mism |-> FALSE] /\ b # Poll
    BY <2>1 DEF Queue
  <2>3. Positions' = 1..Len(bus) + 1 /\ Len(bus) \in Nat
    BY <1>0, <2>1, AppendPositions DEF Queue, Positions
  <2>4. \A i \in Positions' : bus'[i] = IF i \in Positions THEN bus[i] ELSE b
    BY <1>0, <2>1, <2>3, AppendPositions DEF Queue, Positions
  <2>. QED  BY <2>1, <2>2, <2>3, <2>4 DEF BusInv, Positions
<1>5. CASE QueueEmptied  BY <1>5 DEF QueueEmptied, BusInv, Positions
<1>6. CASE PollAnswered
  <2>1. \A i \in Positions' : i + 1 \in Positions /\ 1 < i + 1 /\ bus'[i] = bus[i + 1]
    BY <1>0, <1>6, TailPositions DEF PollAnswered, Positions
  <2>2. 1 \in Positions /\ bus[1] = Poll
    BY <1>0, <1>6, TailPositions DEF PollAnswered, Positions
  <2>3. \A i \in Positions' : barrier.on /\ ~barrier.mism /\ bus'[i] = barrier.expect
    BY <2>1, <2>2 DEF BusInv
  <2>4. \A i \in Positions' : bus'[i] # Poll  BY <2>1, <2>2 DEF BusInv, Positions
  <2>5. \A i \in Positions' : bus'[i] = seen' \/ (barrier'.on /\ bus'[i] = barrier'.expect)
    BY <1>0, <1>6, <2>3 DEF PollAnswered, BarrierAfter, BarrierType
  <2>. QED  BY <2>4, <2>5 DEF BusInv
<1>. QED
  BY <1>1, <1>2, <1>3, <1>4, <1>5, <1>6, QueueSteps DEF QueueStep

\* The barrier covers the write in the queue: when it is down, whatever is left
\* in the queue repeats the reading the next decision is taken on.
THEOREM BarrierHolds == Spec => []BarrierCovers
<1>1. Init => Typed /\ BusInv
  BY InitTyped DEF Init, Typed, BusInv, Positions
<1>2. Typed /\ BusInv /\ [Next]_vars => (Typed /\ BusInv)'
  BY NextTyped, NextBus
<1>3. BusInv => BarrierCovers
  BY DEF BusInv, BarrierCovers, Positions
<1>. QED  BY <1>1, <1>2, <1>3, PTL DEF Spec

-----------------------------------------------------------------------------
(* Which leased blocks may be on their way while a write is waited for. *)

ForcedWait == barrier.on /\ barrier.expect \in ForcedBlocks

\* When no forced write is waited for, the last reading shows every leased block.
LEMMA Calm ==
    ASSUME Typed, BusInv, WaitInv, ~ForcedWait, seen \in Blocks
    PROVE  Stake \subseteq {seen} \cap ForcedBlocks
<1>. USE BlocksAssumption
<1>1. seen # NoBlock /\ Poll \notin ForcedBlocks  BY DEF Blocks
<1>2. \A i \in Positions : bus[i] \in ForcedBlocks => bus[i] = seen
  BY <1>1 DEF BusInv, ForcedWait
<1>3. driven => phys = seen /\ phys \in ForcedBlocks
  BY <1>1 DEF WaitInv, ForcedWait
<1>. QED  BY <1>2, <1>3 DEF Stake

CalmAt == Typed /\ BusInv /\ WaitInv /\ ~ForcedWait /\ seen \in Blocks
    => Stake \subseteq {seen} \cap ForcedBlocks
\* The same in the next state.
LEMMA CalmNext == CalmAt'
<1>1. CalmAt  BY Calm DEF CalmAt
<1>. QED  BY <1>1, PTL

\* The command served next is one of the queue.
LEMMA HeadPosition ==
    ASSUME Typed, bus # <<>>
    PROVE  1 \in Positions /\ Head(bus) = bus[1]
BY TailPositions DEF Typed, TypeOK, Positions

\* Nothing is waited for after a restart.
LEMMA BootWait == ASSUME WaitInv, Boot PROVE WaitInv'
<1>1. ~barrier'.on /\ seen' = NoBlock  BY DEF Boot, BarrierOff
<1>2. driven' => phys' \in ForcedBlocks
  <2>1. CASE UNCHANGED <<phys, driven>>  BY <2>1 DEF WaitInv
  <2>2. CASE phys' = Head(bus) /\ driven' = (Head(bus) \in ForcedBlocks)
    BY <2>2
  <2>. QED  BY <2>1, <2>2 DEF Boot
<1>. QED  BY <1>1, <1>2 DEF WaitInv

\* Every step keeps what a forced write is waited for.
LEMMA NextWait == ASSUME Typed, BusInv, WaitInv, [Next]_vars PROVE WaitInv'
<1>. USE BlocksAssumption
<1>1. CASE UNCHANGED vars  BY <1>1 DEF vars, WaitInv
<1>2. CASE PollDue \/ CommandLost \/ OutsideChange \/ Tick
  BY <1>2 DEF PollDue, CommandLost, OutsideChange, Tick, WaitInv
<1>3. CASE WriteApplied
  <2>1. 1 \in Positions /\ phys' = bus[1] /\ bus[1] # Poll /\ driven' = (bus[1] \in ForcedBlocks)
        /\ UNCHANGED <<st, barrier, seen>>
    BY <1>3, HeadPosition DEF WriteApplied
  <2>2. bus[1] = seen \/ (barrier.on /\ bus[1] = barrier.expect)
    BY <2>1 DEF BusInv
  <2>. QED  BY <2>1, <2>2 DEF WaitInv
<1>4. CASE PollQuiet
  BY <1>4 DEF PollQuiet, PollAnswered, BarrierAfter, BarrierOff, WaitInv
<1>5. CASE PollConfirms \/ PollReverts \/ PollClears
  <2>1. PollAnswered /\ ~barrier'.on
    BY <1>5 DEF PollConfirms, PollReverts, PollClears, PollAnswered
  <2>. QED  BY <2>1 DEF PollAnswered, WaitInv
<1>6. CASE TimerExpires
  BY <1>6 DEF TimerExpires, Expire, WaitInv
<1>7. CASE TimerClears \/ TimerHolds
  <2>1. ~barrier.on /\ UNCHANGED <<readVars, plantVars>>
    BY <1>7 DEF TimerClears, TimerHolds, TimerKind, TimerActs
  <2>. QED  BY <2>1 DEF WaitInv
<1>8. CASE TimerRestores
  <2>1. st \in Live  BY <1>8 DEF TimerRestores, TimerActs, Overdue, Armed, Live
  <2>2. rec.fallback \notin ForcedBlocks  BY <2>1 DEF Typed, LiveRecord, Leases
  <2>. QED  BY <1>8, <2>2 DEF TimerRestores, TimerActs, Queue, WaitInv
<1>9. CASE PowerLoss \/ PowerLossInClear
  BY <1>9, BootWait DEF PowerLoss, PowerLossInClear
<1>10. ASSUME NEW b \in Blocks, NeutralWrite(b) PROVE WaitInv'
  BY <1>10 DEF NeutralWrite, Queue, WaitInv
<1>11. ASSUME NEW n \in Nonces, Challenge(n) PROVE WaitInv'
  BY <1>11 DEF Challenge, WaitInv
<1>12. ASSUME NEW m \in ArmRequests, ArmOutcome(m) PROVE WaitInv'
  <2>1. CASE ArmStoreFailed(m) \/ ArmRolledBack(m)
    BY <2>1 DEF ArmStoreFailed, ArmRolledBack, WaitInv
  <2>2. CASE ArmRollbackFailed(m)
    BY <2>2 DEF ArmRollbackFailed, ArmAllowed, WaitInv
  <2>3. CASE PowerLossInArm(m)
    BY <2>3, BootWait DEF PowerLossInArm
  <2>4. ASSUME NEW n \in Nonces, ArmAccepted(m, n) PROVE WaitInv'
    <3>1. m.block \in ForcedBlocks  BY <2>4, LeaseTyped DEF ArmAccepted, Typed
    <3>. QED  BY <2>4, <3>1 DEF ArmAccepted, Queue, WaitInv
  <2>. QED  BY <1>12, <2>1, <2>2, <2>3, <2>4 DEF ArmOutcome
<1>13. ASSUME NEW m \in RenewRequests, NEW n \in Nonces, RenewAccepted(m, n) PROVE WaitInv'
  BY <1>13 DEF RenewAccepted, WaitInv
<1>. QED
  BY <1>1, <1>2, <1>3, <1>4, <1>5, <1>6, <1>7, <1>8, <1>9, <1>10, <1>11, <1>12, <1>13
  DEF Next, Local, Modbus, Timer, Outside

-----------------------------------------------------------------------------
(* Every leased block stays recoverable. *)

\* A step that puts no new leased block on its way and keeps the records.
LEMMA StakeKept ==
    ASSUME ForceInv, Stake' \subseteq Stake, UNCHANGED <<durable, rec>>,
           st' \in Live => st \in Live
    PROVE  ForceInv'
BY DEF ForceInv, Own

\* Without a leased block there is nothing to own.
LEMMA NoStake == ASSUME Stake' = {} PROVE ForceInv'
BY DEF ForceInv

\* Serving or losing a command brings no new leased block.
LEMMA TailStake ==
    ASSUME Typed, bus # <<>>, bus' = Tail(bus), UNCHANGED <<phys, driven>>
    PROVE  Stake' \subseteq Stake
<1>1. \A i \in Positions' : i + 1 \in Positions /\ bus'[i] = bus[i + 1]
  BY TailPositions DEF Typed, TypeOK, Positions
<1>. QED  BY <1>1 DEF Stake

\* Queueing a block brings that block at most.
LEMMA QueueStake ==
    ASSUME Typed, NEW b \in Blocks \cup {Poll}, bus' = Append(bus, b), UNCHANGED <<phys, driven>>
    PROVE  Stake' \subseteq Stake \cup ({b} \cap ForcedBlocks)
<1>1. \A i \in Positions' : (i \in Positions /\ bus'[i] = bus[i]) \/ bus'[i] = b
  BY AppendPositions DEF Typed, TypeOK, Positions
<1>. QED  BY <1>1 DEF Stake

\* An applied write was in the queue.
LEMMA AppliedStake ==
    ASSUME Typed, bus # <<>>, \A i \in Positions' : bus'[i] \in {bus[j] : j \in Positions},
           phys' = Head(bus), driven' = (Head(bus) \in ForcedBlocks)
    PROVE  Stake' \subseteq Stake
BY HeadPosition DEF Stake

\* A restart brings no new leased block, even if the frame on the wire lands.
LEMMA BootStake == ASSUME Typed, Boot PROVE Stake' \subseteq Stake
<1>1. Positions' = {}  BY DEF Boot, Positions
<1>2. CASE UNCHANGED <<phys, driven>>  BY <1>1, <1>2 DEF Stake
<1>3. CASE bus # <<>> /\ phys' = Head(bus) /\ driven' = (Head(bus) \in ForcedBlocks)
  BY <1>1, <1>3, AppliedStake
<1>. QED  BY <1>2, <1>3 DEF Boot

\* A restart takes its record from flash.
LEMMA BootForce ==
    ASSUME Boot, \A b \in Stake' : durable' = Junk \/ Own(durable', b)
    PROVE  ForceInv'
<1>. SUFFICES ASSUME NEW b \in Stake', st' \in Live PROVE Own(rec', b)
  BY DEF ForceInv
<1>1. durable' # Junk  BY DEF Boot, BootState, Live
<1>. QED  BY <1>1 DEF Boot

\* What an arm request may meet: nothing leased, or the lease it retargets.
LEMMA ArmStake ==
    ASSUME Typed, BusInv, WaitInv, NEW m \in ArmRequests, ArmAllowed(m)
    PROVE  \A b \in Stake : Retarget /\ b = rec.active /\ b = LeaseOf(m).pred /\ rec \in Leases
<1>. USE BlocksAssumption
<1>1. ~ForcedWait  BY DEF WaitInv, ForcedWait, ArmAllowed
<1>2. seen \in Blocks  BY DEF ArmAllowed, Typed, LiveRecord
<1>3. Stake \subseteq {seen} \cap ForcedBlocks  BY <1>1, <1>2, Calm
<1>4. CASE Retarget
  <2>1. seen = rec.active /\ rec \in Leases
    BY <1>4 DEF ArmAllowed, RetargetAllowed, Retarget, Typed, LiveRecord, Live
  <2>. QED  BY <1>3, <1>4, <2>1 DEF LeaseOf
<1>5. CASE ~Retarget
  <2>1. seen \notin ForcedBlocks  BY <1>5 DEF ArmAllowed
  <2>. QED  BY <1>3, <2>1
<1>. QED  BY <1>4, <1>5

\* A lease is cleared only when none of its blocks is left.
LEMMA TimerClearsStake ==
    ASSUME Typed, BusInv, WaitInv, ForceInv, TimerKind # 0
    PROVE  Stake = {}
<1>. USE BlocksAssumption
<1>1. st \in Live /\ ~barrier.on /\ seen \in Blocks
      /\ (seen = rec.fallback \/ seen \notin {rec.active, rec.pred})
  BY DEF TimerKind, TimerActs, Overdue, Armed, Live, Typed, LiveRecord
<1>2. Stake \subseteq {seen} \cap ForcedBlocks  BY <1>1, Calm DEF ForcedWait
<1>3. rec.fallback \notin ForcedBlocks  BY <1>1 DEF Typed, LiveRecord, Leases
<1>. QED  BY <1>1, <1>2, <1>3 DEF ForceInv, Own

\* The same when the reading just made decides it.
LEMMA PollClearsStake ==
    ASSUME Typed, BusInv, WaitInv, ForceInv, Typed', BusInv', WaitInv',
           PollAnswered, ~barrier'.on, PollKind(phys) # 0
    PROVE  Stake' = {}
<1>. USE BlocksAssumption
<1>1. /\ st \in Live /\ seen' = phys /\ seen' \in Blocks
      /\ (phys = rec.fallback \/ phys \notin {rec.active, rec.pred})
  BY PollTyped DEF PollKind, PollAnswered, Live
<1>2. Stake' \subseteq {seen'} \cap ForcedBlocks
  BY <1>1, CalmNext DEF CalmAt, ForcedWait
<1>3. Stake' \subseteq Stake  BY TailStake DEF PollAnswered
<1>4. rec.fallback \notin ForcedBlocks  BY <1>1 DEF Typed, LiveRecord, Leases
<1>. QED  BY <1>1, <1>2, <1>3, <1>4 DEF ForceInv, Own

\* Every step keeps the owner of every leased block.
LEMMA NextForce ==
    ASSUME Typed, BusInv, WaitInv, ForceInv, [Next]_vars
    PROVE  ForceInv'
<1>. USE BlocksAssumption
<1>0. Typed' /\ BusInv' /\ WaitInv'  BY NextTyped, NextBus, NextWait
<1>1. ASSUME UNCHANGED <<bus, phys, driven, durable, rec>>, st' \in Live => st \in Live
      PROVE  ForceInv'
  <2>1. Stake' = Stake  BY <1>1 DEF Stake, Positions
  <2>. QED  BY <1>1, <2>1, StakeKept
<1>2. CASE UNCHANGED vars  BY <1>1, <1>2 DEF vars
<1>3. CASE PollDue
  <2>1. Stake' \subseteq Stake  BY <1>3, QueueStake DEF PollDue, Blocks
  <2>. QED  BY <1>3, <2>1, StakeKept DEF PollDue
<1>4. CASE WriteApplied
  <2>1. \A i \in Positions' : bus'[i] \in {bus[j] : j \in Positions}
    BY <1>4, TailPositions DEF WriteApplied, Typed, TypeOK, Positions
  <2>2. Stake' \subseteq Stake  BY <1>4, <2>1, AppliedStake DEF WriteApplied
  <2>. QED  BY <1>4, <2>2, StakeKept DEF WriteApplied
<1>5. CASE CommandLost
  <2>1. Stake' \subseteq Stake  BY <1>5, TailStake DEF CommandLost
  <2>. QED  BY <1>5, <2>1, StakeKept DEF CommandLost
<1>6. CASE PollQuiet \/ PollConfirms \/ PollReverts
  <2>1. PollAnswered /\ UNCHANGED <<durable, rec>> /\ (st' \in Live => st \in Live)
    BY <1>6 DEF PollQuiet, PollConfirms, PollReverts, Expire, Live, Armed
  <2>2. Stake' \subseteq Stake  BY <2>1, TailStake DEF PollAnswered
  <2>. QED  BY <2>1, <2>2, StakeKept
<1>7. CASE PollClears
  <2>1. PollAnswered /\ ~barrier'.on /\ PollKind(phys) # 0
    BY <1>7 DEF PollClears, PollAnswered
  <2>. QED  BY <1>0, <2>1, PollClearsStake, NoStake
<1>8. CASE TimerExpires \/ TimerHolds
  BY <1>1, <1>8 DEF TimerExpires, TimerHolds, Expire, Overdue, Armed, Live
<1>9. CASE TimerClears
  <2>1. TimerKind # 0 /\ UNCHANGED <<bus, phys, driven>>  BY <1>9 DEF TimerClears
  <2>2. Stake' = Stake  BY <2>1 DEF Stake, Positions
  <2>. QED  BY <2>1, <2>2, TimerClearsStake, NoStake
<1>10. CASE TimerRestores
  <2>1. st \in Live  BY <1>10 DEF TimerRestores, TimerActs, Overdue, Armed, Live
  <2>2. rec.fallback \in Blocks \ ForcedBlocks
    BY <2>1 DEF Typed, LiveRecord, Leases, Blocks
  <2>3. bus' = Append(bus, rec.fallback) /\ UNCHANGED <<phys, driven, durable, rec>>
    BY <1>10 DEF TimerRestores, Queue
  <2>4. Stake' \subseteq Stake  BY <2>2, <2>3, QueueStake
  <2>. QED  BY <2>1, <2>3, <2>4, StakeKept
<1>11. CASE OutsideChange
  <2>1. Stake' \subseteq Stake  BY <1>11 DEF OutsideChange, Stake, Positions
  <2>. QED  BY <1>11, <2>1, StakeKept DEF OutsideChange
<1>12. CASE PowerLoss \/ PowerLossInClear
  <2>1. Boot /\ durable' = durable  BY <1>12 DEF PowerLoss, PowerLossInClear
  <2>2. Stake' \subseteq Stake  BY <2>1, BootStake
  <2>. QED  BY <2>1, <2>2, BootForce DEF ForceInv
<1>13. ASSUME NEW b \in Blocks, NeutralWrite(b) PROVE ForceInv'
  <2>1. b \notin ForcedBlocks /\ bus' = Append(bus, b)
        /\ UNCHANGED <<st, rec, durable, phys, driven>>
    BY <1>13 DEF NeutralWrite, Queue
  <2>2. Stake' \subseteq Stake  BY <2>1, QueueStake
  <2>. QED  BY <2>1, <2>2, StakeKept
<1>14. CASE Tick  BY <1>1, <1>14 DEF Tick
<1>15. ASSUME NEW n \in Nonces, Challenge(n) PROVE ForceInv'
  BY <1>1, <1>15 DEF Challenge
<1>16. ASSUME NEW m \in ArmRequests, ArmOutcome(m) PROVE ForceInv'
  <2>1. ArmAllowed(m)
    BY <1>16 DEF ArmOutcome, ArmStoreFailed, ArmRolledBack, ArmRollbackFailed,
                 PowerLossInArm, ArmAccepted
  <2>2. \A b \in Stake : Own(rec, b) /\ Own(LeaseOf(m), b)
    BY <2>1, ArmStake, LeaseTyped DEF Own, Typed
  <2>3. Own(LeaseOf(m), m.block)  BY <2>1, LeaseTyped DEF Own, LeaseOf, Typed
  <2>4. CASE ArmStoreFailed(m) \/ ArmRolledBack(m) \/ ArmRollbackFailed(m)
    <3>1. UNCHANGED <<bus, phys, driven, rec>>
      BY <2>4 DEF ArmStoreFailed, ArmRolledBack, ArmRollbackFailed
    <3>2. durable' \in {durable, rec, LeaseOf(m), Junk}
      <4>1. CASE ArmStoreFailed(m)  BY <4>1 DEF ArmStoreFailed
      <4>2. CASE ArmRolledBack(m)  BY <4>2 DEF ArmRolledBack
      <4>3. CASE ArmRollbackFailed(m)  BY <4>3 DEF ArmRollbackFailed
      <4>. QED  BY <2>4, <4>1, <4>2, <4>3
    <3>3. Stake' = Stake  BY <3>1 DEF Stake, Positions
    <3>4. \A b \in Stake' : durable' = Junk \/ Own(durable', b)
      BY <2>2, <3>2, <3>3 DEF ForceInv
    <3>5. \A b \in Stake' : Own(rec', b)  BY <2>2, <3>1, <3>3
    <3>. QED  BY <3>4, <3>5 DEF ForceInv
  <2>5. CASE PowerLossInArm(m)
    <3>1. Boot /\ durable' \in {durable, LeaseOf(m)}  BY <2>5 DEF PowerLossInArm
    <3>2. Stake' \subseteq Stake  BY <3>1, BootStake
    <3>3. \A b \in Stake' : durable' = Junk \/ Own(durable', b)
      BY <2>2, <3>1, <3>2 DEF ForceInv
    <3>. QED  BY <3>1, <3>3, BootForce
  <2>6. ASSUME NEW n \in Nonces, ArmAccepted(m, n) PROVE ForceInv'
    <3>1. bus' = Append(bus, m.block) /\ UNCHANGED <<phys, driven>>
          /\ rec' = LeaseOf(m) /\ durable' = LeaseOf(m)
      BY <2>6 DEF ArmAccepted, Queue
    <3>2. m.block \in Blocks  BY <2>1, LeaseTyped DEF Typed, Blocks
    <3>3. Stake' \subseteq Stake \cup {m.block}  BY <3>1, <3>2, QueueStake
    <3>. QED  BY <2>2, <2>3, <3>1, <3>3 DEF ForceInv
  <2>. QED  BY <1>16, <2>4, <2>5, <2>6 DEF ArmOutcome
<1>17. ASSUME NEW m \in RenewRequests, NEW n \in Nonces, RenewAccepted(m, n) PROVE ForceInv'
  BY <1>1, <1>17 DEF RenewAccepted
<1>. QED
  BY <1>2, <1>3, <1>4, <1>5, <1>6, <1>7, <1>8, <1>9, <1>10, <1>11, <1>12, <1>13, <1>14,
     <1>15, <1>16, <1>17
  DEF Next, Local, Modbus, Timer, Outside

\* Whatever fails, and whenever power is lost, a forced block that a lease put
\* on the inverter is named by the lease in flash, or flash is unreadable and
\* the boot holds: the firmware can always tell its own block and restore it.
THEOREM ForceRecoverable == Spec => []RecoverableForce
<1>. DEFINE Inv == Typed /\ BusInv /\ WaitInv /\ ForceInv
<1>1. Init => Inv
  BY InitTyped DEF Init, Typed, BusInv, WaitInv, ForceInv, Stake, Positions, BarrierOff
<1>2. Inv /\ [Next]_vars => Inv'  BY NextTyped, NextBus, NextWait, NextForce
<1>3. Inv => RecoverableForce
  BY DEF ForceInv, Stake, Own, RecoverableForce
<1>. QED  BY <1>1, <1>2, <1>3, PTL DEF Spec

-----------------------------------------------------------------------------
(* The lease implements the window of forced control. *)

\* Only an armed lease has a deadline.
DeadlineInv == st \notin Armed => hard = 0

WindowStep == [Window!Next]_<<Phase, hard>>

\* Every step keeps deadlines to armed leases.
LEMMA NextDeadline == ASSUME Typed, DeadlineInv, [Next]_vars PROVE DeadlineInv'
<1>1. CASE UNCHANGED <<st, hard>>  BY <1>1 DEF DeadlineInv
<1>2. CASE st' \in Armed  BY <1>2 DEF DeadlineInv
<1>3. CASE hard' = 0  BY <1>3 DEF DeadlineInv
<1>4. CASE Tick
  BY <1>4 DEF Tick, Dec, DeadlineInv
<1>5. UNCHANGED <<st, hard>> \/ st' \in Armed \/ hard' = 0 \/ Tick
      \/ (st' = "expired" /\ UNCHANGED hard /\ st = "restoring")
  <2>1. CASE UNCHANGED vars \/ PollDue \/ WriteApplied \/ CommandLost \/ PollQuiet
    BY <2>1 DEF vars, PollDue, WriteApplied, CommandLost, PollQuiet
  <2>2. CASE PollConfirms \/ PollReverts
    BY <2>2 DEF PollConfirms, PollReverts, Expire, Armed
  <2>3. CASE PollClears \/ TimerClears
    BY <2>3 DEF PollClears, TimerClears, ClearLease
  <2>4. CASE TimerExpires \/ TimerRestores \/ TimerHolds
    BY <2>4 DEF TimerExpires, TimerRestores, TimerHolds, Expire
  <2>5. CASE OutsideChange \/ \E b \in Blocks : NeutralWrite(b)
    BY <2>5 DEF OutsideChange, NeutralWrite
  <2>6. CASE PowerLoss \/ PowerLossInClear
    BY <2>6 DEF PowerLoss, PowerLossInClear, Boot
  <2>7. CASE \E n \in Nonces : Challenge(n)  BY <2>7 DEF Challenge
  <2>8. CASE \E m \in ArmRequests : ArmOutcome(m)
    BY <2>8 DEF ArmOutcome, ArmStoreFailed, ArmRolledBack, ArmRollbackFailed,
                PowerLossInArm, Boot, ArmAccepted, Armed
  <2>9. CASE \E m \in RenewRequests, n \in Nonces : RenewAccepted(m, n)
    BY <2>9 DEF RenewAccepted
  <2>. QED
    BY <2>1, <2>2, <2>3, <2>4, <2>5, <2>6, <2>7, <2>8, <2>9
    DEF Next, Local, Modbus, Timer, Outside
<1>6. CASE st' = "expired" /\ UNCHANGED hard /\ st = "restoring"
  BY <1>6 DEF DeadlineInv, Armed
<1>. QED  BY <1>1, <1>2, <1>3, <1>4, <1>5, <1>6

\* Every step is a step of the window of forced control or leaves it alone.
LEMMA NextWindow == ASSUME Typed, DeadlineInv, [Next]_vars PROVE WindowStep
<1>. USE DEF WindowStep, Armed
<1>0. st \in States /\ hard \in 0..MaxHard /\ MaxHard \in Nat /\ hard' \in 0..MaxHard
  BY NextTyped, BoundsAssumption DEF Typed, TypeOK
<1>1. ASSUME UNCHANGED <<st, hard>> PROVE WindowStep  BY <1>1 DEF Phase
<1>2. ASSUME st \in Armed, st' \in {"expired", "restoring"}, hard' = 0 PROVE WindowStep
  BY <1>2 DEF Phase, Window!Next, Window!End
<1>3. ASSUME st' = "disarmed", hard' = 0 PROVE WindowStep
  BY <1>0, <1>3 DEF Phase, DeadlineInv, States, Window!Next, Window!Release, Window!Restart
<1>4. ASSUME st' = "hold", hard' = 0 PROVE WindowStep
  BY <1>4 DEF Phase, Window!Next, Window!Hold
<1>5. ASSUME st' = "expired", hard' = 0 PROVE WindowStep
  BY <1>0, <1>5 DEF Phase, DeadlineInv, States, Window!Next, Window!End, Window!Restart
<1>6. ASSUME st \in {"expired", "restoring"}, st' \in {"expired", "restoring"}, hard' = 0
      PROVE WindowStep
  BY <1>6 DEF Phase, DeadlineInv
<1>7. CASE UNCHANGED vars \/ PollDue \/ WriteApplied \/ CommandLost \/ PollQuiet
  BY <1>1, <1>7 DEF vars, PollDue, WriteApplied, CommandLost, PollQuiet
<1>8. CASE PollConfirms  BY <1>8 DEF PollConfirms, Phase
<1>9. CASE PollReverts
  BY <1>2, <1>6, <1>9 DEF PollReverts, Expire, DeadlineInv
<1>10. CASE PollClears \/ TimerClears
  BY <1>3, <1>4, <1>10 DEF PollClears, TimerClears, ClearLease, Erased, EraseFailed
<1>11. CASE TimerExpires  BY <1>2, <1>11 DEF TimerExpires, Expire, Overdue
<1>12. CASE TimerRestores
  BY <1>2, <1>6, <1>12 DEF TimerRestores, TimerActs, Overdue
<1>13. CASE TimerHolds  BY <1>4, <1>13 DEF TimerHolds
<1>14. CASE OutsideChange \/ \E b \in Blocks : NeutralWrite(b)
  BY <1>1, <1>14 DEF OutsideChange, NeutralWrite
<1>15. ASSUME Boot PROVE WindowStep
  <2>1. hard' = 0 /\ st' \in {"disarmed", "hold", "expired"}  BY <1>15 DEF Boot, BootState
  <2>. QED  BY <1>3, <1>4, <1>5, <2>1
<1>16. CASE PowerLoss \/ PowerLossInClear
  BY <1>15, <1>16 DEF PowerLoss, PowerLossInClear
<1>17. CASE Tick
  <2>1. st' = st /\ hard' = IF hard = 0 THEN 0 ELSE hard - 1  BY <1>17 DEF Tick, Dec
  <2>. QED  BY <1>0, <2>1 DEF Phase, DeadlineInv, Window!Next, Window!Elapse
<1>18. CASE \E n \in Nonces : Challenge(n)  BY <1>1, <1>18 DEF Challenge
<1>19. ASSUME NEW m \in ArmRequests, ArmOutcome(m) PROVE WindowStep
  <2>1. CASE ArmStoreFailed(m) \/ ArmRolledBack(m)
    BY <1>1, <2>1 DEF ArmStoreFailed, ArmRolledBack
  <2>2. CASE ArmRollbackFailed(m)  BY <1>1, <1>4, <2>2 DEF ArmRollbackFailed
  <2>3. CASE PowerLossInArm(m)  BY <1>15, <2>3 DEF PowerLossInArm
  <2>4. ASSUME NEW n \in Nonces, ArmAccepted(m, n) PROVE WindowStep
    <3>1. ArmAllowed(m) /\ st' = "pending" /\ hard' = DeadlineOf(m)  BY <2>4 DEF ArmAccepted
    <3>2. DeadlineOf(m) \in 1..MaxHard  BY <3>1, DeadlineTyped DEF Typed
    <3>3. CASE Retarget
      <4>1. DeadlineOf(m) <= hard
        <5>1. m.hard - nonce.age \in Int /\ hard \in Int
          BY <1>0 DEF ArmRequests, Typed, TypeOK
        <5>2. MinOf({m.hard - nonce.age, hard}) <= hard  BY ONLY <5>1, MinOfTwo
        <5>. QED  BY <3>3, <5>2 DEF DeadlineOf
      <4>. QED
        BY <1>0, <3>1, <3>2, <3>3, <4>1 DEF Retarget, Phase, Window!Next, Window!Retarget
    <3>4. CASE ~Retarget
      BY <3>1, <3>2, <3>4 DEF Retarget, ArmAllowed, Phase, Window!Next, Window!Grant
    <3>. QED  BY <3>3, <3>4
  <2>. QED  BY <1>19, <2>1, <2>2, <2>3, <2>4 DEF ArmOutcome
<1>20. CASE \E m \in RenewRequests, n \in Nonces : RenewAccepted(m, n)
  BY <1>1, <1>20 DEF RenewAccepted
<1>. QED
  BY <1>7, <1>8, <1>9, <1>10, <1>11, <1>12, <1>13, <1>14, <1>16, <1>17, <1>18, <1>19, <1>20
  DEF Next, Local, Modbus, Timer, Outside

\* The firmware implements the window: no arm, renewal, retarget, expiry, fault
\* or restart pushes a deadline back or reopens a window that has ended.
THEOREM WindowKept == Spec => WindowSpec
<1>1. Init => Typed /\ DeadlineInv
  BY InitTyped DEF Init, Typed, DeadlineInv
<1>2. Typed /\ DeadlineInv /\ [Next]_vars => (Typed /\ DeadlineInv)'
  BY NextTyped, NextDeadline
<1>3. Init => Window!Init  BY DEF Init, Phase, Armed, Window!Init
<1>4. Typed /\ DeadlineInv /\ [Next]_vars => WindowStep  BY NextWindow
<1>. QED  BY <1>1, <1>2, <1>3, <1>4, PTL DEF Spec, WindowSpec, Window!Spec, WindowStep

-----------------------------------------------------------------------------
(* Terminal proofs. *)

\* Flash may be read after a restart: a proof and a lease found there together
\* are of one transaction, that of the last lease.
StoredProof(d, p, l) ==
    p \in Proofs /\ p.kind # 0 =>
        /\ p.lease \in Leases /\ SameTransaction(p.lease, l)
        /\ d \in Leases => SameTransaction(d, l)
ProofInv ==
    /\ rec \in Leases => rec = last
    /\ term.kind # 0 => term.lease \in Leases /\ SameTransaction(term.lease, last)
    /\ StoredProof(durable, dTerm, last)
    /\ st \in Live /\ durable \in Leases => SameTransaction(durable, last)

\* A retired or unreadable proof says nothing of any lease.
LEMMA RetiredStored ==
    /\ Retired.kind = 0 /\ Retired \in Proofs
    /\ \A d, l : StoredProof(d, Retired, l) /\ StoredProof(d, Junk, l)
BY MarksAssumption DEF Retired, StoredProof, Proofs

\* Nothing about proofs changes.
LEMMA ProofKeptInv ==
    ASSUME ProofInv, UNCHANGED <<rec, term, durable, dTerm, last>>, st' \in Live => st \in Live
    PROVE  ProofInv'
BY DEF ProofInv

\* The proof a clearing lease leaves is its own.
LEMMA ClearProof ==
    ASSUME Typed, ProofInv, st \in Live, NEW kind \in 0..3
    PROVE  /\ Proof(kind) \in Proofs /\ rec = last /\ Proof(kind).lease = last /\ last \in Leases
           /\ StoredProof(durable, Proof(kind), last)
<1>1. rec \in Leases /\ rec = last  BY DEF Typed, LiveRecord, ProofInv
<1>2. Proof(kind) \in Proofs /\ Proof(kind).lease = last  BY <1>1 DEF Proof, Proofs
<1>3. durable \in Leases => SameTransaction(durable, last)  BY DEF ProofInv
<1>. QED  BY <1>1, <1>2, <1>3 DEF StoredProof, SameTransaction

\* A restart that finds a proof and a lease of one transaction keeps them so.
LEMMA BootProof ==
    ASSUME Boot, durable' \in Leases \cup {Clear, Junk}, dTerm' \in Proofs \cup {Junk},
           StoredProof(durable', dTerm', last)
    PROVE  ProofInv'
<1>. USE MarksAssumption
<1>1. CASE durable' \in Leases
  <2>1. rec' = durable' /\ last' = durable'  BY <1>1 DEF Boot
  <2>2. StoredProof(durable', dTerm', last')
    BY <1>1, <2>1 DEF StoredProof, SameTransaction
  <2>3. term'.kind # 0 => term'.lease \in Leases /\ SameTransaction(term'.lease, last')
    BY <2>2, RetiredStored DEF Boot, StoredProof
  <2>. QED  BY <2>1, <2>2, <2>3 DEF ProofInv, SameTransaction
<1>2. CASE durable' \notin Leases
  <2>1. rec' = Clear /\ last' = last /\ st' \notin Live  BY <1>2 DEF Boot, BootState, Live
  <2>2. term'.kind # 0 => term'.lease \in Leases /\ SameTransaction(term'.lease, last')
    BY <2>1, RetiredStored DEF Boot, StoredProof
  <2>. QED  BY <2>1, <2>2 DEF ProofInv
<1>. QED  BY <1>1, <1>2

\* Clearing a lease, whichever save fails, leaves a proof of that lease or none.
LEMMA ClearLeaseProof ==
    ASSUME Typed, ProofInv, st \in Live, NEW kind \in 0..3, ClearLease(kind)
    PROVE  ProofInv'
<1>. USE MarksAssumption
<1>1. rec' = Clear /\ last' = last /\ st' \notin Live /\ durable' \in {durable, Clear, Junk}
  BY DEF ClearLease, Erased, EraseFailed, Live
<1>2. term' \in {term, Proof(kind)} /\ dTerm' \in {dTerm, Proof(kind), Junk}
  BY DEF ClearLease, ProofSaved, ProofLost
<1>3. term'.kind # 0 => term'.lease \in Leases /\ SameTransaction(term'.lease, last')
  BY <1>1, <1>2, ClearProof DEF ProofInv, SameTransaction
<1>4. StoredProof(durable', dTerm', last')
  <2>1. StoredProof(durable, dTerm', last)
    BY <1>2, ClearProof, RetiredStored DEF ProofInv
  <2>. QED  BY <1>1, <2>1 DEF StoredProof
<1>. QED  BY <1>1, <1>3, <1>4 DEF ProofInv

\* Every step keeps proofs to the last transaction.
LEMMA NextProof == ASSUME Typed, ProofInv, [Next]_vars PROVE ProofInv'
<1>. USE MarksAssumption
<1>1. CASE UNCHANGED vars  BY <1>1, ProofKeptInv DEF vars
<1>2. CASE PollDue \/ WriteApplied \/ CommandLost \/ PollQuiet \/ OutsideChange \/ Tick
  BY <1>2, ProofKeptInv DEF PollDue, WriteApplied, CommandLost, PollQuiet, OutsideChange, Tick
<1>3. CASE PollConfirms \/ PollReverts \/ TimerExpires \/ TimerRestores \/ TimerHolds
  <2>1. UNCHANGED <<rec, term, durable, dTerm, last>> /\ (st' \in Live => st \in Live)
    BY <1>3 DEF PollConfirms, PollReverts, TimerExpires, TimerRestores, TimerHolds, TimerActs,
                Overdue, Expire, Live, Armed
  <2>. QED  BY <2>1, ProofKeptInv
<1>4. CASE PollClears
  BY <1>4, ClearLeaseProof DEF PollClears, PollKind, Live
<1>5. CASE TimerClears
  BY <1>5, ClearLeaseProof DEF TimerClears, TimerKind, TimerActs, Overdue, Armed, Live
<1>6. CASE PowerLoss
  <2>1. Boot /\ UNCHANGED <<durable, dTerm>>  BY <1>6 DEF PowerLoss
  <2>. QED  BY <2>1, BootProof DEF ProofInv, Typed, TypeOK
<1>7. CASE PowerLossInClear
  <2>1. PICK kind \in 0..3 : st \in Live /\ dTerm' = Proof(kind)
    BY <1>7 DEF PowerLossInClear, TimerKind, TimerActs, Overdue, Armed, PollKind, Live
  <2>2. Boot /\ durable' = durable  BY <1>7 DEF PowerLossInClear
  <2>. QED  BY <2>1, <2>2, ClearProof, BootProof DEF Typed, TypeOK
<1>8. ASSUME NEW b \in Blocks, NeutralWrite(b) PROVE ProofInv'
  BY <1>8, ProofKeptInv DEF NeutralWrite
<1>9. ASSUME NEW n \in Nonces, Challenge(n) PROVE ProofInv'
  BY <1>9, ProofKeptInv DEF Challenge
<1>10. ASSUME NEW m \in ArmRequests, ArmOutcome(m) PROVE ProofInv'
  <2>1. ArmAllowed(m)
    BY <1>10 DEF ArmOutcome, ArmStoreFailed, ArmRolledBack, ArmRollbackFailed,
                 PowerLossInArm, ArmAccepted
  <2>2. LeaseOf(m) \in Leases  BY <2>1, LeaseTyped DEF Typed
  <2>3. st \in Live => SameTransaction(LeaseOf(m), last)
    <3>1. st \in Live => Retarget /\ rec \in Leases /\ rec = last
      BY <2>1 DEF ArmAllowed, Retarget, Live, Typed, LiveRecord, ProofInv
    <3>. QED  BY <2>1, <3>1 DEF ArmAllowed, RetargetAllowed, LeaseOf, SameTransaction
  <2>4. CASE ArmStoreFailed(m)
    <3>1. UNCHANGED <<st, rec, last>>  BY <2>4 DEF ArmStoreFailed
    <3>2. CASE dTerm' \in {dTerm, Retired, Junk} /\ UNCHANGED <<term, durable>>
      BY <3>1, <3>2, RetiredStored DEF ProofInv
    <3>3. CASE dTerm' = Retired /\ term' = Retired /\ durable' \in {durable, LeaseOf(m), Junk}
      BY <2>2, <2>3, <3>1, <3>3, RetiredStored DEF ProofInv
    <3>. QED  BY <2>4, <3>2, <3>3 DEF ArmStoreFailed
  <2>5. CASE ArmRolledBack(m) \/ ArmRollbackFailed(m)
    <3>1. term' = Retired /\ dTerm' = Retired /\ UNCHANGED <<rec, last>>
          /\ st' \in {st, "hold"}
      BY <2>5 DEF ArmRolledBack, ArmRollbackFailed, RetireProof
    <3>2. durable' \in {rec, LeaseOf(m), Junk}
      <4>1. CASE ArmRolledBack(m)  BY <4>1 DEF ArmRolledBack
      <4>2. CASE ArmRollbackFailed(m)  BY <4>2 DEF ArmRollbackFailed
      <4>. QED  BY <2>5, <4>1, <4>2
    <3>3. st' \in Live /\ durable' \in Leases => SameTransaction(durable', last')
      BY <2>3, <3>1, <3>2 DEF ProofInv, Live, SameTransaction
    <3>. QED  BY <3>1, <3>3, RetiredStored DEF ProofInv
  <2>6. CASE PowerLossInArm(m)
    <3>1. Boot /\ dTerm' = Retired /\ durable' \in {durable, LeaseOf(m)}
      BY <2>6 DEF PowerLossInArm
    <3>. QED  BY <2>2, <3>1, RetiredStored, BootProof DEF Typed, TypeOK
  <2>7. ASSUME NEW n \in Nonces, ArmAccepted(m, n) PROVE ProofInv'
    <3>1. term' = Retired /\ dTerm' = Retired /\ rec' = LeaseOf(m) /\ durable' = LeaseOf(m)
          /\ last' = LeaseOf(m)
      BY <2>7 DEF ArmAccepted, RetireProof
    <3>. QED  BY <3>1, RetiredStored DEF ProofInv, SameTransaction
  <2>. QED  BY <1>10, <2>4, <2>5, <2>6, <2>7 DEF ArmOutcome
<1>11. ASSUME NEW m \in RenewRequests, NEW n \in Nonces, RenewAccepted(m, n) PROVE ProofInv'
  BY <1>11, ProofKeptInv DEF RenewAccepted
<1>. QED
  BY <1>1, <1>2, <1>3, <1>4, <1>5, <1>6, <1>7, <1>8, <1>9, <1>10, <1>11
  DEF Next, Local, Modbus, Timer, Outside

\* A terminal proof that may be shown is of the transaction that held the lease
\* last, for any number of flash faults and power losses in any order.
THEOREM ProofCurrent == Spec => []ProofOfLastTransaction
<1>1. Init => Typed /\ ProofInv
  BY InitTyped, RetiredStored, MarksAssumption DEF Init, Typed, ProofInv, Live
<1>2. Typed /\ ProofInv /\ [Next]_vars => (Typed /\ ProofInv)'
  BY NextTyped, NextProof
<1>3. ProofInv => ProofOfLastTransaction  BY DEF ProofInv, ProofOfLastTransaction
<1>. QED  BY <1>1, <1>2, <1>3, PTL DEF Spec

-----------------------------------------------------------------------------
(* The evidence behind a write given up for lost, for every wrap point Top. *)

\* A mismatch is noted from a reading, and a reading that was asked for before
\* the write is behind us once any reading has arrived.
NotedAfterReading == mismatch # 0 => ~ahead

\* A block is given up for lost only on a reading made after the write was
\* queued, wherever the generation numbers restart.
THEOREM GivenUpSound == BarrierSpec => GivenUpOnEvidence
<1>1. BarrierInit => NotedAfterReading  BY DEF BarrierInit, NotedAfterReading
<1>2. NotedAfterReading /\ [BarrierNext]_barrierVars => NotedAfterReading'
  <2>. SUFFICES ASSUME NotedAfterReading, [BarrierNext]_barrierVars PROVE NotedAfterReading'
    OBVIOUS
  <2>1. CASE Write  BY <2>1 DEF Write, NotedAfterReading
  <2>2. CASE ReadingMatches \/ ReadingDiffers \/ ReadingIncomplete
    BY <2>2 DEF ReadingMatches, ReadingDiffers, ReadingIncomplete, Reading, NotedAfterReading
  <2>3. CASE BarrierBoot  BY <2>3 DEF BarrierBoot, NotedAfterReading
  <2>4. CASE UNCHANGED barrierVars  BY <2>4 DEF barrierVars, NotedAfterReading
  <2>. QED  BY <2>1, <2>2, <2>3, <2>4 DEF BarrierNext
<1>3. NotedAfterReading => (ReadingDiffers /\ pending /\ ~pending' => ~ahead)
  <2>. SUFFICES ASSUME NotedAfterReading, ReadingDiffers, pending, ~pending'
                PROVE  ~ahead
    OBVIOUS
  <2>1. GivesUp  BY DEF ReadingDiffers
  <2>. QED  BY <2>1 DEF GivesUp, NotedAfterReading
<1>. QED  BY <1>1, <1>2, <1>3, PTL DEF BarrierSpec, GivenUpOnEvidence

(* Both ends. *)

\* What the two ends say to each other, and what Home Assistant holds meanwhile.
LeaseIds == [session : Nat, tx : Nat, gen : Nat]
ArmMessages ==
    [kind : {"arm"}, id : LeaseIds, block : ForcedBlocks, hard : Nat, nonce : Nonces,
     current : BOOLEAN, end : Nat]
RenewMessages ==
    [kind : {"renew"}, id : LeaseIds, block : ForcedBlocks, seq : Nat, nonce : Nonces,
     auth : Nat, authorized : {TRUE}, end : Nat]
ArmReplies == [kind : {"arm"}, id : LeaseIds, ok : BOOLEAN, granted : 0..TTL, nonce : Nonces]
RenewReplies ==
    [kind : {"renew"}, id : LeaseIds, seq : Nat, ok : BOOLEAN, granted : 0..TTL,
     nonce : Nonces]
Rights ==
    [id : LeaseIds, block : ForcedBlocks, nonce : Nonces, seq : Nat, soft : Nat, hard : Nat,
     recvAge : Nat, wait : Nat, pend : Pendings \cup {None}]
Armings ==
    [phase : {"idle"}] \cup [phase : {"challenged"}, nonce : Nonces]
    \cup [phase : {"sent"}, id : LeaseIds, block : ForcedBlocks, hard : Nat, age : 0..TTL]

FirmwareTyped ==
    /\ soft \in 0..TTL /\ hard \in Nat /\ seq \in Nat /\ prev \in Nonces
    /\ nonce \in [val : Nonces, age : Nat, ok : BOOLEAN]
    /\ st \in Armed => rec.id \in LeaseIds
ClientTyped ==
    /\ session \in Nat /\ gen \in 0..MaxGen /\ tx \in Nat /\ deadline \in Nat /\ limit \in Nat
    /\ handle \in Rights \cup {None} /\ arming \in Armings
    /\ net \subseteq ArmMessages \cup RenewMessages
    /\ replies \subseteq ArmReplies \cup RenewReplies

\* A request counts its policy end from when it was sent, the firmware from when it
\* drew the nonce, which is earlier.
Asked(m) == IF m.kind = "arm" THEN m.hard ELSE m.auth
PolicyInv ==
    /\ soft <= limit
    /\ nonce.ok /\ nonce.age <= RenewNonceAge =>
        /\ \A m \in net : m.nonce = nonce.val => Asked(m) - nonce.age <= m.end
        /\ handle # None /\ handle.nonce = nonce.val =>
            IF handle.pend = None THEN handle.recvAge <= nonce.age
            ELSE handle.pend.auth - nonce.age <= handle.pend.end
    /\ \A m \in net : m.kind = "arm" => m.id.tx <= tx /\ (m.id.tx = tx => m.end <= deadline)
    /\ st \in Armed => rec.id.tx <= tx /\ (rec.id.tx = tx => hard <= deadline)

\* Identities are drawn upwards: the one of the arm in hand is on no other message.
Issued(i) == i.session < session \/ (i.session = session /\ i.gen <= gen)
IdentityInv ==
    /\ \A m \in net \cup replies : Issued(m.id)
    /\ handle # None => Issued(handle.id)
    /\ arming.phase = "sent" =>
        /\ Issued(arming.id)
        /\ handle # None => handle.id # arming.id
        /\ \A m \in net \cup replies : m.kind = "renew" => m.id # arming.id

\* An arm that was granted is never granted again: its nonce is spent.
SpentInv ==
    \A m \in net :
        /\ m.kind = "arm"
        /\ \/ handle # None /\ m.id = handle.id
           \/ \E r \in replies : r.kind = "arm" /\ r.ok /\ r.id = m.id
        => m.nonce # nonce.val

\* The right offered by a response to the arm in hand.
OfferInv ==
    arming.phase = "sent" /\ st \in Armed =>
        \A r \in replies :
            r.kind = "arm" /\ r.ok /\ r.id = arming.id /\ rec.id = r.id
                => r.granted - arming.age <= soft

\* The right held, and the one offered by a response to its renewal.
Uncertain == IF handle.pend = None THEN 0 ELSE 1
RightInv ==
    handle # None =>
        /\ \A m \in net \cup replies :
            m.kind = "renew" /\ m.id = handle.id => m.seq <= handle.seq + Uncertain
        /\ st \in Armed /\ rec.id = handle.id =>
            /\ seq >= handle.seq
            /\ handle.pend = None => handle.soft <= soft
            /\ handle.pend # None =>
                \A r \in replies :
                    r.kind = "renew" /\ r.ok /\ r.id = handle.id /\ r.seq = handle.seq + 1
                        => seq >= r.seq /\ r.granted - handle.pend.age <= soft

-----------------------------------------------------------------------------
(* What a step of the firmware can do to the lease Home Assistant holds.   *)

\* Alone it keeps the lease as it is or ends it.
Kept ==
    /\ st' \in Armed => st \in Armed /\ UNCHANGED <<rec, soft, hard, seq>>
    /\ soft' \in {soft, 0} /\ hard' \in {hard, 0} /\ seq' \in {seq, 0}
    /\ nonce' \in {nonce, Invalidated} /\ UNCHANGED prev

LEMMA BootKeeps == Boot => Kept
BY DEF Boot, Kept, BootState, Armed

LEMMA ClearKeeps ==
    ASSUME NEW k, ClearLease(k), nonce' \in {nonce, Invalidated} PROVE Kept
BY DEF ClearLease, Kept, Erased, EraseFailed, Armed

LEMMA FirmwareAlone ==
    ASSUME Modbus \/ Timer \/ Outside PROVE Kept
<1>1. CASE PollDue \/ WriteApplied \/ CommandLost \/ PollQuiet \/ OutsideChange
  BY <1>1 DEF PollDue, WriteApplied, CommandLost, PollQuiet, OutsideChange, Kept, Armed
<1>2. CASE PollConfirms
  BY <1>2 DEF PollConfirms, Kept, Armed
<1>3. CASE PollReverts
  BY <1>3 DEF PollReverts, Expire, Kept, Armed
<1>4. CASE PollClears
  BY <1>4, ClearKeeps DEF PollClears
<1>5. CASE TimerExpires
  BY <1>5 DEF TimerExpires, Expire, Kept, Armed
<1>6. CASE TimerClears
  <2>1. nonce' \in {nonce, Invalidated}
    BY <1>6 DEF TimerClears, TimerNonce
  <2> QED
    BY <1>6, <2>1, ClearKeeps DEF TimerClears
<1>7. CASE TimerRestores \/ TimerHolds
  BY <1>7 DEF TimerRestores, TimerHolds, TimerNonce, Kept, Armed
<1>8. CASE PowerLoss \/ PowerLossInClear
  BY <1>8, BootKeeps DEF PowerLoss, PowerLossInClear
<1>9. CASE \E b \in Blocks : NeutralWrite(b)
  BY <1>9 DEF NeutralWrite, Kept, Armed
<1> QED
  BY <1>1, <1>2, <1>3, <1>4, <1>5, <1>6, <1>7, <1>8, <1>9 DEF Modbus, Timer, Outside

\* An arm that is not granted does no more.
LEMMA ArmFails ==
    ASSUME NEW m, \/ ArmStoreFailed(m) \/ ArmRolledBack(m) \/ ArmRollbackFailed(m)
                  \/ PowerLossInArm(m)
    PROVE  Kept
<1>1. CASE ArmStoreFailed(m)
  BY <1>1 DEF ArmStoreFailed, Kept
<1>2. CASE ArmRolledBack(m)
  BY <1>2 DEF ArmRolledBack, Kept
<1>3. CASE ArmRollbackFailed(m)
  BY <1>3 DEF ArmRollbackFailed, Kept, Armed
<1>4. CASE PowerLossInArm(m)
  BY <1>4, BootKeeps DEF PowerLossInArm
<1> QED
  BY <1>1, <1>2, <1>3, <1>4

\* What the nonce is after a request was granted: one no message carries.
Renonced ==
    /\ nonce' \in [val : Nonces, age : Nat, ok : BOOLEAN]
    /\ nonce.val' # nonce.val
    /\ \A x \in net : x.nonce # nonce.val'
    /\ handle # None => handle.nonce # nonce.val'
Current(m) == nonce.ok /\ m.nonce = nonce.val /\ nonce.age <= RenewNonceAge
Answered(m, good, g) ==
    \/ replies' = replies
    \/ \E a \in IF m.kind = "arm" THEN ArmReplies ELSE RenewReplies :
          /\ a.id = m.id /\ a.ok = good /\ a.granted = g
          /\ m.kind = "renew" => a.seq = m.seq
          /\ replies' = replies \cup {a}

\* The four outcomes of a request.
Granted(m) ==
    /\ m \in ArmMessages /\ Current(m) /\ Renonced
    /\ st' \in Armed /\ rec.id' = m.id /\ seq' = 0 /\ UNCHANGED prev
    /\ hard' \in Nat /\ hard' <= m.hard - nonce.age
    /\ soft' \in 0..TTL /\ soft' <= hard' /\ limit' = m.end
    /\ Answered(m, TRUE, soft')
Extended(m) ==
    /\ m \in RenewMessages /\ Current(m) /\ Renonced
    /\ st \in Armed /\ rec.id = m.id /\ m.seq = seq + 1
    /\ UNCHANGED <<st, rec, hard>> /\ seq' = m.seq /\ prev' = nonce.val
    /\ soft' \in 0..TTL /\ soft' <= m.auth - nonce.age /\ limit' = m.end
    /\ Answered(m, TRUE, soft')
Repeated(m) ==
    /\ m \in RenewMessages /\ UNCHANGED espVars /\ UNCHANGED limit
    /\ st \in Armed /\ rec.id = m.id /\ m.seq = seq
    /\ Answered(m, TRUE, soft)
Refused(m) == Kept /\ UNCHANGED limit /\ Answered(m, FALSE, 0)

ClientInv == FirmwareTyped /\ ClientTyped

LEMMA GrantedArm ==
    ASSUME ClientInv, NEW m \in net, m.kind = "arm", NEW n \in Nonces,
           Unused(n), ArmAccepted(m, n), Reply(m, TRUE, soft', n), limit' = m.end
    PROVE  Granted(m)
<1> USE DEF ClientInv, FirmwareTyped, ClientTyped
<1>1. m \in ArmMessages
  BY DEF ArmMessages, RenewMessages
<1>2. /\ nonce.ok /\ m.nonce = nonce.val /\ nonce.age <= ArmNonceAge
      /\ m.hard > nonce.age /\ nonce.age \in Nat /\ m.hard \in Nat
  BY <1>1 DEF ArmAccepted, ArmAllowed, NonceCurrent, ArmMessages
<1>3. Retarget => hard > 0
  BY DEF ArmAccepted, ArmAllowed, RetargetAllowed
<1>4. DeadlineOf(m) \in Nat /\ DeadlineOf(m) <= m.hard - nonce.age
  <2>1. CASE Retarget
    <3>1. m.hard - nonce.age \in Int /\ hard \in Int
      BY <1>2
    <3>2. DeadlineOf(m) = MinOf({m.hard - nonce.age, hard})
      BY <2>1 DEF DeadlineOf
    <3>3. /\ MinOf({m.hard - nonce.age, hard}) \in {m.hard - nonce.age, hard}
          /\ MinOf({m.hard - nonce.age, hard}) <= m.hard - nonce.age
      BY ONLY <3>1, MinOfTwo
    <3> QED
      BY <1>2, <1>3, <2>1, <3>2, <3>3
  <2>2. CASE ~Retarget
    BY <1>2, <2>2 DEF DeadlineOf
  <2> QED
    BY <2>1, <2>2
<1>5. hard' = DeadlineOf(m) /\ soft' = MinOf({TTL, DeadlineOf(m)}) /\ seq' = 0
  BY DEF ArmAccepted
<1>6. soft' \in 0..TTL /\ soft' <= hard'
  <2>1. TTL \in Nat /\ TTL \in Int /\ DeadlineOf(m) \in Int
    BY <1>4, BoundsAssumption
  <2>2. MinOf({TTL, DeadlineOf(m)}) \in {TTL, DeadlineOf(m)}
        /\ MinOf({TTL, DeadlineOf(m)}) <= TTL /\ MinOf({TTL, DeadlineOf(m)}) <= DeadlineOf(m)
    BY ONLY <2>1, MinOfTwo
  <2> QED
    BY <1>4, <1>5, <2>1, <2>2
<1>7. Renonced
  <2>1. nonce' = [val |-> n, age |-> 0, ok |-> TRUE] /\ n # nonce.val
    BY DEF ArmAccepted, NewNonce
  <2> QED
    BY <2>1 DEF Unused, Renonced
<1>8. st' \in Armed /\ rec.id' = m.id /\ UNCHANGED prev
  <2>1. rec' = LeaseOf(m) /\ st' = "pending" /\ UNCHANGED prev
    BY DEF ArmAccepted
  <2>2. LeaseOf(m).id = m.id
    BY DEF LeaseOf
  <2> QED
    BY <2>1, <2>2 DEF Armed
<1>9. Answered(m, TRUE, soft')
  <2> DEFINE a == [kind |-> "arm", id |-> m.id, ok |-> TRUE, granted |-> soft', nonce |-> n]
  <2>1. a \in ArmReplies
    BY <1>1, <1>6 DEF ArmReplies, ArmMessages
  <2>2. replies' = replies \/ replies' = replies \cup {a}
    BY DEF Reply
  <2> QED
    BY <2>1, <2>2 DEF Answered
<1> QED
  <2>1. Current(m)
    BY <1>2, BoundsAssumption DEF Current
  <2>2. hard' \in Nat /\ hard' <= m.hard - nonce.age
    BY <1>4, <1>5
  <2> HIDE DEF ClientInv
  <2> QED
    BY <1>1, <1>5, <1>6, <1>7, <1>8, <1>9, <2>1, <2>2 DEF Granted

LEMMA ExtendedRight ==
    ASSUME ClientInv, NEW m \in net, m.kind = "renew", NEW n \in Nonces,
           Unused(n), RenewAccepted(m, n), Reply(m, TRUE, soft', n), limit' = m.end
    PROVE  Extended(m)
<1> USE DEF ClientInv, FirmwareTyped, ClientTyped
<1>1. m \in RenewMessages
  BY DEF ArmMessages, RenewMessages
<1>2. /\ nonce.ok /\ m.nonce = nonce.val /\ nonce.age <= RenewNonceAge
      /\ m.auth > nonce.age /\ nonce.age \in Nat /\ m.auth \in Nat
  BY <1>1 DEF RenewAccepted, NonceCurrent, RenewMessages
<1>3. hard > 0 /\ st \in Armed /\ rec.id = m.id /\ m.seq = seq + 1
  BY DEF RenewAccepted, RenewValid, Armed
<1>4. soft' \in 0..TTL /\ soft' <= m.auth - nonce.age
  <2>1. soft' = MinOf({TTL, hard, m.auth - nonce.age})
    BY DEF RenewAccepted, RenewedSoft
  <2> QED
    <3>1. TTL \in Nat /\ hard \in Nat /\ hard > 0 /\ m.auth - nonce.age \in Nat
      BY <1>2, <1>3, BoundsAssumption
    <3>2. TTL \in Int /\ hard \in Int /\ m.auth - nonce.age \in Int
      BY <3>1
    <3>3. /\ MinOf({TTL, hard, m.auth - nonce.age}) \in {TTL, hard, m.auth - nonce.age}
          /\ MinOf({TTL, hard, m.auth - nonce.age}) <= TTL
          /\ MinOf({TTL, hard, m.auth - nonce.age}) <= m.auth - nonce.age
      BY ONLY <3>2, MinOfThree
    <3> QED
      BY <2>1, <3>1, <3>3
<1>5. UNCHANGED <<st, rec, hard>> /\ seq' = m.seq /\ prev' = nonce.val
  BY DEF RenewAccepted
<1>6. Renonced
  <2>1. nonce' = [val |-> n, age |-> 0, ok |-> TRUE] /\ n # nonce.val
    BY DEF RenewAccepted, NewNonce
  <2> QED
    BY <2>1 DEF Unused, Renonced
<1>7. Answered(m, TRUE, soft')
  <2> DEFINE a == [kind |-> "renew", id |-> m.id, seq |-> m.seq, ok |-> TRUE,
                   granted |-> soft', nonce |-> n]
  <2>1. a \in RenewReplies
    BY <1>1, <1>4 DEF RenewReplies, RenewMessages
  <2>2. replies' = replies \/ replies' = replies \cup {a}
    BY DEF Reply
  <2> QED
    BY <2>1, <2>2 DEF Answered
<1> QED
  BY <1>1, <1>2, <1>3, <1>4, <1>5, <1>6, <1>7 DEF Extended, Current

\* Every request meets one of the four.
LEMMA Outcomes ==
    ASSUME ClientInv, EspServes
    PROVE  \E m \in net :
             /\ net' \subseteq net /\ UNCHANGED haVars
             /\ Granted(m) \/ Extended(m) \/ Repeated(m) \/ Refused(m)
<1>1. PICK m \in net : (EspArms(m) \/ EspRenews(m)) /\ net' \in {net, net \ {m}}
  BY DEF EspServes
<1>2. net' \subseteq net /\ UNCHANGED haVars
  BY <1>1 DEF EspServes
<1>3. m.nonce \in Nonces /\ m.id \in LeaseIds
  BY <1>1 DEF ClientInv, ClientTyped, ArmMessages, RenewMessages
<1>4. CASE EspArms(m)
  <2>1. m.kind = "arm"
    BY <1>4 DEF EspArms
  <2>2. CASE \E n \in Nonces : Unused(n) /\ ArmAccepted(m, n)
                 /\ Reply(m, TRUE, soft', n) /\ limit' = m.end
    BY <1>2, <2>1, <2>2, GrantedArm
  <2>3. ASSUME UNCHANGED limit, Kept, Reply(m, FALSE, 0, m.nonce) \/ UNCHANGED replies
        PROVE  Refused(m)
    <3> DEFINE a == [kind |-> "arm", id |-> m.id, ok |-> FALSE, granted |-> 0,
                     nonce |-> m.nonce]
    <3>1. a \in ArmReplies
      BY <1>3, BoundsAssumption DEF ArmReplies
    <3>2. replies' = replies \/ replies' = replies \cup {a}
      BY <2>1, <2>3 DEF Reply
    <3> QED
      BY <2>1, <2>3, <3>1, <3>2 DEF Refused, Answered
  <2>4. CASE ~ArmAllowed(m) /\ Reply(m, FALSE, 0, m.nonce) /\ UNCHANGED <<espVars, limit>>
    <3>1. Kept
      BY <2>4 DEF espVars, vars, Kept
    <3> QED
      BY <1>2, <2>3, <2>4, <3>1
  <2>5. CASE (ArmStoreFailed(m) \/ ArmRolledBack(m) \/ ArmRollbackFailed(m))
                 /\ Reply(m, FALSE, 0, m.nonce) /\ UNCHANGED limit
    BY <1>2, <2>3, <2>5, ArmFails
  <2>6. CASE PowerLossInArm(m) /\ UNCHANGED <<replies, limit>>
    BY <1>2, <2>3, <2>6, ArmFails
  <2> QED
    BY <1>4, <2>2, <2>4, <2>5, <2>6 DEF EspArms
<1>5. CASE EspRenews(m)
  <2>1. m.kind = "renew" /\ m \in RenewMessages
    BY <1>5 DEF EspRenews, ClientInv, ClientTyped, ArmMessages, RenewMessages
  <2>2. CASE \E n \in Nonces : Unused(n) /\ RenewAccepted(m, n)
                 /\ Reply(m, TRUE, soft', n) /\ limit' = m.end
    BY <1>2, <2>1, <2>2, ExtendedRight
  <2>3. ASSUME NEW good \in BOOLEAN, NEW g \in 0..TTL, NEW n \in Nonces, Reply(m, good, g, n)
        PROVE  Answered(m, good, g)
    <3> DEFINE a == [kind |-> "renew", id |-> m.id, seq |-> m.seq, ok |-> good,
                     granted |-> g, nonce |-> n]
    <3>1. a \in RenewReplies
      BY <1>3, <2>1, <2>3 DEF RenewReplies, RenewMessages
    <3>2. replies' = replies \/ replies' = replies \cup {a}
      BY <2>1, <2>3 DEF Reply
    <3> QED
      BY <2>1, <3>1, <3>2 DEF Answered
  <2>4. CASE RenewDuplicate(m) /\ Reply(m, TRUE, soft, nonce.val)
                 /\ UNCHANGED <<espVars, limit>>
    <3>1. soft \in 0..TTL /\ nonce.val \in Nonces
      BY DEF ClientInv, FirmwareTyped
    <3>2. st \in Armed /\ rec.id = m.id /\ m.seq = seq
      BY <2>4 DEF RenewDuplicate, RenewValid, Armed
    <3>3. Repeated(m)
      BY <2>1, <2>3, <2>4, <3>1, <3>2 DEF Repeated
    <3> QED
      BY <1>2, <3>3
  <2>5. CASE Reply(m, FALSE, 0, m.nonce) /\ UNCHANGED <<espVars, limit>>
    <3>1. Kept
      BY <2>5 DEF espVars, vars, Kept
    <3>2. Answered(m, FALSE, 0)
      <4>1. 0 \in 0..TTL
        BY BoundsAssumption
      <4> QED
        BY <1>3, <2>3, <2>5, <4>1
    <3> QED
      BY <1>2, <2>5, <3>1, <3>2 DEF Refused
  <2> QED
    BY <1>5, <2>2, <2>4, <2>5 DEF EspRenews
<1> QED
  BY <1>1, <1>4, <1>5

-----------------------------------------------------------------------------
\* Responses are those that were there and at most one that answers the request.
LEMMA Replied ==
    ASSUME ClientInv, NEW m \in net, NEW good \in BOOLEAN, NEW g, Answered(m, good, g)
    PROVE  \A a \in replies' :
             \/ a \in replies
             \/ /\ a.kind = m.kind /\ a.id = m.id /\ a.granted = g
                /\ m.kind = "renew" => a.seq = m.seq
<1>1. m \in ArmMessages \/ m \in RenewMessages
  BY DEF ClientInv, ClientTyped
<1> QED
  BY <1>1 DEF Answered, ArmMessages, RenewMessages, ArmReplies, RenewReplies

LEMMA Denied ==
    ASSUME NEW m \in net, Answered(m, FALSE, 0)
    PROVE  \A a \in replies' : a \in replies \/ ~a.ok
BY DEF Answered

\* Counting down and counting up to a bound.
LEMMA Counting ==
    ASSUME NEW n \in Nat, NEW max \in Nat
    PROVE  /\ Dec(n) \in Nat /\ Dec(n) <= n /\ n - 1 <= Dec(n)
           /\ Within(n + 1, max) \in 0..max /\ Within(n + 1, max) \in Nat
           /\ Within(n + 1, max) <= n + 1
           /\ Within(n + 1, max) = n + 1 \/ Within(n + 1, max) = max
BY DEF Dec, Within

\* The nonce after a step that keeps or ends the lease.
LEMMA KeptNonce ==
    ASSUME ClientInv, Kept
    PROVE  /\ nonce' \in [val : Nonces, age : Nat, ok : BOOLEAN] /\ nonce.val' = nonce.val
           /\ nonce' = nonce \/ ~nonce.ok'
           /\ FirmwareTyped'
<1>1. nonce \in [val : Nonces, age : Nat, ok : BOOLEAN] /\ RenewNonceAge + 1 \in Nat
  BY BoundsAssumption DEF ClientInv, FirmwareTyped
<1>2. /\ Invalidated \in [val : Nonces, age : Nat, ok : BOOLEAN]
      /\ Invalidated.val = nonce.val /\ Invalidated.ok = FALSE
  BY <1>1 DEF Invalidated
<1>3. nonce' = nonce \/ nonce' = Invalidated
  BY DEF Kept
<1>4. /\ soft' \in 0..TTL /\ hard' \in Nat /\ seq' \in Nat /\ prev' \in Nonces
      /\ st' \in Armed => rec.id' \in LeaseIds
  <2>1. 0 \in 0..TTL
    BY BoundsAssumption
  <2> QED
    BY <2>1 DEF Kept, ClientInv, FirmwareTyped
<1> QED
  BY <1>1, <1>2, <1>3, <1>4 DEF FirmwareTyped

\* The firmware a second later.
LEMMA LaterFirmware ==
    ASSUME ClientInv, TimePasses
    PROVE  /\ nonce' \in [val : Nonces, age : Nat, ok : BOOLEAN]
           /\ nonce.val' = nonce.val /\ nonce.ok' = nonce.ok
           /\ nonce.age' <= RenewNonceAge => nonce.age' = nonce.age + 1
           /\ soft' = Dec(soft) /\ hard' = Dec(hard) /\ limit' = Dec(limit)
           /\ deadline' = Dec(deadline) /\ UNCHANGED <<st, rec, seq, prev, tx, session, gen, replies>>
BY BoundsAssumption DEF ClientInv, FirmwareTyped, TimePasses, Tick, Older

\* The messages a second later.
LEMMA LaterMessages ==
    ASSUME ClientInv, TimePasses
    PROVE  \A x \in net' : \E m \in net :
             /\ x.kind = m.kind /\ x.id = m.id /\ x.nonce = m.nonce /\ x.end = Dec(m.end)
             /\ m.kind = "arm" => x.hard = m.hard
             /\ m.kind = "renew" => x.seq = m.seq /\ x.auth = m.auth
<1> SUFFICES ASSUME NEW x \in net' PROVE
      \E m \in net :
             /\ x.kind = m.kind /\ x.id = m.id /\ x.nonce = m.nonce /\ x.end = Dec(m.end)
             /\ m.kind = "arm" => x.hard = m.hard
             /\ m.kind = "renew" => x.seq = m.seq /\ x.auth = m.auth
    OBVIOUS
<1>1. PICK m \in net : x = [m EXCEPT !.end = Dec(@)]
  BY DEF TimePasses
<1>2. m \in ArmMessages \cup RenewMessages
  BY <1>1 DEF ClientInv, ClientTyped
<1> QED
  BY <1>1, <1>2 DEF ArmMessages, RenewMessages

\* The right held a second later.
LEMMA LaterRight ==
    ASSUME ClientInv, TimePasses, handle' # None
    PROVE  /\ handle \in Rights /\ handle # None /\ handle' \in Rights
           /\ handle.id' = handle.id /\ handle.nonce' = handle.nonce
           /\ handle.seq' = handle.seq /\ handle.soft' = Dec(handle.soft)
           /\ handle.pend = None =>
                /\ handle.pend' = None
                /\ handle.recvAge' <= handle.recvAge + 1
           /\ handle.pend # None =>
                /\ handle.pend' # None
                /\ handle.pend.auth' = handle.pend.auth
                /\ handle.pend.end' = Dec(handle.pend.end)
                /\ handle.pend.age' = Within(handle.pend.age + 1, TTL)
<1>1. handle' = Aged(handle) /\ handle # None
  BY DEF TimePasses, Aged
<1>2. handle \in Rights
  BY <1>1 DEF ClientInv, ClientTyped
<1>5. Dec(handle.soft) \in Nat /\ Dec(handle.hard) \in Nat /\ Dec(handle.wait) \in Nat
  BY <1>2 DEF Rights, Dec
<1>3. CASE handle.pend = None
  <2>1. handle' = [handle EXCEPT !.soft = Dec(@), !.hard = Dec(@), !.wait = Dec(@),
                     !.recvAge = Within(@ + 1, MaxHard), !.pend = None]
    BY <1>1, <1>3 DEF Aged
  <2>2. handle.recvAge \in Nat /\ MaxHard \in Nat
    BY <1>2, BoundsAssumption DEF Rights
  <2>3. /\ Within(handle.recvAge + 1, MaxHard) <= handle.recvAge + 1
        /\ Within(handle.recvAge + 1, MaxHard) \in Nat
    BY <2>2, Counting
  <2> QED
    BY <1>1, <1>2, <1>3, <1>5, <2>1, <2>3 DEF Rights
<1>4. CASE handle.pend # None
  <2>1. handle.pend \in Pendings
    BY <1>2, <1>4 DEF Rights
  <2> DEFINE p == AgedPending(handle.pend)
  <2>2. handle' = [handle EXCEPT !.soft = Dec(@), !.hard = Dec(@), !.wait = Dec(@),
                     !.recvAge = IF handle.pend = None THEN Within(@ + 1, MaxHard) ELSE @,
                     !.pend = IF @ = None THEN None ELSE p]
    BY <1>1 DEF Aged
  <2>3. /\ p.auth = handle.pend.auth /\ p.end = Dec(handle.pend.end)
        /\ p.age = Within(handle.pend.age + 1, TTL)
    BY <2>1 DEF Pendings, AgedPending
  <2>4. p \in Pendings
    <3>1. handle.pend.age \in Nat /\ handle.pend.end \in Nat /\ TTL \in Nat
      BY <2>1, BoundsAssumption DEF Pendings
    <3>2. Within(handle.pend.age + 1, TTL) \in 0..TTL /\ Dec(handle.pend.end) \in Nat
      BY <3>1, Counting
    <3> QED
      BY <2>1, <3>2 DEF Pendings, AgedPending
  <2>5. p # None
    BY <2>4, ClientAssumption
  <2> HIDE DEF p
  <2>6. handle' \in Rights
    BY <1>2, <1>4, <1>5, <2>2, <2>4 DEF Rights
  <2>7. /\ handle.id' = handle.id /\ handle.nonce' = handle.nonce
        /\ handle.seq' = handle.seq /\ handle.soft' = Dec(handle.soft) /\ handle.pend' = p
    BY <1>2, <1>4, <2>2 DEF Rights
  <2> QED
    BY <1>1, <1>2, <1>4, <2>3, <2>5, <2>6, <2>7
<1> QED
  BY <1>3, <1>4

\* The arm in hand a second later.
LEMMA LaterArm ==
    ASSUME ClientInv, TimePasses, arming.phase' = "sent"
    PROVE  /\ arming.phase = "sent" /\ arming.id' = arming.id /\ arming.age \in 0..TTL
           /\ arming.age' = Within(arming.age + 1, TTL)
BY DEF ClientInv, ClientTyped, TimePasses, Armings

-----------------------------------------------------------------------------
\* Giving up an attempt or a right, losing messages, or doing nothing.
Lessened ==
    /\ UNCHANGED <<espVars, limit, session, tx, deadline>>
    /\ gen' \in {gen, Within(gen + 1, MaxGen)}
    /\ net' \subseteq net /\ replies' \subseteq replies
    /\ handle' \in {handle, None} /\ arming' \in {arming, Idle}

\* The steps of the system, those alike taken together.
LEMMA Steps ==
    ASSUME ClientInv, [LeaseNext]_allVars
    PROVE  \/ \E n \in Nonces : HaChallenge(n)
           \/ Lessened
           \/ HaRenewTimeout \/ HaNextTransaction \/ HaRestart \/ TimePasses
           \/ \E b \in ForcedBlocks, c \in BOOLEAN : HaSendArm(b, c)
           \/ \E r \in replies : HaArmReply(r) \/ HaRenewReply(r)
           \/ \E e \in 1..MaxHard : HaRenew(e)
           \/ \E m \in net :
                 /\ net' \subseteq net /\ UNCHANGED haVars
                 /\ Granted(m) \/ Extended(m) \/ Repeated(m) \/ Refused(m)
           \/ Kept /\ UNCHANGED <<haVars, netVars, limit>>
<1>1. ASSUME HaAbort \/ HaArmTimeout \/ HaExpire \/ RequestLost \/ UNCHANGED allVars
      PROVE  Lessened
  BY <1>1 DEF HaAbort, HaArmTimeout, HaExpire, RequestLost, allVars, haVars, netVars, Lessened
<1>2. ASSUME NEW e \in 1..MaxHard, HaPolicyShortened(e)
      PROVE  Lessened
  BY <1>2 DEF HaPolicyShortened, netVars, Lessened
<1>3. CASE EspServes
  BY <1>3, Outcomes
<1>4. CASE EspAlone
  BY <1>4, FirmwareAlone DEF EspAlone
<1> QED
  BY <1>1, <1>2, <1>3, <1>4 DEF LeaseNext, HaNext

\* The firmware's side of the types.
LEMMA FirmwareTypes ==
    ASSUME ClientInv, [LeaseNext]_allVars PROVE FirmwareTyped'
<1> USE DEF ClientInv, espVars, vars, haVars, netVars, FirmwareTyped, ClientTyped,
           Armed, LeaseIds, ArmMessages, RenewMessages
<1>1. ASSUME NEW n \in Nonces, HaChallenge(n)
      PROVE FirmwareTyped'
  BY <1>1 DEF HaChallenge, Challenge, NewNonce
<1>2. CASE Lessened
  BY <1>2 DEF Lessened, Idle
<1>3. CASE HaRenewTimeout
  BY <1>3 DEF HaRenewTimeout
<1>4. CASE HaNextTransaction
  BY <1>4 DEF HaNextTransaction
<1>5. CASE HaRestart
  BY <1>5 DEF HaRestart, Idle
<1>6. ASSUME NEW b \in ForcedBlocks, NEW c \in BOOLEAN, HaSendArm(b, c)
      PROVE FirmwareTyped'
  BY <1>6 DEF HaSendArm
<1>7. ASSUME NEW r \in replies, HaArmReply(r)
      PROVE FirmwareTyped'
  BY <1>7 DEF HaArmReply, HandleFrom, Idle
<1>8. ASSUME NEW r \in replies, HaRenewReply(r)
      PROVE FirmwareTyped'
  BY <1>8 DEF HaRenewReply, RenewAwaited, Renewed
<1>9. ASSUME NEW e \in 1..MaxHard, HaRenew(e)
      PROVE FirmwareTyped'
  BY <1>9 DEF HaRenew, RenewOf, Horizon
<1>10. ASSUME NEW m \in net, net' \subseteq net, UNCHANGED haVars, Granted(m)
      PROVE FirmwareTyped'
  BY <1>10 DEF Granted, Answered, Renonced, Current
<1>11. ASSUME NEW m \in net, net' \subseteq net, UNCHANGED haVars, Extended(m)
      PROVE FirmwareTyped'
  BY <1>11 DEF Extended, Answered, Renonced, Current
<1>12. ASSUME NEW m \in net, net' \subseteq net, UNCHANGED haVars, Repeated(m)
      PROVE FirmwareTyped'
  BY <1>12 DEF Repeated, Answered
<1>13. ASSUME NEW m \in net, net' \subseteq net, UNCHANGED haVars, Refused(m)
      PROVE FirmwareTyped'
  BY <1>13, KeptNonce DEF Refused
<1>14. ASSUME Kept, UNCHANGED <<haVars, netVars, limit>>
      PROVE FirmwareTyped'
  BY <1>14, KeptNonce
<1>15. CASE TimePasses
  <2>1. soft' \in 0..TTL /\ hard' \in Nat
    <3>1. soft \in Nat /\ soft <= TTL /\ hard \in Nat /\ TTL \in Nat
      BY BoundsAssumption
    <3>2. Dec(soft) \in Nat /\ Dec(soft) <= soft /\ Dec(hard) \in Nat
      BY <3>1, Counting
    <3>3. soft' = Dec(soft) /\ hard' = Dec(hard)
      BY <1>15, LaterFirmware
    <3> QED
      BY <3>1, <3>2, <3>3
  <2> QED
    BY <1>15, <2>1, LaterFirmware
<1> HIDE DEF ClientInv
<1> QED
  BY <1>1, <1>2, <1>3, <1>4, <1>5, <1>6, <1>7, <1>8, <1>9, <1>10, <1>11,
     <1>12, <1>13, <1>14, <1>15, Steps

\* The client's side of the types.
LEMMA ClientTypes ==
    ASSUME ClientInv, [LeaseNext]_allVars PROVE ClientTyped'
<1> USE DEF ClientInv, ClientTyped, espVars, haVars, netVars
<1>1. ASSUME NEW n \in Nonces, HaChallenge(n)
      PROVE ClientTyped'
  BY <1>1 DEF HaChallenge, Armings
<1>2. CASE Lessened
  <2>1. gen' \in 0..MaxGen
    BY <1>2, BoundsAssumption DEF Lessened, Within
  <2> QED
    BY <1>2, <2>1 DEF Lessened, Idle, Armings
<1>3. CASE HaRenewTimeout
  <2>1. handle' \in Rights \cup {None}
    BY <1>3, ClientAssumption DEF HaRenewTimeout, Rights
  <2> QED
    BY <1>3, <2>1 DEF HaRenewTimeout
<1>4. CASE HaNextTransaction
  <2>1. tx' \in Nat /\ deadline' \in Nat
    BY <1>4 DEF HaNextTransaction
  <2>2. replies' \subseteq replies /\ handle' = None
    BY <1>4 DEF HaNextTransaction
  <2> QED
    BY <1>4, <2>1, <2>2 DEF HaNextTransaction
<1>5. CASE HaRestart
  <2>1. session' \in Nat /\ gen' \in 0..MaxGen
    BY <1>5, BoundsAssumption DEF HaRestart
  <2> QED
    BY <1>5, <2>1 DEF HaRestart, Idle, Armings
<1>6. ASSUME NEW b \in ForcedBlocks, NEW c \in BOOLEAN, HaSendArm(b, c)
      PROVE ClientTyped'
  <2> DEFINE id == [session |-> session, tx |-> tx, gen |-> gen + 1]
             m == [kind |-> "arm", id |-> id, block |-> b, hard |-> ArmDeadline,
                   nonce |-> arming.nonce, current |-> c, end |-> ArmDeadline]
  <2>1. gen' = gen + 1 /\ gen' \in 0..MaxGen /\ id \in LeaseIds
    BY <1>6, BoundsAssumption DEF HaSendArm, LeaseIds
  <2>2. ArmDeadline \in Nat
    <3>1. CASE handle = None
      BY <3>1 DEF ArmDeadline
    <3>2. CASE handle # None
      <4>1. deadline \in Int /\ handle.hard \in Int /\ deadline \in Nat /\ handle.hard \in Nat
        BY <3>2 DEF Rights
      <4>2. MinOf({deadline, handle.hard}) \in {deadline, handle.hard}
        BY ONLY <4>1, MinOfTwo
      <4> QED
        BY <3>2, <4>1, <4>2 DEF ArmDeadline
    <3> QED
      BY <3>1, <3>2
  <2>3. arming.nonce \in Nonces
    BY <1>6 DEF HaSendArm, Armings
  <2>4. m \in ArmMessages
    BY <2>1, <2>2, <2>3 DEF ArmMessages
  <2>5. net' = net \cup {m}
    BY <1>6 DEF HaSendArm
  <2>6. arming' \in Armings
    <3>1. arming' = [phase |-> "sent", id |-> id, block |-> b, hard |-> ArmDeadline, age |-> 0]
      BY <1>6 DEF HaSendArm
    <3>2. 0 \in 0..TTL
      BY BoundsAssumption
    <3> QED
      BY <2>1, <2>2, <3>1, <3>2 DEF Armings
  <2> QED
    BY <1>6, <2>1, <2>4, <2>5, <2>6 DEF HaSendArm
<1>7. ASSUME NEW r \in replies, HaArmReply(r)
      PROVE ClientTyped'
  <2>1. arming.id \in LeaseIds /\ arming.block \in ForcedBlocks /\ arming.hard \in Nat
        /\ arming.age \in Nat
    BY <1>7 DEF HaArmReply, Armings
  <2>2. r.nonce \in Nonces /\ r.granted \in Nat
    BY <1>7 DEF ArmReplies, RenewReplies
  <2>3. arming.age < r.granted => HandleFrom(r) \in Rights
    BY <2>1, <2>2, ClientAssumption DEF HandleFrom, Rights
  <2>4. handle' \in Rights \cup {None}
    BY <1>7, <2>3 DEF HaArmReply
  <2> QED
    BY <1>7, <2>4 DEF HaArmReply, Idle, Armings
<1>8. ASSUME NEW r \in replies, HaRenewReply(r)
      PROVE ClientTyped'
  <2>1. r.nonce \in Nonces /\ r.granted \in Nat
    BY <1>8 DEF ArmReplies, RenewReplies
  <2>2. RenewAwaited /\ handle.pend.age < r.granted => Renewed(r) \in Rights
    <3> SUFFICES ASSUME RenewAwaited, handle.pend.age < r.granted PROVE Renewed(r) \in Rights
      OBVIOUS
    <3>1. handle \in Rights /\ handle.pend.age \in Nat
      BY DEF RenewAwaited, Rights, Pendings
    <3>2. handle.seq + 1 \in Nat /\ r.granted - handle.pend.age \in Nat
      BY <2>1, <3>1 DEF Rights
    <3>3. (IF handle.pend.age < RenewEvery THEN RenewEvery - handle.pend.age ELSE 0) \in Nat
      BY <3>1, ClientAssumption
    <3> HIDE DEF ClientInv, ClientTyped
    <3> QED
      BY <2>1, <3>1, <3>2, <3>3 DEF Renewed, Rights
  <2>3. handle' \in Rights \cup {None}
    BY <1>8, <2>2 DEF HaRenewReply
  <2> QED
    BY <1>8, <2>3 DEF HaRenewReply
<1>9. ASSUME NEW e \in 1..MaxHard, HaRenew(e)
      PROVE ClientTyped'
  <2>1. handle \in Rights /\ Horizon(e) \in Nat /\ e \in Nat
    BY <1>9 DEF HaRenew, Horizon, Rights
  <2>2. [age |-> 0, auth |-> Horizon(e), end |-> e] \in Pendings
    BY <2>1, BoundsAssumption DEF Pendings
  <2>3. handle' \in Rights /\ handle.pend' \in Pendings
    BY <1>9, <2>1, <2>2, ClientAssumption DEF HaRenew, Rights
  <2>4. RenewOf(handle') \in RenewMessages
    BY <2>3 DEF RenewOf, RenewMessages, Rights, Pendings
  <2>5. net' = net \cup {RenewOf(handle')}
    BY <1>9 DEF HaRenew
  <2> QED
    BY <1>9, <2>3, <2>4, <2>5 DEF HaRenew
<1>10. ASSUME NEW m \in net, net' \subseteq net, UNCHANGED haVars, limit' \in Nat,
              NEW good, NEW g, Answered(m, good, g)
      PROVE ClientTyped'
  BY <1>10 DEF Answered
<1>11. ASSUME NEW m \in net PROVE m.end \in Nat
  BY <1>11 DEF ArmMessages, RenewMessages
<1>12. CASE TimePasses
  <2>1. deadline' \in Nat /\ limit' \in Nat
    BY <1>12 DEF TimePasses, Dec
  <2>2. net' \subseteq ArmMessages \cup RenewMessages
    <3>0. \A k \in Nat : Dec(k) \in Nat
      BY DEF Dec
    <3>1. \A m \in ArmMessages : [m EXCEPT !.end = Dec(@)] \in ArmMessages
      BY <3>0 DEF ArmMessages
    <3>2. \A m \in RenewMessages : [m EXCEPT !.end = Dec(@)] \in RenewMessages
      BY <3>0 DEF RenewMessages
    <3> QED
      BY <1>12, <3>1, <3>2 DEF TimePasses
  <2>3. handle' \in Rights \cup {None}
    BY <1>12, LaterRight
  <2>4. arming' \in Armings
    <3>1. CASE arming.phase = "sent"
      <4>1. arming.age \in Nat /\ arming.hard \in Nat /\ TTL \in Nat
        BY <3>1, BoundsAssumption DEF Armings
      <4>2. Within(arming.age + 1, TTL) \in 0..TTL /\ Dec(arming.hard) \in Nat
        BY <4>1, Counting
      <4>3. arming' = [arming EXCEPT !.age = Within(@ + 1, TTL), !.hard = Dec(@)]
        BY <1>12, <3>1 DEF TimePasses
      <4> QED
        BY <3>1, <4>2, <4>3 DEF Armings
    <3>2. CASE arming.phase # "sent"
      BY <1>12, <3>2 DEF TimePasses
    <3> QED
      BY <3>1, <3>2
  <2> QED
    BY <1>12, <2>1, <2>2, <2>3, <2>4 DEF TimePasses
<1>13. ASSUME NEW m \in net, net' \subseteq net, UNCHANGED haVars,
              Granted(m) \/ Extended(m) \/ Repeated(m) \/ Refused(m)
      PROVE ClientTyped'
  <2>1. limit' \in Nat
    BY <1>11, <1>13 DEF Granted, Extended, Repeated, Refused
  <2>2. \E good, g : Answered(m, good, g)
    BY <1>13 DEF Granted, Extended, Repeated, Refused
  <2> QED
    BY <1>10, <1>13, <2>1, <2>2
<1>14. CASE UNCHANGED <<haVars, netVars, limit>>
  BY <1>14
<1> HIDE DEF ClientInv
<1> QED
  BY <1>1, <1>2, <1>3, <1>4, <1>5, <1>6, <1>7, <1>8, <1>9, <1>10, <1>11,
     <1>12, <1>13, <1>14, Steps

\* The policy end of a request and of a lease, on the two clocks.
LEMMA PolicyStep ==
    ASSUME ClientInv, PolicyInv, [LeaseNext]_allVars PROVE PolicyInv'
<1> USE DEF ClientInv, espVars, vars, haVars, netVars, ClientTyped, FirmwareTyped,
           PolicyInv, Asked, Armed, LeaseIds, ArmMessages, RenewMessages, ArmReplies,
           RenewReplies, Rights, Armings, Pendings
<1>1. ASSUME NEW n \in Nonces, HaChallenge(n)
      PROVE PolicyInv'
  BY <1>1 DEF HaChallenge, Challenge, NewNonce
<1>2. CASE Lessened
  BY <1>2 DEF Lessened, Idle
<1>3. CASE HaRenewTimeout
  BY <1>3 DEF HaRenewTimeout
<1>4. CASE HaNextTransaction
  <2>1. tx' = tx + 1 /\ handle' = None /\ UNCHANGED <<espVars, net, limit>>
    BY <1>4 DEF HaNextTransaction
  <2>2. \A m \in net : m.kind = "arm" => m.id.tx \in Nat
    BY DEF ArmMessages
  <2>3. st \in Armed => rec.id.tx \in Nat
    OBVIOUS
  <2> QED
    BY <2>1, <2>2, <2>3
<1>5. CASE HaRestart
  BY <1>5 DEF HaRestart, Idle
<1>6. ASSUME NEW b \in ForcedBlocks, NEW c \in BOOLEAN, HaSendArm(b, c)
      PROVE PolicyInv'
  <2>1. ArmDeadline \in Nat /\ ArmDeadline <= deadline
    <3>1. CASE handle = None
      BY <3>1 DEF ArmDeadline
    <3>2. CASE handle # None
      <4>1. deadline \in Int /\ handle.hard \in Int /\ deadline \in Nat /\ handle.hard \in Nat
        BY <3>2 DEF Rights
      <4>2. /\ MinOf({deadline, handle.hard}) \in {deadline, handle.hard}
            /\ MinOf({deadline, handle.hard}) <= deadline
        BY ONLY <4>1, MinOfTwo
      <4> QED
        BY <3>2, <4>1, <4>2 DEF ArmDeadline
    <3> QED
      BY <3>1, <3>2
  <2> DEFINE m == [kind |-> "arm", id |-> [session |-> session, tx |-> tx, gen |-> gen + 1],
                   block |-> b, hard |-> ArmDeadline, nonce |-> arming.nonce,
                   current |-> c, end |-> ArmDeadline]
  <2>5. net' = net \cup {m}
    BY <1>6 DEF HaSendArm
  <2>2. m.kind = "arm" /\ m.id.tx = tx /\ m.hard = ArmDeadline /\ m.end = ArmDeadline
    OBVIOUS
  <2>3. UNCHANGED <<espVars, limit, tx, deadline, handle>>
    BY <1>6 DEF HaSendArm
  <2>4. Asked(m) - nonce.age <= m.end
    BY <2>1, <2>2
  <2> HIDE DEF m
  <2> QED
    BY <2>1, <2>2, <2>3, <2>4, <2>5
<1>7. ASSUME NEW r \in replies, HaArmReply(r)
      PROVE PolicyInv'
  BY <1>7 DEF HaArmReply, HandleFrom, Idle
<1>8. ASSUME NEW r \in replies, HaRenewReply(r)
      PROVE PolicyInv'
  BY <1>8 DEF HaRenewReply, RenewAwaited, Renewed
<1>9. ASSUME NEW e \in 1..MaxHard, HaRenew(e)
      PROVE PolicyInv'
  BY <1>9 DEF HaRenew, RenewOf, Horizon
<1>10. ASSUME NEW m \in net, net' \subseteq net, UNCHANGED haVars, Granted(m)
      PROVE PolicyInv'
  BY <1>10 DEF Granted, Answered, Renonced, Current
<1>11. ASSUME NEW m \in net, net' \subseteq net, UNCHANGED haVars, Extended(m)
      PROVE PolicyInv'
  BY <1>11 DEF Extended, Answered, Renonced, Current
<1>12. ASSUME NEW m \in net, net' \subseteq net, UNCHANGED haVars, Repeated(m)
      PROVE PolicyInv'
  BY <1>12 DEF Repeated, Answered
<1>13. ASSUME NEW m \in net, net' \subseteq net, UNCHANGED haVars, Refused(m)
      PROVE PolicyInv'
  <2>1. /\ nonce.val' = nonce.val /\ (nonce' = nonce \/ ~nonce.ok')
        /\ UNCHANGED <<limit, tx, deadline, handle>> /\ net' \subseteq net
    BY <1>13, KeptNonce DEF Refused
  <2>2. /\ soft' \in {soft, 0} /\ hard' \in {hard, 0}
        /\ st' \in Armed => st \in Armed /\ UNCHANGED <<rec, soft, hard, seq>>
    BY <1>13 DEF Kept, Refused
  <2>3. soft' <= limit'
    BY <2>1, <2>2
  <2>4. /\ \A x \in net' : x.kind = "arm" => x.id.tx <= tx' /\ (x.id.tx = tx' => x.end <= deadline')
        /\ st' \in Armed => rec.id.tx' <= tx' /\ (rec.id.tx' = tx' => hard' <= deadline')
    BY <2>1, <2>2
  <2>5. nonce.ok' /\ nonce.age' <= RenewNonceAge =>
          /\ \A x \in net' : x.nonce = nonce.val' => Asked(x)' - nonce.age' <= x.end
          /\ handle' # None /\ handle.nonce' = nonce.val' =>
              IF handle.pend' = None THEN handle.recvAge' <= nonce.age'
              ELSE handle.pend.auth' - nonce.age' <= handle.pend.end'
    BY <2>1
  <2> QED
    BY <2>3, <2>4, <2>5
<1>14. ASSUME Kept, UNCHANGED <<haVars, netVars, limit>>
      PROVE PolicyInv'
  <2>1. /\ nonce.val' = nonce.val /\ (nonce' = nonce \/ ~nonce.ok')
        /\ UNCHANGED <<limit, tx, deadline, handle>> /\ net' \subseteq net
    BY <1>14, KeptNonce
  <2>2. /\ soft' \in {soft, 0} /\ hard' \in {hard, 0}
        /\ st' \in Armed => st \in Armed /\ UNCHANGED <<rec, soft, hard, seq>>
    BY <1>14 DEF Kept
  <2>3. soft' <= limit'
    BY <2>1, <2>2
  <2>4. /\ \A x \in net' : x.kind = "arm" => x.id.tx <= tx' /\ (x.id.tx = tx' => x.end <= deadline')
        /\ st' \in Armed => rec.id.tx' <= tx' /\ (rec.id.tx' = tx' => hard' <= deadline')
    BY <2>1, <2>2
  <2>5. nonce.ok' /\ nonce.age' <= RenewNonceAge =>
          /\ \A x \in net' : x.nonce = nonce.val' => Asked(x)' - nonce.age' <= x.end
          /\ handle' # None /\ handle.nonce' = nonce.val' =>
              IF handle.pend' = None THEN handle.recvAge' <= nonce.age'
              ELSE handle.pend.auth' - nonce.age' <= handle.pend.end'
    BY <2>1
  <2> QED
    BY <2>3, <2>4, <2>5
<1>15. CASE TimePasses
  <2>1. /\ soft \in Nat /\ hard \in Nat /\ deadline \in Nat /\ limit \in Nat /\ nonce.age \in Nat
        /\ RenewNonceAge \in Nat
    BY BoundsAssumption
  <2>2. \A m \in net : m.end \in Nat /\ Asked(m) \in Nat
    OBVIOUS
  <2>3. handle # None /\ handle.pend # None =>
          handle.pend.auth \in Nat /\ handle.pend.end \in Nat
    OBVIOUS
  <2>4. handle # None => handle.recvAge \in Nat
    OBVIOUS
  <2>5. \A n \in Nat : Dec(n) \in Nat /\ Dec(n) <= n /\ n - 1 <= Dec(n)
    BY DEF Dec
  <2>6. \A n, k \in Nat : n <= k => Dec(n) <= Dec(k)
    BY DEF Dec
  <2> HIDE DEF ClientInv, ClientTyped, FirmwareTyped, LeaseIds, ArmMessages, RenewMessages,
               ArmReplies, RenewReplies, Rights, Armings, Pendings, Armed
  <2>7. \A x \in net' : \E m \in net :
           /\ x.kind = m.kind /\ x.id = m.id /\ x.nonce = m.nonce /\ x.end = Dec(m.end)
           /\ Asked(x) = Asked(m)
    <3> TAKE x \in net'
    <3>1. PICK m \in net :
             /\ x.kind = m.kind /\ x.id = m.id /\ x.nonce = m.nonce /\ x.end = Dec(m.end)
             /\ m.kind = "arm" => x.hard = m.hard
             /\ m.kind = "renew" => x.seq = m.seq /\ x.auth = m.auth
      BY <1>15, LaterMessages
    <3>2. m.kind \in {"arm", "renew"}
      BY DEF ClientInv, ClientTyped, ArmMessages, RenewMessages
    <3> QED
      BY <3>1, <3>2
  <2>8. soft' <= limit'
    BY <1>15, <2>1, <2>6, LaterFirmware
  <2>9. \A x \in net' : x.kind = "arm" => x.id.tx <= tx' /\ (x.id.tx = tx' => x.end <= deadline')
    <3> TAKE x \in net'
    <3>1. PICK m \in net : x.kind = m.kind /\ x.id = m.id /\ x.end = Dec(m.end)
      BY <2>7
    <3>2. deadline' = Dec(deadline) /\ tx' = tx
      BY <1>15, LaterFirmware
    <3>3. m.end <= deadline => Dec(m.end) <= Dec(deadline)
      BY <2>1, <2>2, <2>6
    <3> QED
      BY <3>1, <3>2, <3>3
  <2>10. st' \in Armed => rec.id.tx' <= tx' /\ (rec.id.tx' = tx' => hard' <= deadline')
    <3>1. /\ deadline' = Dec(deadline) /\ tx' = tx /\ hard' = Dec(hard)
          /\ st' = st /\ rec' = rec
      BY <1>15, LaterFirmware
    <3>2. hard <= deadline => Dec(hard) <= Dec(deadline)
      BY <2>1, <2>6
    <3> QED
      BY <3>1, <3>2
  <2>11. ASSUME nonce.ok', nonce.age' <= RenewNonceAge
         PROVE  /\ \A x \in net' : x.nonce = nonce.val' => Asked(x) - nonce.age' <= x.end
                /\ handle' # None /\ handle.nonce' = nonce.val' =>
                    IF handle.pend' = None THEN handle.recvAge' <= nonce.age'
                    ELSE handle.pend.auth' - nonce.age' <= handle.pend.end'
    <3>1. /\ nonce.val' = nonce.val /\ nonce.ok /\ nonce.age' = nonce.age + 1
          /\ nonce.age <= RenewNonceAge
      <4>1. nonce.val' = nonce.val /\ nonce.ok /\ nonce.age' = nonce.age + 1
        BY <1>15, <2>11, LaterFirmware
      <4> QED
        BY <2>1, <2>11, <4>1
    <3>2. ASSUME NEW x \in net', x.nonce = nonce.val' PROVE Asked(x) - nonce.age' <= x.end
      <4>1. PICK m \in net : x.nonce = m.nonce /\ x.end = Dec(m.end) /\ Asked(x) = Asked(m)
        BY <2>7
      <4>2. Asked(m) - nonce.age <= m.end /\ m.end - 1 <= Dec(m.end)
        BY <2>2, <2>5, <3>1, <3>2, <4>1
      <4>3. Asked(m) \in Nat /\ m.end \in Nat /\ Dec(m.end) \in Nat
        BY <2>2, <2>5
      <4> HIDE DEF Asked
      <4> QED
        BY <2>1, <3>1, <4>1, <4>2, <4>3
    <3>3. ASSUME handle' # None, handle.nonce' = nonce.val'
          PROVE  IF handle.pend' = None THEN handle.recvAge' <= nonce.age'
                 ELSE handle.pend.auth' - nonce.age' <= handle.pend.end'
      <4>0. /\ handle # None /\ handle.nonce = nonce.val
            /\ handle.pend = None => handle.pend' = None /\ handle.recvAge' <= handle.recvAge + 1
            /\ handle.pend # None =>
                 /\ handle.pend' # None /\ handle.pend.auth' = handle.pend.auth
                 /\ handle.pend.end' = Dec(handle.pend.end)
        BY <1>15, <3>1, <3>3, LaterRight
      <4>1. CASE handle.pend = None
        <5>1. handle.recvAge <= nonce.age /\ handle.recvAge' <= handle.recvAge + 1
          BY <3>1, <4>0, <4>1
        <5>2. handle' \in Rights
          BY <1>15, <3>3, LaterRight
        <5>3. handle.recvAge' \in Nat
          BY <5>2 DEF Rights
        <5> QED
          BY <2>1, <2>4, <3>1, <4>0, <4>1, <5>1, <5>3
      <4>2. CASE handle.pend # None
        <5>1. handle.pend.auth - nonce.age <= handle.pend.end
          BY <3>1, <4>0, <4>2
        <5>2. /\ handle.pend.auth \in Nat /\ handle.pend.end \in Nat
              /\ Dec(handle.pend.end) \in Nat /\ handle.pend.end - 1 <= Dec(handle.pend.end)
          BY <2>3, <2>5, <4>0, <4>2
        <5> QED
          BY <2>1, <3>1, <4>0, <4>2, <5>1, <5>2
      <4> QED
        BY <4>1, <4>2
    <3> QED
      BY <3>2, <3>3
  <2> QED
    BY <2>8, <2>9, <2>10, <2>11
<1> HIDE DEF ClientInv
<1> QED
  BY <1>1, <1>2, <1>3, <1>4, <1>5, <1>6, <1>7, <1>8, <1>9, <1>10, <1>11,
     <1>12, <1>13, <1>14, <1>15, Steps

\* No identity is drawn twice.
LEMMA IdentityStep ==
    ASSUME ClientInv, IdentityInv, [LeaseNext]_allVars PROVE IdentityInv'
<1> USE DEF ClientInv, espVars, vars, haVars, netVars, ClientTyped, IdentityInv,
           Issued, LeaseIds, ArmMessages, RenewMessages, ArmReplies, RenewReplies,
           Rights, Armings, Pendings
<1>1. ASSUME NEW n \in Nonces, HaChallenge(n)
      PROVE IdentityInv'
  BY <1>1 DEF HaChallenge, Challenge, NewNonce
<1>2. CASE Lessened
  <2>1. gen \in Nat /\ gen' \in Nat /\ gen <= gen'
    BY <1>2, BoundsAssumption DEF Lessened, Within
  <2>2. \A i \in LeaseIds : Issued(i) => Issued(i)'
    BY <1>2, <2>1 DEF Lessened
  <2>3. /\ \A m \in net \cup replies : m.id \in LeaseIds
        /\ handle # None => handle.id \in LeaseIds
        /\ arming.phase = "sent" => arming.id \in LeaseIds
    OBVIOUS
  <2>4. /\ net' \subseteq net /\ replies' \subseteq replies /\ handle' \in {handle, None}
        /\ arming' = arming \/ arming.phase' # "sent"
    BY <1>2 DEF Lessened, Idle
  <2> HIDE DEF ClientInv, ClientTyped, LeaseIds, ArmMessages, RenewMessages, ArmReplies,
               RenewReplies, Rights, Armings, Pendings
  <2> HIDE DEF Issued
  <2> QED
    BY <2>2, <2>3, <2>4
<1>3. CASE HaRenewTimeout
  BY <1>3 DEF HaRenewTimeout
<1>4. CASE HaNextTransaction
  BY <1>4 DEF HaNextTransaction
<1>5. CASE HaRestart
  <2>1. /\ session' = session + 1 /\ replies' = {} /\ handle' = None /\ arming' = Idle
        /\ UNCHANGED net
    BY <1>5 DEF HaRestart
  <2>2. \A i \in LeaseIds : Issued(i) => Issued(i)'
    BY <2>1
  <2>3. \A m \in net : m.id \in LeaseIds
    OBVIOUS
  <2> HIDE DEF ClientInv, ClientTyped, LeaseIds, ArmMessages, RenewMessages, ArmReplies,
               RenewReplies, Rights, Armings, Pendings
  <2> HIDE DEF Issued
  <2> QED
    BY <2>1, <2>2, <2>3 DEF Idle
<1>6. ASSUME NEW b \in ForcedBlocks, NEW c \in BOOLEAN, HaSendArm(b, c)
      PROVE IdentityInv'
  <2>1. PICK i, m :
          /\ i = [session |-> session, tx |-> tx, gen |-> gen + 1]
          /\ m = [kind |-> "arm", id |-> i, block |-> b, hard |-> ArmDeadline,
                  nonce |-> arming.nonce, current |-> c, end |-> ArmDeadline]
    OBVIOUS
  <2>2. /\ net' = net \cup {m} /\ arming.id' = i /\ UNCHANGED <<replies, handle, session>>
        /\ gen' = gen + 1
    BY <1>6, <2>1 DEF HaSendArm
  <2>3. \A k \in LeaseIds : Issued(k) => k # i /\ Issued(k)'
    BY <2>1, <2>2
  <2>4. Issued(i)' /\ m.id = i /\ m.kind = "arm"
    BY <2>1, <2>2
  <2>5. /\ \A x \in net \cup replies : x.id \in LeaseIds
        /\ handle # None => handle.id \in LeaseIds
    OBVIOUS
  <2> HIDE DEF ClientInv, ClientTyped, LeaseIds, ArmMessages, RenewMessages, ArmReplies,
               RenewReplies, Rights, Armings, Pendings
  <2> HIDE DEF Issued
  <2> QED
    BY <2>2, <2>3, <2>4, <2>5
<1>7. ASSUME NEW r \in replies, HaArmReply(r)
      PROVE IdentityInv'
  BY <1>7 DEF HaArmReply, HandleFrom, Idle
<1>8. ASSUME NEW r \in replies, HaRenewReply(r)
      PROVE IdentityInv'
  BY <1>8 DEF HaRenewReply, RenewAwaited, Renewed
<1>9. ASSUME NEW e \in 1..MaxHard, HaRenew(e)
      PROVE IdentityInv'
  BY <1>9 DEF HaRenew, RenewOf, Horizon
<1>10. ASSUME NEW m \in net, net' \subseteq net, UNCHANGED haVars, Granted(m)
      PROVE IdentityInv'
  BY <1>10 DEF Granted, Answered, Renonced, Current
<1>11. ASSUME NEW m \in net, net' \subseteq net, UNCHANGED haVars, Extended(m)
      PROVE IdentityInv'
  BY <1>11 DEF Extended, Answered, Renonced, Current
<1>12. ASSUME NEW m \in net, net' \subseteq net, UNCHANGED haVars, Repeated(m)
      PROVE IdentityInv'
  BY <1>12 DEF Repeated, Answered
<1>13. ASSUME NEW m \in net, net' \subseteq net, UNCHANGED haVars, Refused(m)
      PROVE IdentityInv'
  <2> HIDE DEF ClientInv, ClientTyped, LeaseIds, ArmMessages, RenewMessages, ArmReplies,
               RenewReplies, Rights, Armings, Pendings
  <2>1. \A a \in replies' : a \in replies \/ (a.kind = m.kind /\ a.id = m.id)
    BY <1>13, Replied DEF Refused
  <2> QED
    BY <1>13, <2>1
<1>14. ASSUME Kept, UNCHANGED <<haVars, netVars, limit>>
      PROVE IdentityInv'
  BY <1>14, KeptNonce DEF Kept
<1>15. CASE TimePasses
  <2> HIDE DEF ClientInv, ClientTyped, LeaseIds, ArmMessages, RenewMessages, ArmReplies,
               RenewReplies, Rights, Armings, Pendings
  <2>1. \A x \in net' : \E m \in net : x.kind = m.kind /\ x.id = m.id
    BY <1>15, LaterMessages
  <2>2. UNCHANGED <<session, gen, replies>>
    BY <1>15, LaterFirmware
  <2>3. handle' # None => handle # None /\ handle.id' = handle.id
    BY <1>15, LaterRight
  <2>4. arming.phase' = "sent" => arming.phase = "sent" /\ arming.id' = arming.id
    BY <1>15, LaterArm
  <2> QED
    BY <2>1, <2>2, <2>3, <2>4
<1> HIDE DEF ClientInv
<1> QED
  BY <1>1, <1>2, <1>3, <1>4, <1>5, <1>6, <1>7, <1>8, <1>9, <1>10, <1>11,
     <1>12, <1>13, <1>14, <1>15, Steps

\* A granted arm is never granted again.
LEMMA SpentStep ==
    ASSUME ClientInv, IdentityInv, SpentInv, [LeaseNext]_allVars PROVE SpentInv'
<1> USE DEF ClientInv, espVars, vars, haVars, netVars, ClientTyped, IdentityInv,
           Issued, SpentInv, LeaseIds, ArmMessages, RenewMessages, ArmReplies,
           RenewReplies, Rights, Armings, Pendings
<1>1. ASSUME NEW n \in Nonces, HaChallenge(n)
      PROVE SpentInv'
  BY <1>1 DEF HaChallenge, Challenge, NewNonce
<1>2. CASE Lessened
  BY <1>2 DEF Lessened, Idle
<1>3. CASE HaRenewTimeout
  BY <1>3 DEF HaRenewTimeout
<1>4. CASE HaNextTransaction
  BY <1>4 DEF HaNextTransaction
<1>5. CASE HaRestart
  BY <1>5 DEF HaRestart, Idle
<1>6. ASSUME NEW b \in ForcedBlocks, NEW c \in BOOLEAN, HaSendArm(b, c)
      PROVE SpentInv'
  BY <1>6 DEF HaSendArm
<1>7. ASSUME NEW r \in replies, HaArmReply(r)
      PROVE SpentInv'
  BY <1>7 DEF HaArmReply, HandleFrom, Idle
<1>8. ASSUME NEW r \in replies, HaRenewReply(r)
      PROVE SpentInv'
  BY <1>8 DEF HaRenewReply, RenewAwaited, Renewed
<1>9. ASSUME NEW e \in 1..MaxHard, HaRenew(e)
      PROVE SpentInv'
  BY <1>9 DEF HaRenew, RenewOf, Horizon
<1>10. ASSUME NEW m \in net, net' \subseteq net, UNCHANGED haVars, Granted(m)
      PROVE SpentInv'
  BY <1>10 DEF Granted, Answered, Renonced, Current
<1>11. ASSUME NEW m \in net, net' \subseteq net, UNCHANGED haVars, Extended(m)
      PROVE SpentInv'
  BY <1>11 DEF Extended, Answered, Renonced, Current
<1>12. ASSUME NEW m \in net, net' \subseteq net, UNCHANGED haVars, Repeated(m)
      PROVE SpentInv'
  BY <1>12 DEF Repeated, Answered
<1>13. ASSUME NEW m \in net, net' \subseteq net, UNCHANGED haVars, Refused(m)
      PROVE SpentInv'
  <2> HIDE DEF ClientInv, ClientTyped, LeaseIds, ArmMessages, RenewMessages, ArmReplies,
               RenewReplies, Rights, Armings, Pendings
  <2>1. \A a \in replies' : a \in replies \/ ~a.ok
    BY <1>13, Denied DEF Refused
  <2>2. nonce.val' = nonce.val
    BY <1>13, KeptNonce DEF Refused
  <2> QED
    BY <1>13, <2>1, <2>2
<1>14. ASSUME Kept, UNCHANGED <<haVars, netVars, limit>>
      PROVE SpentInv'
  <2> HIDE DEF ClientInv, ClientTyped, LeaseIds, ArmMessages, RenewMessages, ArmReplies,
               RenewReplies, Rights, Armings, Pendings
  <2>1. nonce.val' = nonce.val
    BY <1>14, KeptNonce
  <2> QED
    BY <1>14, <2>1
<1>15. CASE TimePasses
  <2> HIDE DEF ClientInv, ClientTyped, LeaseIds, ArmMessages, RenewMessages, ArmReplies,
               RenewReplies, Rights, Armings, Pendings
  <2>1. \A x \in net' : \E m \in net : x.kind = m.kind /\ x.id = m.id /\ x.nonce = m.nonce
    BY <1>15, LaterMessages
  <2>2. UNCHANGED replies /\ nonce.val' = nonce.val
    BY <1>15, LaterFirmware
  <2>3. handle' # None => handle # None /\ handle.id' = handle.id
    BY <1>15, LaterRight
  <2> QED
    BY <2>1, <2>2, <2>3
<1> HIDE DEF ClientInv
<1> QED
  BY <1>1, <1>2, <1>3, <1>4, <1>5, <1>6, <1>7, <1>8, <1>9, <1>10, <1>11,
     <1>12, <1>13, <1>14, <1>15, Steps

\* What a response offers to the arm in hand.
LEMMA OfferStep ==
    ASSUME ClientInv, IdentityInv, SpentInv, OfferInv, [LeaseNext]_allVars PROVE OfferInv'
<1> USE DEF ClientInv, espVars, vars, haVars, netVars, ClientTyped, FirmwareTyped,
           IdentityInv, Issued, SpentInv, OfferInv, Armed, LeaseIds, ArmMessages,
           RenewMessages, ArmReplies, RenewReplies, Rights, Armings, Pendings
<1>1. ASSUME NEW n \in Nonces, HaChallenge(n)
      PROVE OfferInv'
  BY <1>1 DEF HaChallenge, Challenge, NewNonce
<1>2. CASE Lessened
  BY <1>2 DEF Lessened, Idle
<1>3. CASE HaRenewTimeout
  BY <1>3 DEF HaRenewTimeout
<1>4. CASE HaNextTransaction
  BY <1>4 DEF HaNextTransaction
<1>5. CASE HaRestart
  BY <1>5 DEF HaRestart, Idle
<1>6. ASSUME NEW b \in ForcedBlocks, NEW c \in BOOLEAN, HaSendArm(b, c)
      PROVE OfferInv'
  BY <1>6 DEF HaSendArm
<1>7. ASSUME NEW r \in replies, HaArmReply(r)
      PROVE OfferInv'
  BY <1>7 DEF HaArmReply, HandleFrom, Idle
<1>8. ASSUME NEW r \in replies, HaRenewReply(r)
      PROVE OfferInv'
  BY <1>8 DEF HaRenewReply, RenewAwaited, Renewed
<1>9. ASSUME NEW e \in 1..MaxHard, HaRenew(e)
      PROVE OfferInv'
  BY <1>9 DEF HaRenew, RenewOf, Horizon
<1>10. ASSUME NEW m \in net, net' \subseteq net, UNCHANGED haVars, Granted(m)
      PROVE OfferInv'
  <2>1. m.kind = "arm" /\ m.nonce = nonce.val /\ rec.id' = m.id /\ soft' \in 0..TTL
    BY <1>10 DEF Granted, Current
  <2>2. arming.phase = "sent" => arming.age \in Nat
    OBVIOUS
  <2> HIDE DEF ClientInv, ClientTyped, FirmwareTyped, LeaseIds, ArmMessages, RenewMessages,
               ArmReplies, RenewReplies, Rights, Armings, Pendings, Armed
  <2>3. \A a \in replies' : a \in replies \/ a.granted = soft'
    <3>1. Answered(m, TRUE, soft')
      BY <1>10 DEF Granted
    <3> QED
      BY <3>1 DEF Answered
  <2>4. \A a \in replies : a.kind = "arm" /\ a.ok => a.id # m.id
    BY <2>1
  <2> QED
    BY <1>10, <2>1, <2>2, <2>3, <2>4
<1>11. ASSUME NEW m \in net, net' \subseteq net, UNCHANGED haVars, Extended(m)
      PROVE OfferInv'
  <2>1. m.kind = "renew" /\ rec' = rec /\ rec.id = m.id
    BY <1>11 DEF Extended
  <2> HIDE DEF ClientInv, ClientTyped, FirmwareTyped, LeaseIds, ArmMessages, RenewMessages,
               ArmReplies, RenewReplies, Rights, Armings, Pendings, Armed
  <2> QED
    BY <1>11, <2>1
<1>12. ASSUME NEW m \in net, net' \subseteq net, UNCHANGED haVars, Repeated(m)
      PROVE OfferInv'
  BY <1>12 DEF Repeated, Answered
<1>13. ASSUME NEW m \in net, net' \subseteq net, UNCHANGED haVars, Refused(m)
      PROVE OfferInv'
  BY <1>13, KeptNonce DEF Refused, Kept, Answered
<1>14. ASSUME Kept, UNCHANGED <<haVars, netVars, limit>>
      PROVE OfferInv'
  BY <1>14, KeptNonce DEF Kept
<1>15. CASE TimePasses
  <2>1. TTL \in Nat /\ soft \in Nat
    BY BoundsAssumption
  <2>2. \A r \in replies : r.granted \in Nat /\ r.granted <= TTL
    BY <2>1
  <2>3. Dec(soft) \in Nat /\ soft - 1 <= Dec(soft)
    BY <2>1, Counting
  <2> HIDE DEF ClientInv, ClientTyped, FirmwareTyped, LeaseIds, ArmMessages, RenewMessages,
               ArmReplies, RenewReplies, Rights, Armings, Pendings, Armed
  <2>4. soft' = Dec(soft) /\ UNCHANGED <<st, rec, replies>>
    BY <1>15, LaterFirmware
  <2>5. SUFFICES ASSUME arming.phase' = "sent", st \in Armed, NEW r \in replies,
                        r.kind = "arm", r.ok, r.id = arming.id', rec.id = r.id
                 PROVE  r.granted - arming.age' <= Dec(soft)
    BY <2>4
  <2>6. /\ arming.phase = "sent" /\ arming.id' = arming.id /\ arming.age \in Nat
        /\ arming.age' = Within(arming.age + 1, TTL)
    BY <1>15, <2>1, <2>5, LaterArm
  <2>7. arming.age' = arming.age + 1 \/ arming.age' = TTL
    BY <2>1, <2>6, Counting
  <2>8. r.granted - arming.age <= soft
    BY <2>5, <2>6
  <2> QED
    BY <2>1, <2>2, <2>3, <2>6, <2>7, <2>8
<1> HIDE DEF ClientInv
<1> QED
  BY <1>1, <1>2, <1>3, <1>4, <1>5, <1>6, <1>7, <1>8, <1>9, <1>10, <1>11,
     <1>12, <1>13, <1>14, <1>15, Steps

\* What is held, and what a response offers to the renewal in hand.
LEMMA RightStep ==
    ASSUME ClientInv, IdentityInv, SpentInv, OfferInv, RightInv, [LeaseNext]_allVars PROVE RightInv'
<1> USE DEF ClientInv, espVars, vars, haVars, netVars, ClientTyped, FirmwareTyped,
           IdentityInv, Issued, SpentInv, OfferInv, RightInv, Uncertain, Armed,
           LeaseIds, ArmMessages, RenewMessages, ArmReplies, RenewReplies, Rights,
           Armings, Pendings
<1>1. ASSUME NEW n \in Nonces, HaChallenge(n)
      PROVE RightInv'
  BY <1>1 DEF HaChallenge, Challenge, NewNonce
<1>2. CASE Lessened
  BY <1>2 DEF Lessened, Idle
<1>3. CASE HaRenewTimeout
  BY <1>3 DEF HaRenewTimeout
<1>4. CASE HaNextTransaction
  BY <1>4 DEF HaNextTransaction
<1>5. CASE HaRestart
  BY <1>5 DEF HaRestart, Idle
<1>6. ASSUME NEW b \in ForcedBlocks, NEW c \in BOOLEAN, HaSendArm(b, c)
      PROVE RightInv'
  BY <1>6 DEF HaSendArm
<1>7. ASSUME NEW r \in replies, HaArmReply(r)
      PROVE RightInv'
  BY <1>7 DEF HaArmReply, HandleFrom, Idle
<1>8. ASSUME NEW r \in replies, HaRenewReply(r)
      PROVE RightInv'
  BY <1>8 DEF HaRenewReply, RenewAwaited, Renewed
<1>9. ASSUME NEW e \in 1..MaxHard, HaRenew(e)
      PROVE RightInv'
  <2>1. CASE handle.pend # None
    <3>1. handle' = handle /\ net' = net \cup {RenewOf(handle)}
      BY <1>9, <2>1 DEF HaRenew
    <3>2. RenewOf(handle).seq = handle.seq + 1 /\ handle.seq \in Nat
      BY <1>9 DEF RenewOf, HaRenew
    <3> HIDE DEF ClientInv, ClientTyped, FirmwareTyped, Rights, Pendings, ArmMessages, RenewMessages
    <3> QED
      BY <1>9, <2>1, <3>1, <3>2 DEF HaRenew
  <2>2. CASE handle.pend = None
    <3> DEFINE p == [age |-> 0, auth |-> Horizon(e), end |-> e]
    <3>1. handle \in Rights /\ handle # None /\ UNCHANGED <<replies, espVars>>
      BY <1>9 DEF HaRenew
    <3>2. p \in Pendings
      BY <3>1, BoundsAssumption DEF Horizon
    <3>3. handle' = [handle EXCEPT !.wait = RenewEvery, !.pend = p]
      BY <1>9, <2>2 DEF HaRenew
    <3>4. handle.pend' = p /\ handle.id' = handle.id /\ handle.seq' = handle.seq
      BY <3>1, <3>3
    <3>5. net' = net \cup {RenewOf(handle')} /\ RenewOf(handle').seq = handle.seq + 1
      BY <1>9, <3>4 DEF HaRenew, RenewOf
    <3>6. handle.pend' # None /\ handle.seq \in Nat
      BY <3>1, <3>2, <3>4, ClientAssumption
    <3>7. /\ \A m \in net : m.kind = "renew" => m.seq \in Nat
          /\ \A m \in replies : m.kind = "renew" => m.seq \in Nat
      OBVIOUS
    <3> HIDE DEF p, RenewOf, ClientInv, ClientTyped, FirmwareTyped, Rights, Pendings,
             ArmMessages, RenewMessages, ArmReplies, RenewReplies, Armings, LeaseIds
    <3>8. \A m \in net \cup replies :
            m.kind = "renew" /\ m.id = handle.id => m.seq <= handle.seq
      BY <2>2, <3>1, <3>6, <3>7
    <3> QED
      BY <3>1, <3>4, <3>5, <3>6, <3>7, <3>8
  <2> QED
    BY <2>1, <2>2
<1>10. ASSUME NEW m \in net, net' \subseteq net, UNCHANGED haVars, Granted(m)
      PROVE RightInv'
  BY <1>10 DEF Granted, Answered, Renonced, Current
<1>11. ASSUME NEW m \in net, net' \subseteq net, UNCHANGED haVars, Extended(m)
      PROVE RightInv'
  BY <1>11 DEF Extended, Answered, Renonced, Current
<1>12. ASSUME NEW m \in net, net' \subseteq net, UNCHANGED haVars, Repeated(m)
      PROVE RightInv'
  BY <1>12 DEF Repeated, Answered
<1>13. ASSUME NEW m \in net, net' \subseteq net, UNCHANGED haVars, Refused(m)
      PROVE RightInv'
  <2>1. st' \in Armed => st \in Armed /\ UNCHANGED <<rec, soft, seq>>
    BY <1>13 DEF Kept, Refused
  <2> HIDE DEF ClientInv, ClientTyped, FirmwareTyped, LeaseIds, ArmMessages, RenewMessages,
               ArmReplies, RenewReplies, Rights, Armings, Pendings, Armed
  <2>2. \A a \in replies' : a \in replies \/ ~a.ok
    BY <1>13, Denied DEF Refused
  <2>3. \A a \in replies' :
          \/ a \in replies
          \/ a.kind = m.kind /\ a.id = m.id /\ (m.kind = "renew" => a.seq = m.seq)
    BY <1>13, Replied DEF Refused
  <2> QED
    BY <1>13, <2>1, <2>2, <2>3
<1>14. ASSUME Kept, UNCHANGED <<haVars, netVars, limit>>
      PROVE RightInv'
  BY <1>14, KeptNonce DEF Kept
<1>15. CASE TimePasses
  <2>1. TTL \in Nat /\ soft \in Nat
    BY BoundsAssumption
  <2>2. \A r \in replies : r.granted \in Nat /\ r.granted <= TTL
    BY <2>1
  <2>3. /\ Dec(soft) \in Nat /\ soft - 1 <= Dec(soft)
        /\ \A n \in Nat : n <= soft => Dec(n) <= Dec(soft)
    BY <2>1 DEF Dec
  <2>4. handle # None =>
          handle.soft \in Nat /\ (handle.pend # None => handle.pend.age \in Nat)
    BY <2>1
  <2> HIDE DEF ClientInv, ClientTyped, FirmwareTyped, LeaseIds, ArmMessages, RenewMessages,
               ArmReplies, RenewReplies, Rights, Armings, Pendings, Armed
  <2>5. soft' = Dec(soft) /\ UNCHANGED <<st, rec, seq, replies>>
    BY <1>15, LaterFirmware
  <2>6. \A x \in net' : \E m \in net :
          x.kind = m.kind /\ x.id = m.id /\ (m.kind = "renew" => x.seq = m.seq)
    BY <1>15, LaterMessages
  <2>7. SUFFICES ASSUME handle' # None PROVE RightInv'
    OBVIOUS
  <2>8. /\ handle # None /\ handle.id' = handle.id /\ handle.seq' = handle.seq
        /\ handle.soft' = Dec(handle.soft) /\ Uncertain' = Uncertain
        /\ handle.pend = None <=> handle.pend' = None
    BY <1>15, <2>7, LaterRight
  <2>9. \A m \in net' \cup replies' :
          m.kind = "renew" /\ m.id = handle.id' => m.seq <= handle.seq' + Uncertain'
    BY <2>5, <2>6, <2>7, <2>8
  <2>10. ASSUME st \in Armed, rec.id = handle.id
         PROVE  /\ seq >= handle.seq
                /\ handle.pend = None => Dec(handle.soft) <= Dec(soft)
                /\ handle.pend # None =>
                    \A r \in replies :
                      r.kind = "renew" /\ r.ok /\ r.id = handle.id /\ r.seq = handle.seq + 1
                        => seq >= r.seq /\ r.granted - handle.pend.age' <= Dec(soft)
    <3>1. handle.pend # None => handle.pend.age' = handle.pend.age + 1 \/ handle.pend.age' = TTL
      BY <1>15, <2>1, <2>4, <2>7, <2>8, LaterRight, Counting
    <3> QED
      BY <2>1, <2>2, <2>3, <2>4, <2>8, <2>10, <3>1
  <2> QED
    BY <2>5, <2>8, <2>9, <2>10
<1> HIDE DEF ClientInv
<1> QED
  BY <1>1, <1>2, <1>3, <1>4, <1>5, <1>6, <1>7, <1>8, <1>9, <1>10, <1>11,
     <1>12, <1>13, <1>14, <1>15, Steps

-----------------------------------------------------------------------------
(* The two properties. *)

\* The inductive invariant.
LeaseInv == ClientInv /\ PolicyInv /\ IdentityInv /\ SpentInv /\ OfferInv /\ RightInv

\* Nothing was sent and no lease is armed at first.
LEMMA LeaseInvInit == LeaseInit => LeaseInv
<1> SUFFICES ASSUME LeaseInit PROVE LeaseInv
  OBVIOUS
<1>1. /\ soft = 0 /\ hard = 0 /\ seq = 0 /\ prev \in Nonces /\ st \notin Armed
      /\ nonce \in [val : Nonces, age : Nat, ok : BOOLEAN] /\ ~nonce.ok
  <2>1. RenewNonceAge + 1 \in Nat
    BY BoundsAssumption
  <2> QED
    BY <2>1 DEF LeaseInit, Init, Armed
<1>2. FirmwareTyped
  BY <1>1, BoundsAssumption DEF FirmwareTyped
<1>3. ClientTyped
  BY BoundsAssumption DEF LeaseInit, ClientTyped, Armings, Idle
<1>4. /\ net = {} /\ replies = {} /\ handle = None /\ arming = Idle /\ limit = 0
  BY DEF LeaseInit
<1> QED
  BY <1>1, <1>2, <1>3, <1>4 DEF LeaseInv, ClientInv, PolicyInv, IdentityInv, SpentInv, OfferInv,
     RightInv, Idle

\* Every step of the firmware, of Home Assistant and of the clocks keeps it.
LEMMA LeaseInvStep == LeaseInv /\ [LeaseNext]_allVars => LeaseInv'
<1> SUFFICES ASSUME LeaseInv, [LeaseNext]_allVars PROVE LeaseInv'
  OBVIOUS
<1>1. ClientInv'
  BY FirmwareTypes, ClientTypes DEF LeaseInv, ClientInv
<1> QED
  BY <1>1, PolicyStep, IdentityStep, SpentStep, OfferStep, RightStep DEF LeaseInv

\* What either end knows of the other holds in every behaviour of the two.
THEOREM LeaseInvariant == LeaseSpec => []LeaseInv
BY LeaseInvInit, LeaseInvStep, PTL DEF LeaseSpec

\* Home Assistant never believes to hold more of a lease than the firmware still
\* grants of it, whatever was delayed, lost or seen twice.
THEOREM RightsWithinFirmware == LeaseSpec => []ClientWithinFirmware
<1>1. LeaseInv => ClientWithinFirmware
  BY DEF LeaseInv, RightInv, ClientWithinFirmware
<1> QED
  BY <1>1, LeaseInvariant, PTL

\* The firmware never forces longer than the request it accepted last allowed, nor
\* past the deadline of the transaction that asked.
THEOREM LeaseWithinPolicy == LeaseSpec => []WithinPolicy
<1>1. LeaseInv => WithinPolicy
  BY DEF LeaseInv, PolicyInv, WithinPolicy
<1> QED
  BY <1>1, LeaseInvariant, PTL
=============================================================================
