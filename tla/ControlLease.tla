---------------------------- MODULE ControlLease ----------------------------
(***************************************************************************)
(* The two ends of the control lease and the native API between them: the   *)
(* Home Assistant client (supervisor_control_lease.py), the arm and renewal *)
(* tasks that drive it (supervisor_sensor.py), and the firmware (EspLease). *)
(*                                                                         *)
(* A request may be delayed, lost or, when Home Assistant repeats it, seen  *)
(* twice; a response may be late or lost, and a response nobody waits for   *)
(* any more is dropped.  Both ends count the same seconds from different    *)
(* anchors: the client from the moment it sent, the firmware from the       *)
(* moment it issued the nonce or received the request.                      *)
(***************************************************************************)
EXTENDS EspLease, FiniteSets

CONSTANTS
    None,          \* no handle, no pending renewal, no request
    RenewEvery,    \* 20 s between renewals
    MaxNet         \* bound on the requests in transit

Pendings == [age : 0..TTL, auth : Nat, end : Nat]    \* _PendingRenewal
ASSUME ClientAssumption ==
    /\ RenewEvery \in Nat /\ MaxNet \in Nat /\ Sessions \subseteq Nat /\ Txs \subseteq Nat
    /\ None \notin Pendings

VARIABLES
    session,    \* ControlLeaseClient.session_id
    gen,        \* ControlLeaseClient._generation
    tx,         \* the transaction the controller executes
    deadline,   \* time left to its deadline
    handle,     \* ControlLeaseClient.handle
    arming,     \* the arm attempt: idle, challenged or awaiting its response
    renewing,   \* the renewal whose response the renewal task awaits
    net,        \* requests in transit
    replies,    \* responses in transit
    limit       \* history: time to the policy end the last accepted request carried

haVars == <<session, gen, tx, deadline, handle, arming, renewing>>
netVars == <<net, replies>>
espVars == vars
allVars == <<espVars, haVars, netVars, limit>>

Idle == [phase |-> "idle"]
Within(n, max) == IF n < max THEN n ELSE max

LeaseInit ==
    /\ Init
    /\ session = 1 /\ gen = 0 /\ tx = 1 /\ deadline \in 1..MaxHard
    /\ handle = None /\ arming = Idle /\ renewing = None
    /\ net = {} /\ replies = {} /\ limit = 0

-----------------------------------------------------------------------------
(* Arming: challenge, last authorization, request, response. *)

HaChallenge(n) ==
    /\ arming = Idle
    /\ n \notin {m.nonce : m \in net}
    /\ handle # None => n # handle.nonce
    /\ Challenge(n)
    /\ arming' = [phase |-> "challenged", nonce |-> n]
    /\ UNCHANGED <<session, gen, tx, deadline, handle, renewing, netVars, limit>>

\* The authorization checked after the challenge, before or after prepare_arm
\* draws a generation, is gone: nothing is sent.
HaAbort ==
    /\ arming.phase = "challenged"
    /\ arming' = Idle /\ gen' \in {gen, Within(gen + 1, MaxGen)}
    /\ UNCHANGED <<espVars, session, tx, deadline, handle, renewing, netVars, limit>>

\* prepare_arm: a retarget keeps the transaction and the earlier deadline.
ArmDeadlineFixed == MaxHard
ArmDeadline == IF handle = None THEN deadline ELSE MinOf({deadline, handle.hard})

HaSendArm(b, c) ==
    /\ arming.phase = "challenged" /\ Cardinality(net) < MaxNet
    /\ handle # None => handle.id.tx = tx
    /\ ArmDeadline >= 1 /\ gen + 1 <= MaxGen
    /\ gen' = gen + 1
    /\ LET id == [session |-> session, tx |-> tx, gen |-> gen + 1] IN
        /\ net' = net \cup {[kind |-> "arm", id |-> id, block |-> b,
                             hard |-> ArmDeadline, nonce |-> arming.nonce,
                             current |-> c, end |-> ArmDeadline]}
        /\ arming' = [phase |-> "sent", id |-> id, block |-> b,
                      hard |-> ArmDeadline, age |-> 0]
    /\ UNCHANGED <<espVars, session, tx, deadline, handle, renewing, replies, limit>>

\* accept_arm: the right runs from the moment the request was sent.
HandleFromReceipt(r) ==
    [id |-> arming.id, block |-> arming.block, nonce |-> r.nonce, seq |-> 0,
     soft |-> r.granted, hard |-> arming.hard, recvAge |-> 0,
     wait |-> RenewEvery, pend |-> None]
HandleFrom(r) ==
    [id |-> arming.id, block |-> arming.block, nonce |-> r.nonce, seq |-> 0,
     soft |-> r.granted - arming.age, hard |-> arming.hard, recvAge |-> 0,
     wait |-> IF arming.age < RenewEvery THEN RenewEvery - arming.age ELSE 0,
     pend |-> None]

HaArmReply(r) ==
    /\ arming.phase = "sent" /\ r.kind = "arm" /\ r.id = arming.id
    /\ arming' = Idle /\ replies' = replies \ {r}
    /\ handle' = IF r.ok /\ arming.age < r.granted THEN HandleFrom(r) ELSE None
    /\ UNCHANGED <<espVars, session, gen, tx, deadline, renewing, net, limit>>

\* The call fails: the outcome is unknown and the old right is kept.
HaArmTimeout ==
    /\ arming.phase = "sent"
    /\ arming' = Idle
    /\ replies' = {r \in replies : r.kind # "arm"}
    /\ UNCHANGED <<espVars, session, gen, tx, deadline, handle, renewing, net, limit>>

-----------------------------------------------------------------------------
(* Renewing. *)

Lapsed(h) == h.hard = 0 \/ IF h.pend = None THEN h.soft = 0 ELSE h.pend.age >= TTL

HaExpire ==
    /\ handle # None /\ Lapsed(handle)
    /\ handle' = None
    /\ UNCHANGED <<espVars, session, gen, tx, deadline, arming, renewing, netVars, limit>>

\* The request of the pending renewal of h, with the policy end it stated.
RenewOf(h) ==
    [kind |-> "renew", id |-> h.id, block |-> h.block, seq |-> h.seq + 1,
     nonce |-> h.nonce, auth |-> h.pend.auth, authorized |-> TRUE, end |-> h.pend.end]

\* The horizon of the policy end e, counted from the receipt of the nonce.
Horizon(e) == e + handle.recvAge

\* prepare_renew, for a policy that now ends in e
HaRenew(e) ==
    /\ handle # None /\ ~Lapsed(handle) /\ renewing = None
    /\ handle.wait = 0 /\ e <= handle.hard /\ handle.seq < MaxSeq
    /\ Horizon(e) <= MaxHard
    /\ handle.pend # None => e >= handle.pend.end
    /\ Cardinality(net) < MaxNet
    /\ handle' = IF handle.pend # None THEN handle
                 ELSE [handle EXCEPT !.wait = RenewEvery,
                         !.pend = [age |-> 0, auth |-> Horizon(e), end |-> e]]
    /\ net' = net \cup {RenewOf(handle')}
    /\ renewing' = [id |-> handle.id, seq |-> handle.seq + 1]
    /\ UNCHANGED <<espVars, session, gen, tx, deadline, arming, replies, limit>>

\* The policy ends earlier than an uncertain request said: never repeat it.
HaPolicyShortened(e) ==
    /\ handle # None /\ ~Lapsed(handle) /\ renewing = None /\ handle.wait = 0
    /\ handle.pend # None /\ e < handle.pend.end
    /\ handle' = None
    /\ UNCHANGED <<espVars, session, gen, tx, deadline, arming, renewing, netVars, limit>>

RenewAwaited == handle # None /\ handle.pend # None
    /\ renewing = [id |-> handle.id, seq |-> handle.seq + 1]

\* process_renew_response: the new right runs from the first send.
RenewedOnReceipt(r) ==
    [handle EXCEPT !.seq = @ + 1, !.pend = None, !.nonce = r.nonce,
        !.recvAge = 0, !.soft = r.granted, !.wait = RenewEvery]
Renewed(r) ==
    [handle EXCEPT
        !.seq = @ + 1, !.pend = None, !.nonce = r.nonce, !.recvAge = 0,
        !.soft = r.granted - handle.pend.age,
        !.wait = IF handle.pend.age < RenewEvery THEN RenewEvery - handle.pend.age ELSE 0]

HaRenewReply(r) ==
    /\ renewing # None /\ r.kind = "renew" /\ r.id = renewing.id /\ r.seq = renewing.seq
    /\ renewing' = None /\ replies' = replies \ {r}
    /\ handle' = IF ~RenewAwaited THEN handle
                 ELSE IF r.ok /\ handle.pend.age < r.granted THEN Renewed(r) ELSE None
    /\ UNCHANGED <<espVars, session, gen, tx, deadline, arming, net, limit>>

\* The call fails: the same sequence is repeated later.
HaRenewTimeout ==
    /\ renewing # None /\ renewing' = None
    /\ handle' = IF handle = None THEN None ELSE [handle EXCEPT !.wait = RenewEvery]
    /\ replies' = {r \in replies : r.kind # "renew"}
    /\ UNCHANGED <<espVars, session, gen, tx, deadline, arming, net, limit>>

-----------------------------------------------------------------------------
(* The end of a transaction and of the process. *)

\* The terminal record is published: drop the right; the next one may start.
HaNextTransaction ==
    /\ arming = Idle /\ tx + 1 \in Txs
    /\ tx' = tx + 1 /\ deadline' \in 1..MaxHard
    /\ handle' = None /\ renewing' = None
    /\ replies' = {r \in replies : r.kind # "renew"}
    /\ UNCHANGED <<espVars, session, gen, arming, net, limit>>

HaRestart ==
    /\ Mishap /\ session + 1 \in Sessions
    /\ session' = session + 1 /\ gen' = 0
    /\ handle' = None /\ arming' = Idle /\ renewing' = None /\ replies' = {}
    /\ UNCHANGED <<ramVars, flashVars, readVars, plantVars, last, tx, deadline,
                   net, limit>>

-----------------------------------------------------------------------------
(* The firmware serves a request. *)

Awaited(m) ==
    IF m.kind = "arm" THEN arming.phase = "sent" /\ arming.id = m.id
    ELSE renewing = [id |-> m.id, seq |-> m.seq]

Reply(m, ok, granted, n) ==
    replies' = IF ~Awaited(m) THEN replies
               ELSE replies \cup
                 {IF m.kind = "arm"
                  THEN [kind |-> "arm", id |-> m.id, ok |-> ok, granted |-> granted, nonce |-> n]
                  ELSE [kind |-> "renew", id |-> m.id, seq |-> m.seq, ok |-> ok,
                        granted |-> granted, nonce |-> n]}

Unused(n) ==
    /\ n \notin {m.nonce : m \in net}
    /\ handle # None => n # handle.nonce
    /\ \A r \in replies : n # r.nonce

EspArms(m) ==
    /\ m.kind = "arm"
    /\ \/ \E n \in Nonces : Unused(n) /\ ArmAccepted(m, n)
            /\ Reply(m, TRUE, soft', n) /\ limit' = m.end
       \/ (ArmStoreFailed(m) \/ ArmRolledBack(m) \/ ArmRollbackFailed(m))
            /\ Reply(m, FALSE, 0, m.nonce) /\ UNCHANGED limit
       \/ ~ArmAllowed(m) /\ Reply(m, FALSE, 0, m.nonce) /\ UNCHANGED <<espVars, limit>>
       \/ PowerLossInArm(m) /\ UNCHANGED <<replies, limit>>

EspRenews(m) ==
    /\ m.kind = "renew"
    /\ \/ \E n \in Nonces : Unused(n) /\ RenewAccepted(m, n)
            /\ Reply(m, TRUE, soft', n) /\ limit' = m.end
       \/ /\ RenewDuplicate(m) /\ Reply(m, TRUE, soft, nonce.val)
          /\ UNCHANGED <<espVars, limit>>
       \/ /\ ~RenewDuplicate(m)
          /\ ~(RenewValid(m) /\ m.seq = seq + 1
               /\ NonceCurrent(m.nonce, RenewNonceAge) /\ m.auth > nonce.age)
          /\ Reply(m, FALSE, 0, m.nonce) /\ UNCHANGED <<espVars, limit>>

EspServes ==
    /\ \E m \in net : (EspArms(m) \/ EspRenews(m)) /\ net' \in {net, net \ {m}}
    /\ UNCHANGED haVars

RequestLost ==
    /\ \E m \in net : net' = net \ {m}
    /\ UNCHANGED <<espVars, haVars, replies, limit>>

-----------------------------------------------------------------------------
AgedPending(p) == [p EXCEPT !.age = Within(@ + 1, TTL), !.end = Dec(@)]
Aged(h) ==
    IF h = None THEN None
    ELSE [h EXCEPT !.soft = Dec(@), !.hard = Dec(@), !.wait = Dec(@),
            !.recvAge = IF h.pend = None THEN Within(@ + 1, MaxHard) ELSE @,
            !.pend = IF @ = None THEN None ELSE AgedPending(@)]

TimePasses ==
    /\ Tick
    /\ deadline' = Dec(deadline) /\ limit' = Dec(limit)
    /\ handle' = Aged(handle)
    /\ arming' = IF arming.phase = "sent"
                 THEN [arming EXCEPT !.age = Within(@ + 1, TTL), !.hard = Dec(@)]
                 ELSE arming
    /\ net' = {[m EXCEPT !.end = Dec(@)] : m \in net}
    /\ UNCHANGED <<session, gen, tx, renewing, replies>>

HaNext ==
    \/ \E n \in Nonces : HaChallenge(n)
    \/ HaAbort \/ HaArmTimeout \/ HaExpire \/ HaRenewTimeout
    \/ HaNextTransaction \/ HaRestart
    \/ \E b \in ForcedBlocks, c \in BOOLEAN : HaSendArm(b, c)
    \/ \E r \in replies : HaArmReply(r) \/ HaRenewReply(r)
    \/ \E e \in 1..MaxHard : HaRenew(e) \/ HaPolicyShortened(e)

EspAlone == (Modbus \/ Timer \/ Outside) /\ UNCHANGED <<haVars, netVars, limit>>

LeaseNext == HaNext \/ EspServes \/ RequestLost \/ EspAlone \/ TimePasses

LeaseSpec == LeaseInit /\ [][LeaseNext]_allVars

-----------------------------------------------------------------------------
(* Correctness. *)

\* The right Home Assistant believes it holds never outlasts the firmware's
\* lease of the same identity, however the messages were delayed or repeated.
ClientWithinFirmware ==
    handle # None /\ handle.pend = None /\ st \in Armed /\ rec.id = handle.id
        => handle.soft <= soft

\* The firmware's soft lease ends by the policy end that Home Assistant stated
\* in the request accepted last, and its hard deadline by the transaction's.
WithinPolicy ==
    st \in Armed => /\ soft <= limit
                    /\ rec.id.tx = tx => hard <= deadline

\* Aborting a retarget before it is sent leaves the lease of the confirmed
\* predecessor renewable: the client still holds the nonce the firmware expects.
Renewable == nonce.ok /\ nonce.val = handle.nonce
PredecessorSurvivesAbort ==
    [][ HaAbort /\ handle # None /\ st = "confirmed" /\ rec.id = handle.id
            => Renewable ]_allVars
=============================================================================
