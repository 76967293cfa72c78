---------------------- MODULE SupervisorControllerProofs ----------------------
(***************************************************************************)
(* Theorems about the active controller and its executor, for any blocks,   *)
(* any number of arms, MASTER STOPs and mishaps.                            *)
(***************************************************************************)
EXTENDS SupervisorController, FiniteSetTheorems, TLAPS

-----------------------------------------------------------------------------
(* What the operations make of a record.                                   *)

LEMMA Fields ==
    /\ \A r \in Records :
          /\ r.st \in States /\ r.tx \in Transactions \cup {None} /\ r.allowed \in BOOLEAN
          /\ r.mst \in {"no", "running", "completed", "blocked", "failed"} /\ r.held \in BOOLEAN
    /\ \A t \in Transactions :
          /\ t.st \in States /\ t.own \in {"none", "auto", "manual"}
          /\ t.b \in Blocks /\ t.base \in Blocks /\ t.pre \in Snapshots \cup {None}
          /\ t.sent \in Ages \cup {"no"} /\ t.ack \in BOOLEAN /\ t.rb \in {"pending", "failed"}
          /\ t.rcmd \in BOOLEAN /\ t.rsnap \in Snapshots \cup {None} /\ t.moved \in BOOLEAN
          /\ t.rsent \in Ages \cup {"no"} /\ t.att \in 0..2 /\ t.refused \in 0..2
          /\ t.lid \in Nat /\ t.master \in BOOLEAN
<1>1. \A r \in Records :
          /\ r.st \in States /\ r.tx \in Transactions \cup {None} /\ r.allowed \in BOOLEAN
          /\ r.mst \in {"no", "running", "completed", "blocked", "failed"} /\ r.held \in BOOLEAN
  BY DEF Records
<1>2. \A t \in Transactions :
          /\ t.st \in States /\ t.own \in {"none", "auto", "manual"}
          /\ t.b \in Blocks /\ t.base \in Blocks /\ t.pre \in Snapshots \cup {None}
          /\ t.sent \in Ages \cup {"no"} /\ t.ack \in BOOLEAN /\ t.rb \in {"pending", "failed"}
          /\ t.rcmd \in BOOLEAN /\ t.rsnap \in Snapshots \cup {None} /\ t.moved \in BOOLEAN
          /\ t.rsent \in Ages \cup {"no"} /\ t.att \in 0..2 /\ t.refused \in 0..2
          /\ t.lid \in Nat /\ t.master \in BOOLEAN
  BY DEF Transactions
<1>. QED  BY <1>1, <1>2

\* A transaction with one field changed is a transaction.
LEMMA Updates ==
    ASSUME NEW u \in Transactions
    PROVE  /\ \A x \in States : [u EXCEPT !.st = x] \in Transactions
           /\ \A x \in Blocks : [u EXCEPT !.b = x] \in Transactions
           /\ \A x \in Blocks : [u EXCEPT !.base = x] \in Transactions
           /\ \A x \in Snapshots \cup {None} : [u EXCEPT !.pre = x] \in Transactions
           /\ \A x \in Ages \cup {"no"} : [u EXCEPT !.sent = x] \in Transactions
           /\ \A x \in BOOLEAN : [u EXCEPT !.ack = x] \in Transactions
           /\ \A x \in {"pending", "failed"} : [u EXCEPT !.rb = x] \in Transactions
           /\ \A x \in BOOLEAN : [u EXCEPT !.rcmd = x] \in Transactions
           /\ \A x \in Snapshots \cup {None} : [u EXCEPT !.rsnap = x] \in Transactions
           /\ \A x \in BOOLEAN : [u EXCEPT !.moved = x] \in Transactions
           /\ \A x \in Ages \cup {"no"} : [u EXCEPT !.rsent = x] \in Transactions
           /\ \A x \in 0..2 : [u EXCEPT !.att = x] \in Transactions
           /\ \A x \in 0..2 : [u EXCEPT !.refused = x] \in Transactions
<1>1. \A x \in States : [u EXCEPT !.st = x] \in Transactions
  BY DEF Transactions
<1>2. \A x \in Blocks : [u EXCEPT !.b = x] \in Transactions
  BY DEF Transactions
<1>3. \A x \in Blocks : [u EXCEPT !.base = x] \in Transactions
  BY DEF Transactions
<1>4. \A x \in Snapshots \cup {None} : [u EXCEPT !.pre = x] \in Transactions
  BY DEF Transactions
<1>5. \A x \in Ages \cup {"no"} : [u EXCEPT !.sent = x] \in Transactions
  BY DEF Transactions
<1>6. \A x \in BOOLEAN : [u EXCEPT !.ack = x] \in Transactions
  BY DEF Transactions
<1>7. \A x \in {"pending", "failed"} : [u EXCEPT !.rb = x] \in Transactions
  BY DEF Transactions
<1>8. \A x \in BOOLEAN : [u EXCEPT !.rcmd = x] \in Transactions
  BY DEF Transactions
<1>9. \A x \in Snapshots \cup {None} : [u EXCEPT !.rsnap = x] \in Transactions
  BY DEF Transactions
<1>10. \A x \in BOOLEAN : [u EXCEPT !.moved = x] \in Transactions
  BY DEF Transactions
<1>11. \A x \in Ages \cup {"no"} : [u EXCEPT !.rsent = x] \in Transactions
  BY DEF Transactions
<1>12. \A x \in 0..2 : [u EXCEPT !.att = x] \in Transactions
  BY DEF Transactions
<1>13. \A x \in 0..2 : [u EXCEPT !.refused = x] \in Transactions
  BY DEF Transactions
<1>. QED  BY <1>1, <1>2, <1>3, <1>4, <1>5, <1>6, <1>7, <1>8, <1>9,
              <1>10, <1>11, <1>12, <1>13

\* The record and its transaction change state, and nothing else.
LEMMA PublishIs ==
    ASSUME NEW r \in Records, NEW t \in Transactions, NEW st \in States
    PROVE  /\ Publish(r, st, t) \in Records
           /\ Publish(r, st, t).st = st /\ Publish(r, st, t).mst = r.mst
           /\ Publish(r, st, t).allowed = r.allowed /\ ~Publish(r, st, t).held
           /\ Publish(r, st, t).tx \in Transactions
           /\ Publish(r, st, t).tx = [t EXCEPT !.st = st]
<1>. DEFINE u == [t EXCEPT !.st = st]
<1>1. u \in Transactions
  BY Updates
<1>2. Publish(r, st, t) = [r EXCEPT !.st = st, !.tx = u, !.held = FALSE]
  BY DEF Publish
<1>. HIDE DEF u
<1>3. Publish(r, st, t) \in Records
  BY <1>1, <1>2 DEF Records
<1>4. /\ Publish(r, st, t).st = st /\ Publish(r, st, t).mst = r.mst
      /\ Publish(r, st, t).allowed = r.allowed /\ ~Publish(r, st, t).held
      /\ Publish(r, st, t).tx = u
  BY <1>2 DEF Records
<1>. QED  BY <1>1, <1>3, <1>4 DEF u

LEMMA PublishState ==
    \A r \in Records : \A t, st : Publish(r, st, t).st = st /\ Publish(r, st, t).mst = r.mst
BY DEF Publish, Records

LEMMA StateOnly ==
    ASSUME NEW t \in Transactions, NEW st, NEW q, q = [t EXCEPT !.st = st]
    PROVE  /\ q.own = t.own /\ q.b = t.b /\ q.base = t.base /\ q.pre = t.pre /\ q.sent = t.sent
           /\ q.ack = t.ack /\ q.rb = t.rb /\ q.rcmd = t.rcmd /\ q.rsnap = t.rsnap
           /\ q.moved = t.moved /\ q.rsent = t.rsent /\ q.att = t.att
           /\ q.refused = t.refused /\ q.lid = t.lid /\ q.master = t.master
BY SMT DEF Transactions

LEMMA DroppedIs ==
    ASSUME NEW t \in Transactions, NEW q, q = RestoreDropped(t)
    PROVE  /\ q \in Transactions /\ ~q.rcmd /\ q.rsent = "no" /\ ~q.moved
           /\ q.own = t.own /\ q.b = t.b /\ q.base = t.base /\ q.pre = t.pre /\ q.sent = t.sent
           /\ q.ack = t.ack /\ q.rb = t.rb /\ q.rsnap = t.rsnap /\ q.att = t.att
           /\ q.refused = t.refused /\ q.lid = t.lid /\ q.master = t.master
<1>1. RestoreDropped(t) \in Transactions
  BY DEF RestoreDropped, Transactions, Ages
<1>. QED  BY <1>1, SMT DEF RestoreDropped, Transactions

LEMMA UnownedIs ==
    ASSUME NEW b \in Blocks, NEW st \in States
    PROVE  /\ Unowned(st, b) \in Transactions /\ Unowned(st, b).own = "none"
           /\ Unowned(st, b).att = 0 /\ Unowned(st, b).refused = 0
           /\ ~Unowned(st, b).rcmd /\ ~Unowned(st, b).master
           /\ Unowned(st, b).rsent = "no" /\ Unowned(st, b).sent = "no"
BY SMT DEF Unowned, Transactions, Ages, States

-----------------------------------------------------------------------------
(* The shape of a record: who owns what in which state.                    *)

\* A forced block is wanted and no restore has been attempted.
Fresh(t) == t.b \in Forced /\ t.att = 0 /\ ~t.rcmd /\ t.refused = 0 /\ ~t.master
Working == {"starting", "waiting", "executing", "retargeting"}
WellFormed(st, t) ==
    /\ st # "idle"
    /\ (t.own = "none") <=> (st \in {"selected", "blocked"})
    /\ st \in Working \cup {"selected"} => Fresh(t)
    /\ st \in Working => t.own = "auto"
    /\ PreparedUnsent(t) => t.att >= 1
    /\ st = "restoring" => t.rsent # "no"
Shape(r) ==
    /\ r \in Records
    /\ IF r.tx = None THEN r.st \in {"idle", "blocked"} ELSE WellFormed(r.st, r.tx)

\* The attempts of an owner that may have left: not the one only prepared.
LeftOf(t) == IF PreparedUnsent(t) THEN t.att - 1 ELSE t.att

\* After a step the record has no owner, or the same, with no attempt forgotten.
NoLess(r, q) == Owned(q) => Owned(r) /\ LeftOf(q.tx) >= LeftOf(r.tx)
Follows(r, q) == Shape(q) /\ NoLess(r, q)

LEMMA ShapeTx ==
    ASSUME NEW r, Shape(r), r.tx # None
    PROVE  r \in Records /\ r.tx \in Transactions /\ WellFormed(r.st, r.tx)
BY Fields DEF Shape

\* Publishing a well-formed transaction.
LEMMA PublishShape ==
    ASSUME NEW r \in Records, NEW t \in Transactions, NEW st \in States, WellFormed(st, t)
    PROVE  LET q == Publish(r, st, t)
           IN  /\ Shape(q) /\ (Owned(q) <=> t.own # "none")
               /\ q.tx \in Transactions /\ q.tx # None /\ LeftOf(q.tx) = LeftOf(t) /\ q.st = st
               /\ q \in Records /\ q.mst = r.mst
<1>. DEFINE q == Publish(r, st, t)
<1>1. /\ q \in Records /\ q.st = st /\ q.tx \in Transactions /\ q.tx = [t EXCEPT !.st = st]
      /\ q.mst = r.mst
  BY PublishIs
<1>2. /\ q.tx.own = t.own /\ q.tx.b = t.b /\ q.tx.rcmd = t.rcmd /\ q.tx.rsent = t.rsent /\ q.tx.att = t.att
      /\ q.tx.refused = t.refused /\ q.tx.master = t.master
  BY <1>1, StateOnly
<1>. HIDE DEF q
<1>3. WellFormed(q.st, q.tx)
  BY <1>1, <1>2 DEF WellFormed, Fresh, PreparedUnsent
<1>4. LeftOf(q.tx) = LeftOf(t)
  BY <1>2 DEF LeftOf, PreparedUnsent
<1>. QED  BY <1>1, <1>2, <1>3, <1>4, NoTransaction DEF Shape, Owned, q

\* An operation that owns nothing before or after.
LEMMA UnownedShape ==
    ASSUME NEW r, r \in Records, NEW st \in {"selected", "blocked"}, NEW c \in Blocks,
           st = "selected" => c \in Forced
    PROVE  Shape(Publish(r, st, Unowned(st, c))) /\ ~Owned(Publish(r, st, Unowned(st, c)))
<1>1. st \in States
  BY DEF States
<1>2. Unowned(st, c).b = c
  BY DEF Unowned
<1>3. /\ Unowned(st, c) \in Transactions /\ Unowned(st, c).own = "none"
      /\ WellFormed(st, Unowned(st, c))
  BY <1>1, <1>2, UnownedIs DEF WellFormed, Fresh, PreparedUnsent, Working, States
<1>. QED  BY <1>1, <1>3, PublishShape

LEMMA Selects ==
    ASSUME NEW r, Shape(r), NEW b \in Forced
    PROVE  Shape(SelectIntent(r, b)) /\ ~Owned(SelectIntent(r, b))
BY UnownedShape DEF SelectIntent, Shape, Blocks

LEMMA NotOwned ==
    ASSUME NEW r, Shape(r), r.tx # None
    PROVE  Follows(r, Finished(r)) /\ Follows(r, Blocked(r))
<1>1. r \in Records /\ r.tx.b \in Blocks
  BY ShapeTx, Fields
<1>2. Follows(r, Blocked(r))
  BY <1>1, UnownedShape DEF Blocked, Follows, NoLess
<1>3. Follows(r, Finished(r))
  <2>. DEFINE q == Finished(r)
  <2>1. q \in Records
    BY <1>1 DEF Finished, Records, States
  <2>2. q.st = "idle" /\ q.tx = None
    BY <1>1 DEF Finished, Records
  <2>. HIDE DEF q
  <2>3. Follows(r, q)
    BY <2>1, <2>2 DEF Follows, Shape, NoLess, Owned
  <2>. QED  BY <2>3 DEF q
<1>. QED  BY <1>2, <1>3

\* A transaction whose owner keeps its attempts goes to a state of a stop.
Resting == {"stopping", "fault"}
LEMMA Rests ==
    ASSUME NEW r, Shape(r), Owned(r), NEW t \in Transactions, NEW st \in Resting,
           t.own # "none", PreparedUnsent(t) => t.att >= 1, LeftOf(t) >= LeftOf(r.tx)
    PROVE  Follows(r, Publish(r, st, t))
<1>1. WellFormed(st, t) /\ st \in States /\ r \in Records
  BY DEF WellFormed, Resting, Working, States, Shape
<1>. QED  BY <1>1, PublishShape DEF Follows, NoLess

\* So does the one that only changes what no attempt depends on.
Alike(t, q) ==
    q.own = t.own /\ q.b = t.b /\ q.rcmd = t.rcmd /\ q.rsent = t.rsent /\ q.att = t.att
LEMMA AlikeRests ==
    ASSUME NEW r, Shape(r), Owned(r), NEW t \in Transactions, NEW st \in Resting,
           Alike(r.tx, t)
    PROVE  Follows(r, Publish(r, st, t))
<1>1. t.own # "none" /\ (PreparedUnsent(t) => t.att >= 1) /\ LeftOf(t) = LeftOf(r.tx)
  BY ShapeTx DEF Alike, Owned, WellFormed, PreparedUnsent, LeftOf
<1>2. LeftOf(t) \in Int
  BY Fields DEF LeftOf
<1>. QED  BY <1>1, <1>2, Rests

\* The faults, and the request to stop.
LEMMA Faults ==
    ASSUME NEW r, Shape(r), r.tx # None
    PROVE  /\ Owned(r) => Follows(r, Fault(r, r.tx)) /\ Follows(r, Contradicted(r))
           /\ Follows(r, StopRequested(r))
<1>1. r \in Records /\ r.tx \in Transactions
  BY ShapeTx
<1>2. ASSUME Owned(r) PROVE Follows(r, Fault(r, r.tx))
  <2>. DEFINE t == [r.tx EXCEPT !.rb = "pending"]
  <2>1. t \in Transactions /\ Alike(r.tx, t)
    BY <1>1 DEF Transactions, Alike
  <2>. QED  BY <1>2, <2>1, AlikeRests DEF Fault, Resting
<1>3. ASSUME Owned(r) PROVE Follows(r, Contradicted(r))
  <2>. DEFINE t == [r.tx EXCEPT !.ack = FALSE]
              q == [t EXCEPT !.rb = "pending"]
  <2>1. t \in Transactions /\ Alike(r.tx, t)
    BY <1>1 DEF Transactions, Alike
  <2>. HIDE DEF t
  <2>2. q \in Transactions /\ Alike(t, q)
    BY <2>1 DEF Transactions, Alike
  <2>3. Alike(r.tx, q)
    BY <2>1, <2>2 DEF Alike
  <2>. QED  BY <1>3, <2>2, <2>3, AlikeRests DEF Contradicted, Fault, Resting, t
<1>4. Follows(r, StopRequested(r))
  <2>1. CASE Owned(r)
    <3>. DEFINE t == [r.tx EXCEPT !.rb = "pending"]
    <3>1. t \in Transactions /\ Alike(r.tx, t)
      BY <1>1 DEF Transactions, Alike
    <3>. QED  BY <2>1, <3>1, AlikeRests DEF StopRequested, Resting
  <2>2. CASE ~Owned(r)
    <3>. QED  BY <2>2, NotOwned DEF StopRequested
  <2>. QED  BY <2>1, <2>2
<1>. QED  BY <1>2, <1>3, <1>4

-----------------------------------------------------------------------------
(* The operations of a start, of execution and of a retarget.               *)

LEMMA WorkingIs ==
    ASSUME NEW r, Shape(r), r.st \in Working
    PROVE  /\ r \in Records /\ r.tx \in Transactions /\ r.tx # None /\ Owned(r)
           /\ r.tx.own = "auto" /\ Fresh(r.tx) /\ LeftOf(r.tx) = 0
<1>1. r.tx # None
  BY DEF Shape, Working
<1>2. r \in Records /\ r.tx \in Transactions /\ r.tx.own = "auto" /\ Fresh(r.tx)
  BY <1>1, ShapeTx DEF WellFormed
<1>. QED  BY <1>1, <1>2 DEF Owned, Fresh, LeftOf, PreparedUnsent

\* One transaction at work is followed by another, or by a newer form of it.
LEMMA WorksOn ==
    ASSUME NEW r, Shape(r), r.st \in Working, NEW t \in Transactions, NEW st \in Working,
           t.own = "auto", Fresh(t)
    PROVE  Follows(r, Publish(r, st, t))
<1>1. WellFormed(st, t) /\ st \in States
  BY DEF WellFormed, Working, States, Fresh, PreparedUnsent
<1>2. LeftOf(t) = 0
  BY DEF Fresh, LeftOf, PreparedUnsent
<1>. QED  BY <1>1, <1>2, WorkingIs, PublishShape DEF Follows, NoLess

LEMMA SameTx ==
    ASSUME NEW r, Shape(r), r.tx # None, NEW t \in Transactions, NEW q,
           q = [r EXCEPT !.tx = t], Alike(r.tx, t),
           t.refused = r.tx.refused, t.master = r.tx.master
    PROVE  Follows(r, q) /\ q.tx = t /\ q.st = r.st
<1>1. q \in Records /\ q.tx = t /\ q.st = r.st
  BY DEF Shape, Records
<1>2. WellFormed(q.st, q.tx)
  BY <1>1 DEF Shape, WellFormed, Alike, Fresh, PreparedUnsent
<1>3. LeftOf(t) = LeftOf(r.tx) /\ LeftOf(t) \in Int
  BY Fields DEF LeftOf, Alike, PreparedUnsent
<1>. QED  BY <1>1, <1>2, <1>3, NoTransaction DEF Follows, NoLess, Shape, Owned, Alike

LEMMA SnapType == \A v \in Blocks : Snap(v) \in Snapshots
BY DEF Snap, Snapshots, Ages

LEMMA StaysSelf == ASSUME NEW r, Shape(r) PROVE Follows(r, r)
BY Fields, ShapeTx DEF Follows, NoLess, Owned, LeftOf

\* A start owns the inverter, or does not, and has attempted nothing.
LEMMA Starts ==
    ASSUME NEW r, Shape(r), r.st = "selected", NEW v \in Blocks,
           NEW q \in StartOn(r, v) \cup {StopRequested(r)}
    PROVE  Shape(q) /\ (Owned(q) => LeftOf(q.tx) = 0)
<1>1. r \in Records /\ r.tx # None /\ r.tx \in Transactions /\ Fresh(r.tx) /\ ~Owned(r)
  BY ShapeTx DEF Shape, WellFormed, Owned
<1>2. CASE q = Blocked(r) \/ q = StopRequested(r)
  <2>1. Follows(r, q)
    BY <1>1, <1>2, Faults, NotOwned
  <2>. QED  BY <1>1, <2>1 DEF Follows, NoLess
<1>3. CASE q = Publish(r, "starting", [r.tx EXCEPT !.own = "auto", !.base = v])
  <2>. DEFINE t == [r.tx EXCEPT !.own = "auto", !.base = v]
  <2>1. t \in Transactions
    BY <1>1 DEF Transactions
  <2>2. t.own = "auto" /\ t.b = r.tx.b /\ t.att = r.tx.att /\ t.rcmd = r.tx.rcmd
        /\ t.refused = r.tx.refused /\ t.master = r.tx.master
    BY <1>1, SMT DEF Transactions
  <2>. HIDE DEF t
  <2>3. WellFormed("starting", t) /\ LeftOf(t) = 0 /\ "starting" \in States
    BY <1>1, <2>2 DEF WellFormed, Fresh, PreparedUnsent, LeftOf, Working, States
  <2>. QED  BY <1>1, <1>3, <2>1, <2>3, PublishShape DEF t
<1>. QED  BY <1>2, <1>3 DEF StartOn

LEMMA Prepares ==
    ASSUME NEW r, Shape(r), r.st = "starting", NEW v \in Blocks,
           NEW q \in PrepareCommand(r, v) \cup Reprepare(r, v) \cup {Blocked(r), Deferred(r)}
    PROVE  Follows(r, q) /\ q.st \in {"starting", "blocked"}
<1>1. r \in Records /\ r.tx # None /\ r.tx \in Transactions
  BY WorkingIs DEF Working
<1>2. CASE q = Blocked(r)
  <2>1. r.tx.b \in Blocks
    BY <1>1, Fields
  <2>2. Unowned("blocked", r.tx.b) \in Transactions /\ "blocked" \in States
    BY <2>1, UnownedIs DEF States
  <2>3. q = Publish(r, "blocked", Unowned("blocked", r.tx.b))
    BY <1>2 DEF Blocked
  <2>4. q.st = "blocked"
    BY <1>1, <2>3, PublishState
  <2>. QED  BY <1>1, <1>2, <2>1, <2>4, NotOwned
<1>3. CASE q = Prepared(r, v) \/ q = Deferred(r)
  <2>1. ASSUME NEW s \in Snapshots \cup {None}, q = [r EXCEPT !.tx = [r.tx EXCEPT !.pre = s]]
        PROVE  Follows(r, q) /\ q.st = "starting"
    <3>. DEFINE t == [r.tx EXCEPT !.pre = s]
    <3>1. t \in Transactions
      BY <1>1 DEF Transactions
    <3>2. Alike(r.tx, t) /\ t.refused = r.tx.refused /\ t.master = r.tx.master
      BY <1>1 DEF Transactions, Alike
    <3>3. q = [r EXCEPT !.tx = t]
      BY <2>1
    <3>. HIDE DEF t
    <3>. QED  BY <1>1, <3>1, <3>2, <3>3, SameTx
  <2>2. q = [r EXCEPT !.tx = [r.tx EXCEPT !.pre = Snap(v)]]
        \/ q = [r EXCEPT !.tx = [r.tx EXCEPT !.pre = None]]
    BY <1>3 DEF Prepared, Deferred
  <2>3. Snap(v) \in Snapshots \cup {None} /\ None \in Snapshots \cup {None}
    BY SnapType
  <2>4. CASE q = [r EXCEPT !.tx = [r.tx EXCEPT !.pre = Snap(v)]]
    BY <2>1, <2>3, <2>4
  <2>5. CASE q = [r EXCEPT !.tx = [r.tx EXCEPT !.pre = None]]
    BY <2>1, <2>3, <2>5
  <2>. QED  BY <2>2, <2>4, <2>5
<1>. QED  BY <1>2, <1>3 DEF PrepareCommand, Reprepare

LEMMA Sends ==
    ASSUME NEW r, Shape(r), r.st \in {"starting", "retargeting"}, NEW lid \in Nat,
           NEW q \in MarkSent(r, lid)
    PROVE  Follows(r, q)
<1>. DEFINE t == [r.tx EXCEPT !.sent = "same", !.lid = lid]
            f == [t EXCEPT !.rb = "pending"]
<1>0. /\ r \in Records /\ r.tx \in Transactions /\ r.tx.own = "auto" /\ Fresh(r.tx)
      /\ r.st \in Working /\ Owned(r)
  BY WorkingIs DEF Working
<1>1. t \in Transactions
  BY <1>0 DEF Transactions, Ages
<1>2. Alike(r.tx, t) /\ t.refused = r.tx.refused /\ t.master = r.tx.master
  BY <1>0, SMT DEF Transactions, Alike
<1>. HIDE DEF t
<1>3. Fresh(t) /\ t.own = "auto"
  BY <1>0, <1>2 DEF Alike, Fresh
<1>4. f \in Transactions /\ Alike(t, f)
  BY <1>1 DEF Transactions, Alike
<1>5. Alike(r.tx, f)
  BY <1>2, <1>4 DEF Alike
<1>6. CASE q = Publish(r, IF r.st = "starting" THEN "waiting" ELSE r.st, t)
  BY <1>0, <1>1, <1>3, <1>6, WorksOn DEF Working
<1>7. CASE q = Fault(r, t)
  BY <1>0, <1>4, <1>5, <1>7, AlikeRests DEF Fault, Resting
<1>. QED  BY <1>6, <1>7 DEF MarkSent, t

LEMMA Observes ==
    ASSUME NEW r, Shape(r), r.st \in Working, NEW v \in Blocks,
           NEW q \in ObserveReadback(r, v) \cup ObservePhysical(r) \cup Continue(r, v)
                     \cup {StopRequested(r), OutcomeUnknown(r)}
    PROVE  Follows(r, q)
<1>0. /\ r \in Records /\ r.tx \in Transactions /\ r.tx # None /\ r.tx.own = "auto"
      /\ Fresh(r.tx) /\ Owned(r)
  BY WorkingIs
<1>1. Follows(r, r) /\ Follows(r, Fault(r, r.tx)) /\ Follows(r, Contradicted(r))
      /\ Follows(r, StopRequested(r))
  BY <1>0, Faults, StaysSelf
<1>2. Follows(r, Publish(r, "executing", r.tx))
  BY <1>0, WorksOn DEF Working
<1>3. Follows(r, [r EXCEPT !.tx = [r.tx EXCEPT !.ack = TRUE]])
  <2>. DEFINE t == [r.tx EXCEPT !.ack = TRUE]
  <2>1. t \in Transactions
    BY <1>0 DEF Transactions
  <2>2. Alike(r.tx, t) /\ t.refused = r.tx.refused /\ t.master = r.tx.master
    BY <1>0 DEF Transactions, Alike
  <2>. HIDE DEF t
  <2>3. Follows(r, [r EXCEPT !.tx = t])
    BY <1>0, <2>1, <2>2, SameTx
  <2>. QED  BY <2>3 DEF t
<1>4. q \in {r, Fault(r, r.tx), Contradicted(r), StopRequested(r),
             Publish(r, "executing", r.tx), [r EXCEPT !.tx = [r.tx EXCEPT !.ack = TRUE]]}
  BY DEF ObserveReadback, ObservePhysical, Continue, OutcomeUnknown
<1>. QED  BY <1>1, <1>2, <1>3, <1>4

LEMMA Retargets ==
    ASSUME NEW r, Shape(r), r.st = "executing", NEW v \in Blocks, NEW b \in Forced,
           NEW q \in PrepareRetarget(r, v, b)
    PROVE  Follows(r, q) /\ (q.st = "retargeting" \/ q = StopRequested(r) \/ q = Contradicted(r))
<1>. DEFINE t == [r.tx EXCEPT !.b = b, !.pre = Snap(v), !.sent = "no", !.ack = FALSE,
                    !.rb = "pending", !.rcmd = FALSE, !.rsnap = None, !.rsent = "no",
                    !.moved = FALSE, !.att = 0]
<1>0. /\ r \in Records /\ r.tx \in Transactions /\ r.tx # None /\ r.tx.own = "auto"
      /\ Fresh(r.tx) /\ Owned(r) /\ r.st \in Working /\ "retargeting" \in States
  BY WorkingIs DEF Working, States
<1>1. CASE q = StopRequested(r) \/ q = Contradicted(r)
  BY <1>0, <1>1, Faults
<1>2. CASE q = Publish(r, "retargeting", t)
  <2>1. Snap(v) \in Snapshots /\ 0 \in 0..2 /\ b \in Blocks
    BY SnapType DEF Blocks
  <2>2. t \in Transactions
    <3>1. [r.tx EXCEPT !.b = b, !.pre = Snap(v), !.sent = "no", !.ack = FALSE,
             !.rb = "pending"] \in Transactions
      BY <1>0, <2>1 DEF Transactions, Ages
    <3>2. ASSUME NEW u \in Transactions
          PROVE  /\ [u EXCEPT !.rcmd = FALSE] \in Transactions
                 /\ [u EXCEPT !.rsnap = None] \in Transactions
                 /\ [u EXCEPT !.rsent = "no"] \in Transactions
                 /\ [u EXCEPT !.moved = FALSE] \in Transactions
                 /\ [u EXCEPT !.att = 0] \in Transactions
      BY <2>1, Updates
    <3>. QED  BY <3>1, <3>2
  <2>3. t.own = "auto" /\ t.b = b /\ t.att = 0 /\ ~t.rcmd /\ t.refused = r.tx.refused
        /\ t.master = r.tx.master
    BY <1>0, SMT DEF Transactions
  <2>. HIDE DEF t
  <2>4. Fresh(t)
    BY <1>0, <2>3 DEF Fresh
  <2>5. Follows(r, q)
    BY <1>0, <1>2, <2>2, <2>3, <2>4, WorksOn DEF Working
  <2>6. Publish(r, "retargeting", t).st = "retargeting"
    BY <1>0, PublishState
  <2>. QED  BY <1>2, <2>5, <2>6
<1>. QED  BY <1>1, <1>2 DEF PrepareRetarget

LEMMA Cancels ==
    ASSUME NEW r, Shape(r), r.st \in Working, NEW v,
           NEW p \in Transactions, WellFormed("executing", p),
           NEW q \in CancelRetarget(r, p, v)
    PROVE  Follows(r, q) /\ (q.st = "executing" \/ q = StopRequested(r))
<1>0. r \in Records /\ r.tx # None /\ "executing" \in States
  BY WorkingIs DEF States
<1>1. CASE q = StopRequested(r)
  BY <1>0, <1>1, Faults
<1>2. CASE q = Publish(r, "executing", p)
  <2>1. p.own = "auto" /\ Fresh(p)
    BY DEF WellFormed, Working
  <2>2. "executing" \in Working
    BY DEF Working
  <2>3. q.st = "executing"
    BY <1>0, <1>2, PublishState
  <2>4. Follows(r, q)
    BY <1>2, <2>1, <2>2, WorksOn
  <2>. QED  BY <2>3, <2>4
<1>. QED  BY <1>1, <1>2 DEF CancelRetarget

-----------------------------------------------------------------------------
(* The operations of a stop.                                               *)

\* A record with the same transaction in the same state.
LEMMA SameBody ==
    ASSUME NEW r, Shape(r), NEW q \in Records, q.st = r.st, q.tx = r.tx
    PROVE  Follows(r, q)
<1>1. Shape(q) /\ (Owned(q) <=> Owned(r))
  BY DEF Shape, Owned
<1>. QED  BY <1>1, StaysSelf DEF Follows, NoLess

LEMMA StopOf ==
    ASSUME NEW r, Shape(r), Owned(r)
    PROVE  r \in Records /\ r.tx \in Transactions /\ r.tx # None /\ r.tx.own # "none"
           /\ WellFormed(r.st, r.tx)
BY ShapeTx DEF Owned

LEMMA FollowsTwice ==
    ASSUME NEW r, NEW q, NEW s, Owned(r) => LeftOf(r.tx) \in Int, Owned(s) => LeftOf(s.tx) \in Int,
           Follows(r, q), Follows(q, s)
    PROVE  Follows(r, s)
<1>1. Owned(q) => LeftOf(q.tx) \in Int
  BY Fields, ShapeTx DEF Follows, Owned, LeftOf
<1>. QED  BY <1>1 DEF Follows, NoLess

\* The rollback fails for good, or is held.
LEMMA Fails ==
    ASSUME NEW r, Shape(r), Owned(r)
    PROVE  Follows(r, RollbackFailed(r)) /\ Follows(r, Hold(r))
<1>0. r \in Records /\ r.tx \in Transactions /\ r.tx # None
  BY StopOf
<1>1. FailedStop(r) \in {"no", "running", "completed", "blocked", "failed"}
  BY <1>0, Fields DEF FailedStop
<1>2. ASSUME NEW p, Follows(r, p) PROVE Follows(r, [p EXCEPT !.mst = FailedStop(r)])
  <2>. DEFINE q == [p EXCEPT !.mst = FailedStop(r)]
  <2>1. p \in Records /\ Shape(p)
    BY <1>2 DEF Follows, Shape
  <2>2. q \in Records /\ q.st = p.st /\ q.tx = p.tx
    BY <1>1, <2>1 DEF Records
  <2>. HIDE DEF q
  <2>3. Follows(p, q)
    BY <2>1, <2>2, SameBody
  <2>4. LeftOf(r.tx) \in Int /\ (Owned(q) => LeftOf(q.tx) \in Int)
    BY <1>0, <2>3, Fields, ShapeTx DEF Follows, Owned, LeftOf
  <2>5. Follows(r, q)
    BY <1>2, <2>3, <2>4, FollowsTwice
  <2>. QED  BY <2>5 DEF q
<1>3. Follows(r, RollbackFailed(r))
  <2>. DEFINE t == [r.tx EXCEPT !.rb = "failed"]
  <2>1. t \in Transactions /\ Alike(r.tx, t)
    BY <1>0 DEF Transactions, Alike
  <2>2. Follows(r, Publish(r, "fault", t))
    BY <2>1, AlikeRests DEF Resting
  <2>. QED  BY <1>2, <2>2 DEF RollbackFailed
<1>4. Follows(r, Hold(r))
  <2>. DEFINE f == Fault(r, r.tx)
              h == [f EXCEPT !.held = TRUE]
  <2>1. Follows(r, f)
    BY <1>0, Faults
  <2>. HIDE DEF f
  <2>2. f \in Records /\ Shape(f)
    BY <2>1 DEF Follows, Shape
  <2>3. h \in Records /\ h.st = f.st /\ h.tx = f.tx
    BY <2>2 DEF Records
  <2>. HIDE DEF h
  <2>4. Follows(f, h)
    BY <2>2, <2>3, SameBody
  <2>5. LeftOf(r.tx) \in Int /\ (Owned(h) => LeftOf(h.tx) \in Int)
    BY <1>0, <2>4, Fields, ShapeTx DEF Follows, Owned, LeftOf
  <2>6. Follows(r, [h EXCEPT !.mst = FailedStop(r)])
    BY <1>2, <2>1, <2>4, <2>5, FollowsTwice
  <2>7. [f EXCEPT !.held = TRUE, !.mst = FailedStop(r)] = [h EXCEPT !.mst = FailedStop(r)]
    BY DEF h
  <2>8. Follows(r, [f EXCEPT !.held = TRUE, !.mst = FailedStop(r)])
    BY <2>6, <2>7
  <2>. QED  BY <2>8, StaysSelf DEF Hold, f
<1>. QED  BY <1>3, <1>4

\* A restore that is to be written is prepared, charged and not yet sent.
LEMMA Restores ==
    ASSUME NEW r, Shape(r), r.st \in Resting, NEW v \in Blocks,
           NEW verdict, verdict = Verdict(r.tx, v), NEW q, q = RestoreOn(r, v, verdict)
    PROVE  /\ Follows(r, q)
           /\ verdict = "write" =>
                 /\ q.st = r.st /\ q.tx \in Transactions /\ Owned(q)
                 /\ PreparedUnsent(q.tx) /\ q.tx.refused < 2
<1>0. /\ r \in Records /\ r.tx \in Transactions /\ r.tx # None /\ Owned(r)
      /\ WellFormed(r.st, r.tx)
  BY ShapeTx DEF Shape, WellFormed, Owned, Resting
<1>1. Snap(v) \in Snapshots
  BY SnapType
<1>2. CASE verdict = "wait"
  BY <1>2, StaysSelf DEF RestoreOn
<1>3. CASE verdict = "barrier"
  <2>. DEFINE t == [r.tx EXCEPT !.rsnap = Snap(v)]
  <2>1. t \in Transactions
    BY <1>0, <1>1 DEF Transactions
  <2>2. Alike(r.tx, t) /\ t.refused = r.tx.refused /\ t.master = r.tx.master
    BY <1>0 DEF Transactions, Alike
  <2>3. q = [r EXCEPT !.tx = t]
    BY <1>3 DEF RestoreOn
  <2>. HIDE DEF t
  <2>. QED  BY <1>0, <1>3, <2>1, <2>2, <2>3, SameTx
<1>4. CASE verdict = "done"
  BY <1>0, <1>4, NotOwned DEF RestoreOn
<1>5. CASE verdict \in {"failed", "hold"}
  BY <1>0, <1>5, Fails DEF RestoreOn
<1>6. CASE verdict = "write"
  <2>. DEFINE n == r.tx.att + (IF PreparedUnsent(r.tx) THEN 0 ELSE 1)
              t == [r.tx EXCEPT !.rcmd = TRUE, !.rsnap = Snap(v), !.moved = FALSE,
                      !.rb = "pending", !.rsent = "no", !.att = n]
              m == IF r.tx.master THEN "running" ELSE r.mst
  <2>1. r.tx.refused < 2 /\ n \in 0..2
    BY <1>0, <1>6, Fields DEF Verdict
  <2>2. n >= 1 /\ n - 1 = LeftOf(r.tx)
    BY <1>0, Fields DEF WellFormed, LeftOf
  <2>3. t \in Transactions
    <3>. HIDE DEF n
    <3>1. Snap(v) \in Snapshots /\ r.tx \in Transactions
      BY <1>0, <1>1, SnapType
    <3>2. ASSUME NEW u \in Transactions
          PROVE  /\ [u EXCEPT !.rcmd = TRUE] \in Transactions
                 /\ [u EXCEPT !.rsnap = Snap(v)] \in Transactions
                 /\ [u EXCEPT !.moved = FALSE] \in Transactions
                 /\ [u EXCEPT !.rb = "pending"] \in Transactions
                 /\ [u EXCEPT !.rsent = "no"] \in Transactions
                 /\ [u EXCEPT !.att = n] \in Transactions
      BY <2>1, <3>1, Updates
    <3>. QED  BY <3>1, <3>2
  <2>4. t.own = r.tx.own /\ t.rcmd /\ t.rsent = "no" /\ t.att = n /\ t.refused = r.tx.refused
    BY <1>0, SMT DEF Transactions
  <2>5. m \in {"no", "running", "completed", "blocked", "failed"}
    BY <1>0, Fields
  <2>6. q = [r EXCEPT !.tx = t, !.held = FALSE, !.mst = m]
    BY <1>6 DEF RestoreOn, RestorePrepared
  <2>. HIDE DEF t, m, n
  <2>7. q \in Records /\ q.tx = t /\ q.st = r.st
    BY <1>0, <2>3, <2>5, <2>6 DEF Records
  <2>8. PreparedUnsent(t) /\ LeftOf(t) = LeftOf(r.tx) /\ LeftOf(t) \in Int
    BY <2>1, <2>2, <2>4 DEF PreparedUnsent, LeftOf
  <2>9. WellFormed(q.st, q.tx)
    BY <1>0, <2>2, <2>4, <2>7 DEF WellFormed, Resting, Working
  <2>10. Owned(q) /\ q.tx # None
    BY <1>0, <2>3, <2>4, <2>7, NoTransaction DEF Owned
  <2>11. Follows(r, q)
    BY <1>0, <2>7, <2>8, <2>9, <2>10 DEF Follows, NoLess, Shape
  <2>. QED  BY <2>1, <2>3, <2>4, <2>7, <2>8, <2>10, <2>11
<1>7. verdict \in {"wait", "barrier", "done", "failed", "hold", "write"}
  BY DEF Verdict
<1>. QED  BY <1>2, <1>3, <1>4, <1>5, <1>6, <1>7

LEMMA Denies ==
    ASSUME NEW r, Shape(r), Owned(r), NEW q \in RestoreDenied(r)
    PROVE  Follows(r, q)
BY Fails DEF RestoreDenied

\* What becomes of a restore that was dispatched: sent, unknown, or refused
\* with proof, which takes its charge back.
LEMMA Dispatched ==
    ASSUME NEW r, Shape(r), Owned(r)
    PROVE  /\ Shape(MarkRestoreSent(r)) /\ Shape(RestoreUnknown(r))
           /\ Owned(MarkRestoreSent(r)) /\ MarkRestoreSent(r).tx.att = r.tx.att
           /\ LeftOf(MarkRestoreSent(r).tx) = r.tx.att
           /\ Owned(RestoreUnknown(r)) /\ LeftOf(RestoreUnknown(r).tx) = r.tx.att
<1>0. r \in Records /\ r.tx \in Transactions /\ r.tx # None /\ r.tx.own # "none"
  BY StopOf
<1>1. /\ Shape(MarkRestoreSent(r)) /\ Owned(MarkRestoreSent(r))
      /\ LeftOf(MarkRestoreSent(r).tx) = r.tx.att
      /\ MarkRestoreSent(r).tx.att = r.tx.att
  <2>. DEFINE t == [r.tx EXCEPT !.rsent = "same"]
              q == Publish(r, "restoring", t)
  <2>1. t \in Transactions /\ t.own = r.tx.own /\ t.rsent = "same" /\ t.att = r.tx.att
    BY <1>0 DEF Transactions, Ages
  <2>2. "restoring" \in States
    BY DEF States
  <2>. HIDE DEF t
  <2>3. WellFormed("restoring", t) /\ LeftOf(t) = r.tx.att
    BY <1>0, <2>1 DEF WellFormed, PreparedUnsent, Working, LeftOf
  <2>4. q.tx = [t EXCEPT !.st = "restoring"]
    BY <1>0, <2>1, <2>2, PublishIs
  <2>. HIDE DEF q
  <2>5. q.tx.att = t.att
    BY <2>1, <2>4, StateOnly
  <2>. QED  BY <1>0, <2>1, <2>2, <2>3, <2>5, PublishShape DEF MarkRestoreSent, t, q
<1>2. /\ Shape(RestoreUnknown(r)) /\ Owned(RestoreUnknown(r))
      /\ LeftOf(RestoreUnknown(r).tx) = r.tx.att
  <2>. DEFINE d == RestoreDropped(r.tx)
              t == [d EXCEPT !.rb = "pending"]
  <2>1. d \in Transactions /\ d.own = r.tx.own /\ ~d.rcmd /\ d.att = r.tx.att
    BY <1>0, DroppedIs
  <2>. HIDE DEF d
  <2>2. t \in Transactions /\ t.own = d.own /\ ~t.rcmd /\ t.att = d.att /\ "fault" \in States
    BY <2>1 DEF Transactions, States
  <2>. HIDE DEF t
  <2>3. WellFormed("fault", t) /\ LeftOf(t) = r.tx.att
    BY <1>0, <2>1, <2>2 DEF WellFormed, PreparedUnsent, Working, LeftOf
  <2>. QED  BY <1>0, <2>1, <2>2, <2>3, PublishShape DEF RestoreUnknown, Fault, t, d
<1>. QED  BY <1>1, <1>2

LEMMA Refunds ==
    ASSUME NEW r, Shape(r), Owned(r), PreparedUnsent(r.tx), r.tx.refused < 2,
           NEW q \in RestoreNotQueued(r)
    PROVE  Follows(r, q)
<1>0. r \in Records /\ r.tx \in Transactions /\ r.tx # None /\ r.tx.own # "none"
      /\ r.tx.att >= 1
  BY StopOf DEF WellFormed
<1>. DEFINE d == RestoreDropped(r.tx)
            n == IF d.att = 0 THEN 0 ELSE d.att - 1
            k == d.refused + 1
            t == [d EXCEPT !.rb = "pending", !.att = n, !.refused = k]
            f == [t EXCEPT !.rb = "pending"]
            p == Fault(r, t)
            h == [p EXCEPT !.held = TRUE]
<1>1. d \in Transactions /\ d.own = r.tx.own /\ ~d.rcmd /\ d.att = r.tx.att
      /\ d.refused = r.tx.refused
  BY <1>0, DroppedIs
<1>2. q = h \/ q = Publish(r, "stopping", t)
  BY DEF RestoreNotQueued
<1>3. p = Publish(r, "fault", f)
  BY DEF Fault
<1>. HIDE DEF d, p
<1>4. n \in 0..2 /\ k \in 0..2 /\ n = r.tx.att - 1
  BY <1>0, <1>1, Fields
<1>. HIDE DEF n, k
<1>5. t \in Transactions /\ t.own = r.tx.own /\ ~t.rcmd /\ t.att = n
  <2>1. n \in 0..2 /\ k \in 0..2
    BY <1>4
  <2>2. t \in Transactions
    BY <1>1, <2>1, Zenon DEF Transactions
  <2>3. t.own = d.own /\ t.att = n /\ ~t.rcmd
    BY <1>1, SMT DEF Transactions
  <2>. QED  BY <1>1, <2>2, <2>3
<1>. HIDE DEF t
<1>6. f \in Transactions /\ f.own = r.tx.own /\ ~f.rcmd /\ f.att = n
  BY <1>5 DEF Transactions
<1>. HIDE DEF f
<1>7. LeftOf(t) = LeftOf(r.tx) /\ LeftOf(f) = LeftOf(r.tx) /\ LeftOf(r.tx) \in Int
      /\ ~PreparedUnsent(t) /\ ~PreparedUnsent(f)
  BY <1>4, <1>5, <1>6 DEF LeftOf, PreparedUnsent
<1>8. Follows(r, p) /\ Follows(r, Publish(r, "stopping", t))
  BY <1>0, <1>3, <1>5, <1>6, <1>7, Rests DEF Resting
<1>9. Follows(r, h)
  <2>1. p \in Records /\ Shape(p)
    BY <1>8 DEF Follows, Shape
  <2>2. h \in Records /\ h.st = p.st /\ h.tx = p.tx
    BY <2>1 DEF Records
  <2>. HIDE DEF h
  <2>3. Follows(p, h)
    BY <2>1, <2>2, SameBody
  <2>4. Owned(h) => LeftOf(h.tx) \in Int
    BY <2>3, Fields, ShapeTx DEF Follows, Owned, LeftOf
  <2>. QED  BY <1>7, <1>8, <2>3, <2>4, FollowsTwice
<1>. QED  BY <1>2, <1>8, <1>9

LEMMA Readback ==
    ASSUME NEW r, Shape(r), r.st = "restoring", NEW v \in Blocks
    PROVE  Follows(r, ObserveRestore(r, v))
<1>0. /\ r \in Records /\ r.tx \in Transactions /\ r.tx # None /\ Owned(r)
      /\ WellFormed(r.st, r.tx) /\ r.tx.own # "none"
  BY ShapeTx DEF Shape, WellFormed, Owned
<1>1. Snap(v) \in Snapshots
  BY SnapType
<1>2. Follows(r, r) /\ Follows(r, Finished(r)) /\ Follows(r, RollbackFailed(r))
  BY <1>0, StaysSelf, NotOwned, Fails
<1>3. Follows(r, [r EXCEPT !.tx = [r.tx EXCEPT !.rsnap = Snap(v), !.moved = TRUE]])
  <2>. DEFINE t == [r.tx EXCEPT !.rsnap = Snap(v), !.moved = TRUE]
  <2>1. t \in Transactions
    BY <1>0, <1>1 DEF Transactions
  <2>2. Alike(r.tx, t) /\ t.refused = r.tx.refused /\ t.master = r.tx.master
    BY <1>0 DEF Transactions, Alike
  <2>. HIDE DEF t
  <2>3. Follows(r, [r EXCEPT !.tx = t])
    BY <1>0, <2>1, <2>2, SameTx
  <2>. QED  BY <2>3 DEF t
<1>4. Follows(r, Publish(r, "stopping", [RestoreDropped(r.tx) EXCEPT !.rsnap = Snap(v)]))
  <2>. DEFINE d == RestoreDropped(r.tx)
              t == [d EXCEPT !.rsnap = Snap(v)]
  <2>1. d \in Transactions /\ d.own = r.tx.own /\ ~d.rcmd /\ d.att = r.tx.att
    BY <1>0, DroppedIs
  <2>. HIDE DEF d
  <2>2. t \in Transactions /\ t.own = d.own /\ ~t.rcmd /\ t.att = d.att
    BY <1>1, <2>1 DEF Transactions
  <2>. HIDE DEF t
  <2>3. ~PreparedUnsent(t) /\ LeftOf(t) = r.tx.att
    BY <2>1, <2>2 DEF PreparedUnsent, LeftOf
  <2>4. LeftOf(t) >= LeftOf(r.tx)
    BY <1>0, <2>3, Fields DEF LeftOf
  <2>5. t.own # "none" /\ "stopping" \in Resting
    BY <1>0, <2>1, <2>2 DEF Resting
  <2>6. Follows(r, Publish(r, "stopping", t))
    BY <1>0, <2>2, <2>3, <2>4, <2>5, Rests
  <2>. QED  BY <2>6 DEF t, d
<1>. QED  BY <1>2, <1>3, <1>4 DEF ObserveRestore

-----------------------------------------------------------------------------
(* MASTER STOP, a restart, and a newer reading.                            *)

LEMMA LatchedIs ==
    ASSUME NEW r \in Records
    PROVE  /\ Latched(r) \in Records /\ Latched(r).st = r.st /\ Latched(r).tx = r.tx
BY DEF Latched, Records

\* The unowned record or the one without transaction may be called blocked.
LEMMA Stops ==
    ASSUME NEW r, Shape(r), NEW v \in Blocks, NEW q \in MasterStop(r, v)
    PROVE  Shape(q)
<1>0. r \in Records /\ Latched(r) \in Records /\ Latched(r).st = r.st /\ Latched(r).tx = r.tx
  BY LatchedIs DEF Shape
<1>. DEFINE l == Latched(r)
<1>. HIDE DEF l
<1>1. ASSUME Owned(r), q = StopBlocked(r) PROVE Shape(q)
  <2>. DEFINE t == [r.tx EXCEPT !.master = TRUE]
              p == Publish(l, "fault", t)
  <2>1. r.tx \in Transactions /\ r.tx.own # "none" /\ WellFormed(r.st, r.tx)
    BY <1>1, StopOf
  <2>2. t \in Transactions /\ t.own = r.tx.own /\ t.att = r.tx.att /\ t.rcmd = r.tx.rcmd
        /\ t.rsent = r.tx.rsent /\ "fault" \in States
    BY <2>1 DEF Transactions, States
  <2>3. q = [p EXCEPT !.mst = "blocked"]
    BY <1>1 DEF StopBlocked, l
  <2>. HIDE DEF t
  <2>4. WellFormed("fault", t)
    BY <2>1, <2>2 DEF WellFormed, Working, PreparedUnsent
  <2>5. Shape(p) /\ p \in Records
    BY <1>0, <2>2, <2>4, PublishShape DEF l
  <2>. HIDE DEF p
  <2>6. q \in Records /\ q.st = p.st /\ q.tx = p.tx
    BY <2>3, <2>5 DEF Records
  <2>. QED  BY <2>5, <2>6, SameBody DEF Follows
<1>2. ASSUME ~Owned(r), q = StopBlocked(r) PROVE Shape(q)
  <2>1. q = [l EXCEPT !.st = "blocked", !.mst = "blocked"]
    BY <1>2 DEF StopBlocked, l
  <2>2. q \in Records /\ q.st = "blocked" /\ q.tx = r.tx
    BY <1>0, <2>1 DEF Records, States, l
  <2>3. r.tx # None => r.tx \in Transactions /\ r.tx.own = "none" /\ WellFormed(r.st, r.tx)
    BY <1>2, ShapeTx DEF Owned
  <2>4. r.tx # None => WellFormed("blocked", r.tx)
    BY <2>3 DEF WellFormed, Working
  <2>. QED  BY <2>2, <2>4 DEF Shape
<1>3. ASSUME Owned(r), q = StopTakesOver(r) PROVE Shape(q)
  <2>. DEFINE d == RestoreDropped(r.tx)
              t == [d EXCEPT !.rb = "pending", !.rsnap = None, !.att = 0, !.master = TRUE]
  <2>1. r.tx \in Transactions /\ r.tx.own # "none"
    BY <1>3, StopOf
  <2>2. d \in Transactions /\ d.own = r.tx.own /\ ~d.rcmd
    BY <2>1, DroppedIs
  <2>. HIDE DEF d
  <2>3. 0 \in 0..2
    OBVIOUS
  <2>4. t \in Transactions
    BY <2>2, <2>3, Zenon DEF Transactions
  <2>5. t.own = r.tx.own /\ ~t.rcmd /\ "stopping" \in States
    BY <2>2 DEF Transactions, States
  <2>. HIDE DEF t
  <2>6. WellFormed("stopping", t)
    BY <2>1, <2>5 DEF WellFormed, Working, PreparedUnsent
  <2>7. Shape(Publish(l, "stopping", t))
    BY <1>0, <2>4, <2>5, <2>6, PublishShape DEF l
  <2>. QED  BY <1>3, <2>7 DEF StopTakesOver, t, d, l
<1>4. ASSUME q = StopFromRest(r, v) PROVE Shape(q)
  <2>1. ASSUME v = OffGrid PROVE Shape(q)
    <3>1. q = [l EXCEPT !.st = "idle", !.tx = None, !.mst = "completed"]
      BY <1>4, <2>1 DEF StopFromRest, l
    <3>2. q \in Records /\ q.st = "idle" /\ q.tx = None
      BY <1>0, <3>1 DEF Records, States, l
    <3>. QED  BY <3>2 DEF Shape
  <2>2. ASSUME v # OffGrid PROVE Shape(q)
    <3>. DEFINE b == Neutral(v)
                u == Unowned("stopping", b)
                t == [u EXCEPT !.own = "manual", !.base = v, !.master = TRUE]
    <3>1. b \in Blocks /\ "stopping" \in States
      BY ExecutorBlocks DEF Neutral, Blocks, States
    <3>2. u \in Transactions /\ ~u.rcmd
      BY <3>1, UnownedIs
    <3>. HIDE DEF u
    <3>3. t \in Transactions /\ t.own = "manual" /\ ~t.rcmd
      BY <3>2 DEF Transactions
    <3>. HIDE DEF t
    <3>4. WellFormed("stopping", t)
      BY <3>3 DEF WellFormed, Working, PreparedUnsent
    <3>5. Shape(Publish(l, "stopping", t))
      BY <1>0, <3>1, <3>3, <3>4, PublishShape DEF l
    <3>6. q = Publish(l, "stopping", t)
      BY <1>4, <2>2 DEF StopFromRest, t, u, l
    <3>. QED  BY <3>5, <3>6
  <2>. QED  BY <2>1, <2>2
<1>. QED  BY <1>1, <1>2, <1>3, <1>4 DEF MasterStop

LEMMA Rearms ==
    ASSUME NEW r, Shape(r) PROVE Follows(r, Rearmed(r))
<1>. DEFINE q == Rearmed(r)
<1>1. q \in Records /\ q.st = r.st /\ q.tx = r.tx
  BY DEF Rearmed, Shape, Records
<1>. HIDE DEF q
<1>2. Follows(r, q)
  BY <1>1, SameBody
<1>. QED  BY <1>2 DEF q

LEMMA Recovers ==
    ASSUME NEW r, Shape(r), NEW q, q = Recovered(r)
    PROVE  /\ Shape(q) /\ q.st \notin Working \cup {"selected"}
           /\ Owned(q) => Owned(r) /\ LeftOf(q.tx) = r.tx.att /\ q.tx.att = r.tx.att
<1>0. r \in Records
  BY DEF Shape
<1>1. CASE r.tx = None
  BY <1>1 DEF Recovered, Shape, Working, Owned
<1>2. CASE r.tx # None /\ ~Owned(r)
  <2>1. q = Finished(r)
    BY <1>2 DEF Recovered
  <2>2. Follows(r, q)
    BY <1>0, <1>2, <2>1, NotOwned
  <2>3. q.st = "idle"
    BY <1>0, <2>1 DEF Finished, Records
  <2>. QED  BY <1>2, <2>2, <2>3 DEF Follows, NoLess, Working
<1>3. CASE Owned(r) /\ RestoreInFlight(r)
  <2>1. q = r /\ r.st = "restoring"
    BY <1>3 DEF Recovered, RestoreInFlight, Owned
  <2>2. LeftOf(r.tx) = r.tx.att
    BY <1>3, <2>1, StopOf DEF WellFormed, LeftOf, PreparedUnsent
  <2>. QED  BY <1>3, <2>1, <2>2 DEF Working
<1>4. CASE Owned(r) /\ ~RestoreInFlight(r)
  <2>. DEFINE d == RestoreDropped(r.tx)
              t == [d EXCEPT !.rb = "pending"]
              p == Publish(r, "stopping", t)
  <2>1. r.tx \in Transactions /\ r.tx.own # "none" /\ r.tx # None /\ r.mst = r.mst
    BY <1>4, StopOf
  <2>2. d \in Transactions /\ d.own = r.tx.own /\ ~d.rcmd /\ d.att = r.tx.att
    BY <2>1, DroppedIs
  <2>3. q = [p EXCEPT !.mst = r.mst]
    BY <1>4, <2>1 DEF Recovered
  <2>. HIDE DEF d
  <2>4. t \in Transactions /\ t.own = r.tx.own /\ ~t.rcmd /\ t.att = r.tx.att
        /\ "stopping" \in States
    BY <2>2 DEF Transactions, States
  <2>. HIDE DEF t
  <2>5. WellFormed("stopping", t) /\ LeftOf(t) = r.tx.att
    BY <2>1, <2>4 DEF WellFormed, Working, PreparedUnsent, LeftOf
  <2>6. /\ Shape(p) /\ p \in Records /\ p.st = "stopping" /\ LeftOf(p.tx) = r.tx.att
        /\ p.tx = [t EXCEPT !.st = "stopping"] /\ p.mst = r.mst
    BY <1>0, <2>4, <2>5, PublishShape, PublishIs
  <2>7. p.tx.att = r.tx.att
    BY <2>4, <2>6, StateOnly
  <2>. HIDE DEF p
  <2>8. q = p
    BY <2>3, <2>6 DEF Records
  <2>. QED  BY <1>4, <2>6, <2>7, <2>8 DEF Working
<1>. QED  BY <1>1, <1>2, <1>3, <1>4 DEF Owned

\* A newer reading ages what was taken before it and changes nothing else.
LEMMA AgeIs ==
    ASSUME NEW a \in Ages \cup {"no"}, NEW lost \in BOOLEAN
    PROVE  Aged(a, lost) \in Ages \cup {"no"} /\ (Aged(a, lost) = "no" <=> a = "no")
BY DEF Aged, Ages

LEMMA AgedSnaps ==
    ASSUME NEW s \in Snapshots \cup {None}, NEW lost \in BOOLEAN
    PROVE  AgedSnap(s, lost) \in Snapshots \cup {None}
<1>1. CASE s = None
  BY <1>1 DEF AgedSnap
<1>2. CASE s \in Snapshots /\ s # None
  <2>. DEFINE a == Aged(s.age, lost)
  <2>1. s.age \in Ages /\ s.age # "no"
    BY <1>2 DEF Snapshots, Ages
  <2>2. a \in Ages
    BY <2>1, AgeIs
  <2>3. AgedSnap(s, lost) = [s EXCEPT !.age = a]
    BY <1>2 DEF AgedSnap
  <2>. HIDE DEF a
  <2>. QED  BY <1>2, <2>2, <2>3 DEF Snapshots
<1>. QED  BY <1>1, <1>2

LEMMA AgedTxs ==
    ASSUME NEW t \in Transactions, NEW lost \in BOOLEAN, NEW q, q = AgedTx(t, lost)
    PROVE  /\ q \in Transactions /\ q.st = t.st /\ q.own = t.own /\ q.b = t.b /\ q.base = t.base
           /\ q.ack = t.ack /\ q.rb = t.rb /\ q.rcmd = t.rcmd /\ q.moved = t.moved
           /\ q.att = t.att /\ q.refused = t.refused /\ q.lid = t.lid /\ q.master = t.master
           /\ (q.rsent = "no" <=> t.rsent = "no") /\ (q.sent = "no" <=> t.sent = "no")
<1>. DEFINE p == AgedSnap(t.pre, lost)
            n == AgedSnap(t.rsnap, lost)
            s == Aged(t.sent, lost)
            u == Aged(t.rsent, lost)
<1>1. p \in Snapshots \cup {None} /\ n \in Snapshots \cup {None}
  BY Fields, AgedSnaps
<1>2. s \in Ages \cup {"no"} /\ u \in Ages \cup {"no"}
      /\ (s = "no" <=> t.sent = "no") /\ (u = "no" <=> t.rsent = "no")
  BY Fields, AgeIs
<1>3. q = [t EXCEPT !.pre = p, !.rsnap = n, !.sent = s, !.rsent = u]
  BY NoTransaction DEF AgedTx
<1>. HIDE DEF p, n, s, u
<1>4. q \in Transactions
  <2>1. ASSUME NEW v \in Transactions
        PROVE  /\ [v EXCEPT !.pre = p] \in Transactions /\ [v EXCEPT !.rsnap = n] \in Transactions
               /\ [v EXCEPT !.sent = s] \in Transactions /\ [v EXCEPT !.rsent = u] \in Transactions
    BY <1>1, <1>2, Updates
  <2>. QED  BY <1>3, <2>1
<1>5. q.rsent = u /\ q.sent = s
  BY <1>3 DEF Transactions
<1>6. /\ q.st = t.st /\ q.own = t.own /\ q.b = t.b /\ q.base = t.base
      /\ q.ack = t.ack /\ q.rb = t.rb /\ q.rcmd = t.rcmd /\ q.moved = t.moved
      /\ q.att = t.att /\ q.refused = t.refused /\ q.lid = t.lid /\ q.master = t.master
  BY <1>3, SMT DEF Transactions
<1>. QED  BY <1>2, <1>4, <1>5, <1>6

LEMMA AgedWell ==
    ASSUME NEW t \in Transactions, NEW lost \in BOOLEAN, NEW q, q = AgedTx(t, lost), NEW st,
           WellFormed(st, t)
    PROVE  /\ WellFormed(st, q) /\ (PreparedUnsent(q) <=> PreparedUnsent(t))
           /\ LeftOf(q) = LeftOf(t)
<1>1. /\ q.own = t.own /\ q.b = t.b /\ q.rcmd = t.rcmd /\ q.att = t.att
      /\ q.refused = t.refused /\ q.master = t.master /\ (q.rsent = "no" <=> t.rsent = "no")
  BY AgedTxs
<1>2. PreparedUnsent(q) <=> PreparedUnsent(t)
  BY <1>1 DEF PreparedUnsent
<1>3. Fresh(t) => Fresh(q)
  BY <1>1 DEF Fresh
<1>. QED  BY <1>1, <1>2, <1>3 DEF WellFormed, LeftOf

\* A record when a newer reading was received.
Elder(r, lost) == [r EXCEPT !.tx = AgedTx(r.tx, lost)]
LEMMA AgedRecord ==
    ASSUME NEW r, Shape(r), NEW lost \in BOOLEAN, NEW q, q = Elder(r, lost)
    PROVE  /\ Shape(q) /\ q.st = r.st /\ (Owned(q) <=> Owned(r))
           /\ Owned(r) => /\ q.tx.att = r.tx.att /\ LeftOf(q.tx) = LeftOf(r.tx)
                          /\ (PreparedUnsent(q.tx) <=> PreparedUnsent(r.tx))
                          /\ q.tx.refused = r.tx.refused
<1>. DEFINE t == AgedTx(r.tx, lost)
<1>1. r \in Records /\ r.tx \in Transactions \cup {None}
  BY Fields DEF Shape
<1>2. r.tx = None => t = None
  BY DEF AgedTx
<1>3. ASSUME r.tx # None
      PROVE  /\ t \in Transactions /\ t.own = r.tx.own /\ t.att = r.tx.att
             /\ t.refused = r.tx.refused /\ WellFormed(r.st, t)
             /\ (PreparedUnsent(t) <=> PreparedUnsent(r.tx)) /\ LeftOf(t) = LeftOf(r.tx)
  BY <1>3, ShapeTx, AgedTxs, AgedWell
<1>. HIDE DEF t
<1>4. t \in Transactions \cup {None}
  BY <1>1, <1>2, <1>3
<1>5. q = [r EXCEPT !.tx = t]
  BY DEF t, Elder
<1>6. q \in Records /\ q.tx = t /\ q.st = r.st
  BY <1>1, <1>4, <1>5 DEF Records
<1>7. CASE r.tx = None
  BY <1>2, <1>6, <1>7 DEF Shape, Owned
<1>8. CASE r.tx # None
  <2>1. t # None
    BY <1>3, <1>8, NoTransaction
  <2>. QED  BY <1>3, <1>6, <1>8, <2>1 DEF Shape, Owned
<1>. QED  BY <1>7, <1>8

-----------------------------------------------------------------------------
(* The invariant: where the coroutine stands, and what it holds there.     *)

HaRecords ==
    [at : {"free", "loop", "start", "retarget", "restore"},
     step : {"ready", "await", "stale"}, try : 1..2, pred : Transactions \cup {None}]

\* A record, a position and a number of arms that go together: what is being
\* dispatched is what the record says, and an arm that may leave has a number.
Stands(r, h, a) ==
    /\ Shape(r) /\ h \in HaRecords
    /\ h.at \in {"free", "loop"} => h.step = "ready"
    /\ h.step = "stale" => h.at \in {"start", "retarget"}
    /\ h.at = "start" => r.st = "starting"
    /\ h.at = "retarget" =>
          /\ r.st = "retargeting" /\ h.pred \in Transactions
          /\ WellFormed("executing", h.pred)
    /\ h.at = "restore" =>
          /\ r.st \in Resting /\ r.tx # None
          /\ PreparedUnsent(r.tx) /\ r.tx.refused < 2
    /\ \/ r.st = "selected"
       \/ r.st = "starting" /\ (h.at = "start" => h.step = "ready")
       \/ h.at = "retarget" /\ h.step = "ready"
       => a < MaxArms

Counters == arms \in 0..MaxArms /\ stops \in 0..MaxStops /\ mishaps \in 0..MaxMishaps
HaTyped ==
    /\ Stands(rec, ha, arms) /\ Shape(saved) /\ unsaved \in BOOLEAN
    /\ view \in Blocks \cup {None} /\ reply \in {"none", "ok", "stale", "pending", "bad"}
    /\ preserved \in BOOLEAN /\ Counters
NetTyped ==
    /\ net \subseteq Requests /\ IsFiniteSet(net)
    /\ \A m \in net : m.kind = "arm" => m.b \in Forced /\ m.id \in 1..MaxArms
EspTyped ==
    /\ seen \in Blocks \cup {None} /\ lag \in BOOLEAN /\ phys \in Blocks
    /\ bus \in Seq(Blocks \cup {Poll})
    /\ barrier \in [expect : Blocks, mism : BOOLEAN] \cup {None}
    /\ lease \in Leases \cup {None} /\ proof \in [id : 0..MaxArms, shown : BOOLEAN]
    /\ booted \in BOOLEAN /\ driven \in BOOLEAN /\ restores \in Nat
Typed == HaTyped /\ NetTyped /\ EspTyped

\* At most one request is awaited, the one that is being dispatched, and it is
\* gone once it is answered.
Awaits ==
    /\ ha.step # "await" => reply = "none"
    /\ \A m \in net : m.kind = "restore" => m.id \in {0, 1}
    /\ \A m \in net : m.awaited =>
          /\ ha.step = "await" /\ reply = "none"
          /\ m.kind = "restore" <=> ha.at = "restore"
          /\ m.kind = "restore" => m.id = 1
    /\ \A m, n \in net : m.awaited /\ n.awaited => m = n

\* What this owner's restores have written, or still may.
Own == {m \in net : m.kind = "restore" /\ m.id = 1}
Spent == restores + Cardinality(Own)
Allowed ==
    IF At("restore", "await") /\ reply \notin {"stale", "pending"}
    THEN rec.tx.att ELSE LeftOf(rec.tx)
Paid(k) ==
    /\ Owned(rec) => Spent <= Allowed + 2 * (stops + k)
    /\ Spent <= 2 + 2 * (stops + k)
\* The Store has every attempt that may have left.
Charged(k) ==
    /\ ~unsaved
    /\ Owned(saved) => Spent <= saved.tx.att + 2 * (stops + k)
    /\ At("restore", "ready") => saved = rec
\* One mishap may make the Store miss them, another one forget them.
Budget ==
    \E k \in Nat : /\ Paid(k)
                   /\ \/ 2 * k <= mishaps /\ Charged(k)
                      \/ 2 * k + 1 <= mishaps

-----------------------------------------------------------------------------
(* Saving.                                                                 *)

\* Every save leaves r in RAM and goes on, or gives the lock up.  It is in the
\* Store too unless nothing was stored: MASTER STOP's cannot be encoded or waits
\* for the next forced one, or the Store failed.
Saves(r, next) ==
    /\ rec' = r /\ ha' \in {next, Free}
    /\ \/ saved' = r /\ unsaved' = FALSE /\ mishaps' = mishaps
       \/ /\ saved' = saved /\ unsaved' = unsaved /\ mishaps' = mishaps
          /\ unsaved \/ ha' = Free
       \/ saved' \in {saved, r} /\ unsaved' \in BOOLEAN /\ mishaps' = mishaps + 1
          /\ mishaps < MaxMishaps

LEMMA CommitSaves ==
    ASSUME NEW r, NEW next, unsaved \in BOOLEAN
    PROVE  /\ Commit(r, next) => Saves(r, next)
           /\ CommitOrGoOn(r, next) => Saves(r, next)
<1>1. Commit(r, next) => Saves(r, next)
  BY DEF Commit, Saves, Mishap
<1>2. CommitOrGoOn(r, next) => Saves(r, next)
  BY DEF CommitOrGoOn, Saves, Mishap
<1>. QED  BY <1>1, <1>2

LEMMA SaveSaves ==
    ASSUME NEW r, NEW next, NEW forced \in BOOLEAN, unsaved \in BOOLEAN
    PROVE  /\ CommitStop(r, next, forced) => Saves(r, next)
           /\ Save(r, next, forced) => Saves(r, next)
<1>1. ASSUME CommitStop(r, next, forced) PROVE Saves(r, next)
  <2>1. CASE Valid(r) /\ (forced \/ ~unsaved)
    BY <1>1, <2>1, CommitSaves DEF CommitStop
  <2>2. CASE Valid(r) /\ ~forced /\ unsaved
    BY <1>1, <2>2 DEF CommitStop, Saves
  <2>3. CASE ~Valid(r)
    BY <1>1, <2>3 DEF CommitStop, Saves
  <2>. QED  BY <2>1, <2>2, <2>3
<1>2. ASSUME Save(r, next, forced) PROVE Saves(r, next)
  BY <1>1, <1>2, CommitSaves DEF Save
<1>. QED  BY <1>1, <1>2

LEMMA ChangedSaves ==
    ASSUME NEW r, NEW next, unsaved \in BOOLEAN, SaveIfChanged(r, next)
    PROVE  Saves(r, next) \/ (/\ r = rec /\ saved = rec /\ ha' = next
                              /\ UNCHANGED <<rec, saved, unsaved, mishaps>>)
BY SaveSaves DEF SaveIfChanged

-----------------------------------------------------------------------------
(* Types.                                                                  *)

LEMMA FreeStands ==
    ASSUME NEW r, Shape(r), NEW a, NEW h \in {Free, Loop},
           r.st \in {"selected", "starting"} => a < MaxArms
    PROVE  Stands(r, h, a)
<1>1. /\ h.at \in {"free", "loop"} /\ h.step = "ready" /\ h.try = 1 /\ h.pred = None
  BY DEF Free, Loop
<1>2. h \in HaRecords
  BY DEF Free, Loop, HaRecords
<1>. QED  BY <1>1, <1>2 DEF Stands

\* A step that saves a record that goes with where it stands, or gives it up.
LEMMA SavesTyped ==
    ASSUME HaTyped, NEW r, NEW next, Saves(r, next), Stands(r, next, arms'),
           r.st \in {"selected", "starting"} => arms' < MaxArms,
           arms' \in 0..MaxArms, stops' \in 0..MaxStops, view' = view, preserved' \in BOOLEAN,
           reply' \in {"none", "ok", "stale", "pending", "bad"}
    PROVE  HaTyped'
<1>1. Shape(r) /\ Stands(r, Free, arms')
  BY FreeStands DEF Stands
<1>2. Stands(rec', ha', arms')
  BY <1>1 DEF Saves
<1>3. Shape(saved') /\ unsaved' \in BOOLEAN
  BY <1>1 DEF Saves, HaTyped
<1>4. mishaps' \in 0..MaxMishaps
  BY ControllerBounds DEF Saves, HaTyped, Counters
<1>. QED  BY <1>2, <1>3, <1>4 DEF HaTyped, Counters

\* The states the operations end in.
Settled == States \ {"selected", "starting"}
LEMMA EndStates ==
    ASSUME NEW r \in Records
    PROVE  /\ \A t : Fault(r, t).st = "fault"
           /\ Contradicted(r).st = "fault" /\ OutcomeUnknown(r).st = "fault"
           /\ RollbackFailed(r).st = "fault" /\ Hold(r).st = "fault"
           /\ Finished(r).st = "idle" /\ StopRequested(r).st \in {"stopping", "idle"}
           /\ Blocked(r).st = "blocked" /\ RestoreUnknown(r).st = "fault"
           /\ MarkRestoreSent(r).st = "restoring" /\ Rearmed(r).st = r.st
<1>1. \A t : Fault(r, t).st = "fault"
  BY PublishState DEF Fault
<1>2. /\ Contradicted(r).st = "fault" /\ OutcomeUnknown(r).st = "fault"
      /\ RestoreUnknown(r).st = "fault"
  BY <1>1 DEF Contradicted, OutcomeUnknown, RestoreUnknown
<1>3. ASSUME NEW p, p.st = "fault", DOMAIN p = {"st", "tx", "allowed", "mst", "held"}, NEW x
      PROVE  [p EXCEPT !.mst = x].st = "fault" /\ [p EXCEPT !.held = TRUE, !.mst = x].st = "fault"
  BY <1>3
<1>4. \A st, t : DOMAIN Publish(r, st, t) = {"st", "tx", "allowed", "mst", "held"}
  BY DEF Publish, Records
<1>5. RollbackFailed(r).st = "fault"
  BY <1>3, <1>4, PublishState DEF RollbackFailed
<1>6. Hold(r).st = "fault"
  BY <1>1, <1>3, <1>4 DEF Hold, Fault
<1>7. Finished(r).st = "idle" /\ Rearmed(r).st = r.st
  BY DEF Finished, Rearmed, Records
<1>8. StopRequested(r).st \in {"stopping", "idle"}
  BY <1>7, PublishState DEF StopRequested
<1>9. Blocked(r).st = "blocked" /\ MarkRestoreSent(r).st = "restoring"
  BY PublishState DEF Blocked, MarkRestoreSent
<1>. QED  BY <1>1, <1>2, <1>5, <1>6, <1>7, <1>8, <1>9

LEMMA HoldsAre ==
    ASSUME HaTyped
    PROVE  /\ Stands(rec, ha, arms) /\ Shape(rec) /\ rec \in Records /\ Shape(saved)
           /\ unsaved \in BOOLEAN
           /\ view # None => view \in Blocks
           /\ ha \in {Free, Loop} => (rec.st \in {"selected", "starting"} => arms < MaxArms)
           /\ arms \in 0..MaxArms /\ stops \in 0..MaxStops /\ preserved \in BOOLEAN
           /\ reply \in {"none", "ok", "stale", "pending", "bad"}
BY DEF HaTyped, Stands, Shape, Counters, Free, Loop

\* A quiet step to a record in a settled state gives the lock up.
LEMMA Settles ==
    ASSUME HaTyped, NEW r, Shape(r), r.st \in Settled, NEW next \in {Free, Loop}, Saves(r, next),
           view' = view, reply' \in {"none", "ok", "stale", "pending", "bad"},
           arms' \in 0..MaxArms, stops' \in 0..MaxStops, preserved' \in BOOLEAN
    PROVE  HaTyped'
<1>1. ~(r.st \in {"selected", "starting"})
  BY DEF Settled
<1>2. Stands(r, next, arms')
  BY <1>1, FreeStands
<1>. QED  BY <1>1, <1>2, SavesTyped

LEMMA Stays ==
    ASSUME HaTyped, NEW r, Shape(r), NEW next \in {Free, Loop}, Saves(r, next),
           r.st \in {"selected", "starting"} => arms < MaxArms,
           UNCHANGED <<view, reply, arms, stops, preserved>>
    PROVE  HaTyped'
<1>1. Stands(r, next, arms')
  BY FreeStands
<1>. QED  BY <1>1, HoldsAre, SavesTyped

LEMMA ChoosingTyped ==
    ASSUME HaTyped, Select \/ Start \/ PrepareStart \/ Unblock \/ Deadline \/ Rearm
    PROVE  HaTyped'
<1>0. /\ Shape(rec) /\ rec \in Records /\ unsaved \in BOOLEAN
      /\ view # None => view \in Blocks
      /\ ha \in {Free, Loop} => (rec.st \in {"selected", "starting"} => arms < MaxArms)
      /\ arms \in 0..MaxArms /\ stops \in 0..MaxStops /\ preserved \in BOOLEAN
      /\ reply \in {"none", "ok", "stale", "pending", "bad"}
  BY HoldsAre
<1>1. ASSUME Select PROVE HaTyped'
  <2>1. PICK b \in Forced : LET r == SelectIntent(rec, b) IN
                              Commit(r, IF r.st = "selected" THEN Loop ELSE Free)
    BY <1>1 DEF Select
  <2>. DEFINE r == SelectIntent(rec, b)
  <2>2. Shape(r)
    BY <1>0, Selects
  <2>3. \E next \in {Free, Loop} : Saves(r, next)
    BY <1>0, <2>1, CommitSaves
  <2>4. arms < MaxArms /\ UNCHANGED <<view, reply, arms, stops, preserved>>
    BY <1>1 DEF Select, Quiet, Kept
  <2>. HIDE DEF r
  <2>. QED  BY <2>2, <2>3, <2>4, Stays
<1>2. ASSUME Start PROVE HaTyped'
  <2>1. PICK r \in StartOn(rec, view) \cup {StopRequested(rec)} :
                Commit(r, IF r.st = "starting" THEN Loop ELSE Free)
    BY <1>2 DEF Start
  <2>2. /\ UNCHANGED <<view, reply, arms, stops, preserved>>
        /\ rec.st = "selected" /\ ha \in {Free, Loop} /\ view # None
    BY <1>2 DEF Start, Kept, CanGoOn
  <2>3. Shape(r)
    BY <1>0, <2>1, <2>2, Starts
  <2>4. \E next \in {Free, Loop} : Saves(r, next)
    BY <1>0, <2>1, CommitSaves
  <2>. QED  BY <1>0, <2>2, <2>3, <2>4, Stays
<1>3. ASSUME PrepareStart PROVE HaTyped'
  <2>1. PICK r \in PrepareCommand(rec, view) :
                Commit(r, IF r.st = "starting" THEN Ready("start") ELSE Free)
    BY <1>3 DEF PrepareStart
  <2>2. /\ UNCHANGED <<view, reply, arms, stops, preserved>>
        /\ rec.st = "starting" /\ ha \in {Free, Loop} /\ view # None
    BY <1>3 DEF PrepareStart, Kept, CanGoOn, Quiet
  <2>3. Shape(r)
    BY <1>0, <2>1, <2>2, Prepares DEF Follows
  <2>4. CASE r.st = "starting"
    <3>. DEFINE h == Ready("start")
    <3>1. h \in HaRecords /\ h.at = "start" /\ h.step = "ready"
      BY DEF Ready, Free, HaRecords
    <3>. HIDE DEF h
    <3>2. Stands(r, h, arms')
      BY <1>0, <2>2, <2>3, <2>4, <3>1 DEF Stands
    <3>3. Saves(r, h)
      BY <1>0, <2>1, <2>4, CommitSaves DEF h
    <3>. QED  BY <1>0, <2>2, <3>2, <3>3, SavesTyped
  <2>5. CASE r.st # "starting"
    <3>1. Saves(r, Free)
      BY <1>0, <2>1, <2>5, CommitSaves
    <3>. QED  BY <1>0, <2>2, <2>3, <3>1, Stays
  <2>. QED  BY <2>4, <2>5
<1>4. ASSUME Unblock PROVE HaTyped'
  <2>1. Shape(Finished(rec)) /\ Finished(rec).st \in Settled
    BY <1>0, <1>4, NotOwned, EndStates DEF Unblock, Follows, Settled, States
  <2>2. Saves(Finished(rec), Free)
    BY <1>0, <1>4, CommitSaves DEF Unblock
  <2>. QED  BY <1>0, <1>4, <2>1, <2>2, Settles DEF Unblock, Quiet, Kept
<1>5. ASSUME Deadline PROVE HaTyped'
  <2>1. /\ rec.tx # None /\ rec.st \in States \ {"idle", "stopping", "fault"}
        /\ UNCHANGED <<view, reply, arms, stops, preserved>>
    BY <1>5 DEF Deadline, CanReconcile, Quiet, Kept
  <2>. DEFINE r == CASE rec.st = "restoring" -> RollbackFailed(rec)
                [] rec.st \in {"starting", "waiting", "retargeting"} -> Fault(rec, rec.tx)
                [] OTHER -> StopRequested(rec)
  <2>2. Shape(r) /\ r.st \in Settled
    <3>1. CASE rec.st = "restoring"
      <4>1. Owned(rec)
        BY <2>1, <3>1, ShapeTx, <1>0 DEF WellFormed, Owned
      <4>2. Shape(RollbackFailed(rec)) /\ RollbackFailed(rec).st \in Settled
        BY <1>0, <4>1, Fails, EndStates DEF Follows, Settled, States
      <4>. QED  BY <3>1, <4>2
    <3>2. CASE rec.st \in {"starting", "waiting", "retargeting"}
      <4>1. Owned(rec)
        BY <1>0, <3>2, WorkingIs DEF Working
      <4>2. Shape(Fault(rec, rec.tx)) /\ Fault(rec, rec.tx).st \in Settled
        BY <1>0, <2>1, <4>1, Faults, EndStates DEF Follows, Settled, States
      <4>. QED  BY <3>2, <4>2
    <3>3. CASE rec.st \notin {"restoring", "starting", "waiting", "retargeting"}
      <4>1. Shape(StopRequested(rec)) /\ StopRequested(rec).st \in Settled
        BY <1>0, <2>1, Faults, EndStates DEF Follows, Settled, States
      <4>. QED  BY <3>3, <4>1
    <3>. QED  BY <3>1, <3>2, <3>3
  <2>3. Saves(r, Free)
    BY <1>0, <1>5, CommitSaves DEF Deadline
  <2>. HIDE DEF r
  <2>. QED  BY <1>0, <2>1, <2>2, <2>3, Settles
<1>6. ASSUME Rearm PROVE HaTyped'
  <2>1. Shape(Rearmed(rec)) /\ Rearmed(rec).st \in Settled
    BY <1>0, <1>6, Rearms, EndStates DEF Rearm, Follows, Settled, States, CanReconcile
  <2>2. Saves(Rearmed(rec), Free)
    BY <1>0, <1>6, CommitSaves DEF Rearm
  <2>. QED  BY <1>0, <1>6, <2>1, <2>2, Settles DEF Rearm, Quiet, Kept
<1>. QED  BY <1>1, <1>2, <1>3, <1>4, <1>5, <1>6

LEMMA ObservedStates ==
    ASSUME NEW r, Shape(r), r.st \in Working, NEW v \in Blocks,
           NEW q \in ObserveReadback(r, v) \cup ObservePhysical(r) \cup Continue(r, v)
                     \cup {StopRequested(r), OutcomeUnknown(r)}
    PROVE  r.st # "starting" => q.st \in Settled
<1>1. r \in Records /\ r.st \in States
  BY Fields DEF Shape
<1>2. q \in {r, Fault(r, r.tx), Contradicted(r), StopRequested(r),
             Publish(r, "executing", r.tx), [r EXCEPT !.tx = [r.tx EXCEPT !.ack = TRUE]]}
  BY DEF ObserveReadback, ObservePhysical, Continue, OutcomeUnknown
<1>3. [r EXCEPT !.tx = [r.tx EXCEPT !.ack = TRUE]].st = r.st
  BY <1>1 DEF Records
<1>4. /\ Fault(r, r.tx).st = "fault" /\ Contradicted(r).st = "fault"
      /\ StopRequested(r).st \in {"stopping", "idle"}
      /\ Publish(r, "executing", r.tx).st = "executing"
  BY <1>1, EndStates, PublishState
<1>5. q.st \in {"fault", "stopping", "idle", "executing", r.st}
  BY <1>2, <1>3, <1>4
<1>. QED  BY <1>5 DEF Settled, States, Working

LEMMA ExecutingTyped ==
    ASSUME HaTyped, Observe \/ Verify \/ Sustain
    PROVE  HaTyped'
<1>0. Shape(rec) /\ unsaved \in BOOLEAN
  BY HoldsAre
<1>1. /\ rec.st \in Working /\ rec.st # "starting" /\ view \in Blocks
      /\ UNCHANGED <<view, reply, arms, stops, preserved>>
  <2>1. CASE Observe
    BY <2>1, HoldsAre DEF Observe, CanReconcile, Quiet, Kept, Working
  <2>2. CASE Verify
    BY <2>2, HoldsAre DEF Verify, CanReconcile, Quiet, Kept, Working
  <2>3. CASE Sustain
    BY <2>3, HoldsAre DEF Sustain, CanReconcile, Quiet, Kept, Working
  <2>. QED  BY <2>1, <2>2, <2>3
<1>2. PICK r \in ObserveReadback(rec, view) \cup ObservePhysical(rec) \cup Continue(rec, view)
                 \cup {StopRequested(rec), OutcomeUnknown(rec)} : Commit(r, Free)
  BY DEF Observe, Verify, Sustain
<1>3. Shape(r) /\ r.st \in Settled
  BY <1>0, <1>1, <1>2, Observes, ObservedStates DEF Follows
<1>4. Saves(r, Free)
  BY <1>0, <1>2, CommitSaves
<1>. QED  BY <1>1, <1>3, <1>4, HoldsAre, Settles

\* A retarget that is saved is ready to leave; the predecessor is resumed when
\* it could not be saved.
LEMMA RetargetReady ==
    ASSUME HaTyped, arms < MaxArms, NEW r, Shape(r),
           NEW p \in Transactions, WellFormed("executing", p),
           r.st = "retargeting" \/ r.st \in Settled,
           NEW next \in HaRecords, next.at = "retarget", next.step = "ready",
           next.pred \in Transactions, WellFormed("executing", next.pred),
           CommitRetarget(r, p, next),
           UNCHANGED <<view, reply, arms, stops, preserved>>
    PROVE  HaTyped'
<1>0. unsaved \in BOOLEAN
  BY HoldsAre
<1>1. CASE r.st # "retargeting"
  <2>1. Saves(r, Free)
    BY <1>0, <1>1, CommitSaves DEF CommitRetarget
  <2>. QED  BY <1>1, <2>1, HoldsAre, Settles
<1>2. CASE r.st = "retargeting" /\ rec' = r /\ saved' = r /\ unsaved' = FALSE /\ ha' = next
           /\ UNCHANGED mishaps
  <2>1. Saves(r, next)
    BY <1>2 DEF Saves
  <2>2. Stands(r, next, arms')
    BY <1>2 DEF Stands
  <2>. QED  BY <1>2, <2>1, <2>2, HoldsAre, SavesTyped
<1>3. CASE r.st = "retargeting" /\ \E q \in CancelRetarget(r, p, view) :
               /\ Mishap("store") /\ rec' = q /\ saved' \in {saved, q} /\ ha' = Free
               /\ UNCHANGED unsaved
  <2>1. PICK q \in CancelRetarget(r, p, view) :
               /\ Mishap("store") /\ rec' = q /\ saved' \in {saved, q} /\ ha' = Free
               /\ UNCHANGED unsaved
    BY <1>3
  <2>2. Shape(q) /\ (q.st = "executing" \/ q = StopRequested(r)) /\ r \in Records
    BY <1>3, <2>1, Cancels DEF Follows, Working, Shape
  <2>3. q.st \in Settled
    BY <2>2, EndStates DEF Settled, States
  <2>4. Saves(q, Free)
    BY <1>0, <2>1 DEF Saves, Mishap
  <2>. QED  BY <2>2, <2>3, <2>4, HoldsAre, Settles
<1>. QED  BY <1>1, <1>2, <1>3 DEF CommitRetarget

LEMMA RetargetTyped == HaTyped /\ Retarget => HaTyped'
<1>. SUFFICES ASSUME HaTyped, Retarget PROVE HaTyped'
  OBVIOUS
<1>0. /\ Shape(rec) /\ rec.st = "executing" /\ view \in Blocks /\ arms < MaxArms
      /\ UNCHANGED <<view, reply, arms, stops, preserved>>
  BY HoldsAre DEF Retarget, CanReconcile, Quiet, Kept
<1>a. PICK b \in Forced \ {rec.tx.b} : \E r \in PrepareRetarget(rec, view, b) :
          CommitRetarget(r, rec.tx, [Ready("retarget") EXCEPT !.pred = rec.tx])
  BY DEF Retarget
<1>1. PICK r \in PrepareRetarget(rec, view, b) :
          CommitRetarget(r, rec.tx, [Ready("retarget") EXCEPT !.pred = rec.tx])
  BY <1>a
<1>2. rec.tx \in Transactions /\ WellFormed("executing", rec.tx) /\ rec \in Records
  BY <1>0, ShapeTx, WorkingIs DEF Working
<1>3. Shape(r) /\ (r.st = "retargeting" \/ r = StopRequested(rec) \/ r = Contradicted(rec))
  BY <1>0, <1>1, Retargets DEF Follows
<1>4. r.st = "retargeting" \/ r.st \in Settled
  BY <1>2, <1>3, EndStates DEF Settled, States
<1>. DEFINE h == [Ready("retarget") EXCEPT !.pred = rec.tx]
<1>5. h = [at |-> "retarget", step |-> "ready", try |-> 1, pred |-> rec.tx]
  <2>1. Ready("retarget") = [at |-> "retarget", step |-> "ready", try |-> 1, pred |-> None]
    BY DEF Ready, Free
  <2>. QED  BY <2>1
<1>6. h \in HaRecords /\ h.at = "retarget" /\ h.step = "ready" /\ h.pred = rec.tx
  <2>1. 1 \in 1..2
    OBVIOUS
  <2>2. h \in HaRecords
    BY <1>2, <1>5, <2>1, Zenon DEF HaRecords
  <2>3. h.at = "retarget" /\ h.step = "ready" /\ h.pred = rec.tx
    BY <1>5
  <2>. HIDE DEF h
  <2>. QED  BY <2>2, <2>3
<1>7. CommitRetarget(r, rec.tx, h)
  BY <1>1
<1>. HIDE DEF h
<1>8. h.pred \in Transactions /\ WellFormed("executing", h.pred)
  BY <1>2, <1>6
<1>9. Shape(r)
  BY <1>3
<1>. QED  BY <1>0, <1>2, <1>4, <1>6, <1>7, <1>8, <1>9, RetargetReady

LEMMA Positions ==
    ASSUME HaTyped
    PROVE  /\ ha.at = "start" => rec.st = "starting"
           /\ ha.at = "retarget" =>
                 /\ rec.st = "retargeting" /\ ha.pred \in Transactions
                 /\ WellFormed("executing", ha.pred)
           /\ ha.at = "restore" =>
                 /\ rec.st \in Resting /\ Owned(rec)
                 /\ PreparedUnsent(rec.tx) /\ rec.tx.refused < 2
           /\ ha.step # "ready" => ha.at \in {"start", "retarget", "restore"}
           /\ ha.at \in {"start", "retarget"} /\ ha.step = "ready" => arms < MaxArms
           /\ ha \in HaRecords
<1>1. Stands(rec, ha, arms) /\ Shape(rec)
  BY HoldsAre
<1>2. ha.at = "restore" => Owned(rec)
  BY <1>1, ShapeTx DEF Stands, WellFormed, Resting, Owned
<1>. QED  BY <1>1, <1>2 DEF Stands, HaRecords

\* The coroutine waits, for an answer or for a newer reading.
LEMMA WaitsTyped ==
    ASSUME HaTyped, NEW s \in {"await", "stale"}, ha' = [ha EXCEPT !.step = s],
           s = "await" => ha.step = "ready" /\ ha.at \in {"start", "retarget", "restore"},
           s = "stale" => ha.at \in {"start", "retarget"},
           arms' \in 0..MaxArms,
           rec.st = "starting" => ha.at = "start",
           UNCHANGED <<rec, saved, unsaved, view, stops, preserved, mishaps>>,
           reply' \in {"none", "ok", "stale", "pending", "bad"}
    PROVE  HaTyped'
<1>1. ha \in HaRecords /\ Stands(rec, ha, arms)
  BY HoldsAre, Positions
<1>2. ha' \in HaRecords /\ ha'.at = ha.at /\ ha'.step = s /\ ha'.pred = ha.pred
  BY <1>1 DEF HaRecords
<1>3. rec.st # "selected"
  BY Positions DEF Resting
<1>4. Stands(rec, ha', arms')
  BY <1>1, <1>2, <1>3 DEF Stands
<1>. QED  BY <1>4 DEF HaTyped, Counters

LEMMA SendsTyped ==
    ASSUME HaTyped, SendArm \/ SendRestore
    PROVE  HaTyped'
<1>1. /\ ha' = [ha EXCEPT !.step = "await"] /\ ha.step = "ready"
      /\ ha.at \in {"start", "retarget", "restore"}
      /\ UNCHANGED <<rec, saved, unsaved, view, reply, stops, preserved, mishaps>>
      /\ arms' = arms \/ (arms' = arms + 1 /\ ha.at \in {"start", "retarget"})
  <2>1. CASE SendArm
    BY <2>1 DEF SendArm, Send
  <2>2. CASE SendRestore
    BY <2>2 DEF SendRestore, Send, At
  <2>. QED  BY <2>1, <2>2
<1>2. arms' \in 0..MaxArms
  BY <1>1, HoldsAre, Positions, ControllerBounds
<1>3. rec.st = "starting" => ha.at = "start"
  BY <1>1, Positions DEF Resting
<1>. QED  BY <1>1, <1>2, <1>3, HoldsAre, WaitsTyped

\* A dispatch that ends: what happened to it is in the record.
LEMMA StartEnds ==
    ASSUME HaTyped, NEW r, Commit(r, Free), ha.at = "start",
           r = Blocked(rec) \/ r = OutcomeUnknown(rec) \/ r \in MarkSent(rec, arms)
             \/ (r = Deferred(rec) /\ ha.step = "ready"),
           view' = view, reply' \in {"none", "ok", "stale", "pending", "bad"},
           UNCHANGED <<arms, stops, preserved>>
    PROVE  HaTyped'
<1>0. /\ Shape(rec) /\ rec \in Records /\ rec.st = "starting" /\ rec.tx # None /\ Owned(rec)
      /\ arms \in 0..MaxArms /\ stops \in 0..MaxStops /\ unsaved \in BOOLEAN
      /\ preserved \in BOOLEAN
  BY HoldsAre, Positions, WorkingIs DEF Working
<1>1. Saves(r, Free)
  BY <1>0, CommitSaves
<1>2. CASE r = Deferred(rec) /\ ha.step = "ready"
  <2>1. Shape(r) /\ arms < MaxArms
    <3>1. \A v \in Blocks : r \in PrepareCommand(rec, v) \cup Reprepare(rec, v)
                                   \cup {Blocked(rec), Deferred(rec)}
      BY <1>2
    <3>2. OffGrid \in Blocks
      BY DEF Blocks
    <3>. QED  BY <1>0, <1>2, <3>1, <3>2, Prepares, Positions DEF Follows
  <2>2. Stands(r, Free, arms')
    BY <2>1, FreeStands
  <2>. QED  BY <1>0, <1>1, <2>1, <2>2, SavesTyped
<1>3. CASE r = Blocked(rec)
  <2>1. Shape(r) /\ r.st \in Settled
    BY <1>0, <1>3, NotOwned, EndStates DEF Follows, Settled, States
  <2>. QED  BY <1>0, <1>1, <2>1, Settles
<1>4. CASE r = OutcomeUnknown(rec)
  <2>1. Shape(r) /\ r.st \in Settled
    BY <1>0, <1>4, Faults, EndStates DEF Follows, Settled, States, OutcomeUnknown
  <2>. QED  BY <1>0, <1>1, <2>1, Settles
<1>5. CASE r \in MarkSent(rec, arms)
  <2>1. Shape(r)
    BY <1>0, <1>5, Sends DEF Follows
  <2>2. r.st \in Settled
    BY <1>0, <1>5, EndStates, PublishState DEF MarkSent, Settled, States
  <2>. QED  BY <1>0, <1>1, <2>1, <2>2, Settles
<1>. QED  BY <1>2, <1>3, <1>4, <1>5

LEMMA RetargetEnds ==
    ASSUME HaTyped, NEW r, Commit(r, Free), ha.at = "retarget",
           r \in MarkSent(rec, arms) \cup {OutcomeUnknown(rec)}
                 \cup CancelRetarget(rec, ha.pred, view),
           view' = view, reply' \in {"none", "ok", "stale", "pending", "bad"},
           UNCHANGED <<arms, stops, preserved>>
    PROVE  HaTyped'
<1>0. /\ Shape(rec) /\ rec \in Records /\ rec.st = "retargeting" /\ rec.tx # None
      /\ Owned(rec) /\ ha.pred \in Transactions /\ WellFormed("executing", ha.pred)
      /\ arms \in 0..MaxArms /\ stops \in 0..MaxStops /\ unsaved \in BOOLEAN
      /\ preserved \in BOOLEAN
  BY HoldsAre, Positions, WorkingIs DEF Working
<1>1. Saves(r, Free)
  BY <1>0, CommitSaves
<1>2. CASE r = OutcomeUnknown(rec)
  <2>1. Shape(r) /\ r.st \in Settled
    BY <1>0, <1>2, Faults, EndStates DEF Follows, Settled, States, OutcomeUnknown
  <2>. QED  BY <1>0, <1>1, <2>1, Settles
<1>3. CASE r \in MarkSent(rec, arms)
  <2>1. Shape(r)
    BY <1>0, <1>3, Sends DEF Follows
  <2>2. r.st \in Settled
    BY <1>0, <1>3, EndStates, PublishState DEF MarkSent, Settled, States
  <2>. QED  BY <1>0, <1>1, <2>1, <2>2, Settles
<1>4. CASE r \in CancelRetarget(rec, ha.pred, view)
  <2>1. Shape(r) /\ (r.st = "executing" \/ r = StopRequested(rec))
    BY <1>0, <1>4, Cancels DEF Follows, Working
  <2>2. r.st \in Settled
    BY <1>0, <2>1, EndStates DEF Settled, States
  <2>. QED  BY <1>0, <1>1, <2>1, <2>2, Settles
<1>. QED  BY <1>2, <1>3, <1>4

LEMMA RestoreEnds ==
    ASSUME HaTyped, NEW r, Saves(r, Free), ha.at = "restore",
           r \in {MarkRestoreSent(rec), RestoreUnknown(rec)} \cup RestoreNotQueued(rec),
           view' = view, reply' \in {"none", "ok", "stale", "pending", "bad"},
           UNCHANGED <<arms, stops, preserved>>
    PROVE  HaTyped'
<1>0. /\ Shape(rec) /\ rec \in Records /\ Owned(rec) /\ PreparedUnsent(rec.tx)
      /\ rec.tx.refused < 2 /\ arms \in 0..MaxArms /\ stops \in 0..MaxStops
      /\ preserved \in BOOLEAN
  BY HoldsAre, Positions
<1>1. CASE r = MarkRestoreSent(rec) \/ r = RestoreUnknown(rec)
  <2>1. Shape(r) /\ r.st \in Settled
    BY <1>0, <1>1, Dispatched, EndStates DEF Settled, States
  <2>. QED  BY <1>0, <2>1, Settles
<1>2. CASE r \in RestoreNotQueued(rec)
  <2>1. Shape(r)
    BY <1>0, <1>2, Refunds DEF Follows
  <2>2. r.st \in {"fault", "stopping"}
    <3>. DEFINE t == [RestoreDropped(rec.tx) EXCEPT !.rb = "pending",
                        !.att = IF @ = 0 THEN 0 ELSE @ - 1, !.refused = @ + 1]
                p == Fault(rec, t)
    <3>1. r = [p EXCEPT !.held = TRUE] \/ r = Publish(rec, "stopping", t)
      BY <1>2 DEF RestoreNotQueued
    <3>. HIDE DEF t
    <3>2. p.st = "fault" /\ Publish(rec, "stopping", t).st = "stopping"
      BY <1>0, EndStates, PublishState
    <3>3. [p EXCEPT !.held = TRUE].st = p.st
      BY <1>0 DEF Fault, Publish, Records
    <3>. QED  BY <3>1, <3>2, <3>3
  <2>. QED  BY <1>0, <2>1, <2>2, Settles DEF Settled, States
<1>. QED  BY <1>1, <1>2

LEMMA AnsweredTyped ==
    ASSUME HaTyped, StartAnswered \/ RetargetAnswered \/ RestoreAnswered \/ DispatchTimesOut
    PROVE  HaTyped'
<1>0. unsaved \in BOOLEAN
  BY HoldsAre
<1>1. ASSUME StartAnswered PROVE HaTyped'
  <2>1. /\ ha.at = "start" /\ ha.step = "await" /\ reply' = "none" /\ view' = view
        /\ UNCHANGED <<arms, stops, preserved>>
    BY <1>1 DEF StartAnswered, At, Taken, Kept
  <2>2. CASE reply = "stale" /\ ha.try = 1
    <3>1. ha' = [ha EXCEPT !.step = "stale"] /\ UNCHANGED <<rec, saved, unsaved, mishaps>>
      BY <1>1, <2>2 DEF StartAnswered
    <3>. QED  BY <2>1, <3>1, HoldsAre, WaitsTyped
  <2>3. CASE ~(reply = "stale" /\ ha.try = 1)
    <3>1. \E r \in {Blocked(rec), OutcomeUnknown(rec)} \cup MarkSent(rec, arms) :
             Commit(r, Free)
      BY <1>1, <2>3 DEF StartAnswered
    <3>. QED  BY <2>1, <3>1, StartEnds
  <2>. QED  BY <2>2, <2>3
<1>2. ASSUME RetargetAnswered PROVE HaTyped'
  <2>1. /\ ha.at = "retarget" /\ ha.step = "await" /\ reply' = "none" /\ view' = view
        /\ UNCHANGED <<arms, stops, preserved>>
    BY <1>2 DEF RetargetAnswered, At, Taken, Kept
  <2>2. CASE reply = "stale" /\ ha.try = 1
    <3>1. ha' = [ha EXCEPT !.step = "stale"] /\ UNCHANGED <<rec, saved, unsaved, mishaps>>
      BY <1>2, <2>2 DEF RetargetAnswered
    <3>2. rec.st # "starting"
      BY <2>1, Positions
    <3>. QED  BY <2>1, <3>1, <3>2, HoldsAre, WaitsTyped
  <2>3. CASE ~(reply = "stale" /\ ha.try = 1)
    <3>1. \E r \in {OutcomeUnknown(rec)} \cup MarkSent(rec, arms)
                   \cup CancelRetarget(rec, ha.pred, view) : Commit(r, Free)
      BY <1>2, <2>3 DEF RetargetAnswered
    <3>. QED  BY <2>1, <3>1, RetargetEnds
  <2>. QED  BY <2>2, <2>3
<1>3. ASSUME RestoreAnswered PROVE HaTyped'
  <2>1. /\ ha.at = "restore" /\ reply' = "none" /\ view' = view
        /\ UNCHANGED <<arms, stops, preserved>>
    BY <1>3 DEF RestoreAnswered, At, Taken, Kept
  <2>2. \E r \in {MarkRestoreSent(rec), RestoreUnknown(rec)} \cup RestoreNotQueued(rec) :
           Save(r, Free, FALSE) \/ Save(r, Free, TRUE)
    BY <1>3 DEF RestoreAnswered
  <2>. QED  BY <1>0, <2>1, <2>2, SaveSaves, RestoreEnds
<1>4. ASSUME DispatchTimesOut PROVE HaTyped'
  <2>1. /\ ha.step = "await" /\ Save(GivenUp, Free, TRUE) /\ view' = view /\ reply' = reply
        /\ UNCHANGED <<arms, stops, preserved>>
    BY <1>4 DEF DispatchTimesOut, Kept
  <2>2. Saves(GivenUp, Free) /\ reply' \in {"none", "ok", "stale", "pending", "bad"}
    BY <1>0, <2>1, SaveSaves, HoldsAre
  <2>3. CASE ha.at = "restore"
    BY <2>1, <2>2, <2>3, RestoreEnds DEF GivenUp
  <2>4. CASE ha.at \in {"start", "retarget"}
    <3>1. Owned(rec) /\ rec \in Records /\ Shape(rec)
      BY <2>4, HoldsAre, Positions, WorkingIs DEF Working
    <3>2. GivenUp = OutcomeUnknown(rec)
      BY <2>4 DEF GivenUp
    <3>3. Shape(GivenUp) /\ GivenUp.st \in Settled
      BY <3>1, <3>2, Faults, EndStates DEF Follows, Settled, States, OutcomeUnknown, Owned
    <3>4. arms' \in 0..MaxArms /\ stops' \in 0..MaxStops /\ preserved' \in BOOLEAN
      BY <2>1, HoldsAre
    <3>. QED  BY <2>1, <2>2, <3>3, <3>4, Settles
  <2>. QED  BY <2>1, <2>3, <2>4, Positions
<1>. QED  BY <1>1, <1>2, <1>3, <1>4

LEMMA RejectedTyped ==
    ASSUME HaTyped, StartRejected \/ RestoreRejected \/ RetargetRejected
    PROVE  HaTyped'
<1>1. ASSUME StartRejected PROVE HaTyped'
  <2>1. /\ ha.at = "start" /\ ha.step = "ready" /\ reply' = reply /\ view' = view
        /\ UNCHANGED <<arms, stops, preserved>>
    BY <1>1 DEF StartRejected, At, Quiet, Kept
  <2>2. \E r \in {Blocked(rec), Deferred(rec)} : Commit(r, Free)
    BY <1>1 DEF StartRejected
  <2>. QED  BY <2>1, <2>2, StartEnds, HoldsAre
<1>2. ASSUME RestoreRejected PROVE HaTyped'
  <2>1. /\ ha.at = "restore" /\ ha' = Free /\ UNCHANGED <<rec, saved, unsaved, mishaps>>
        /\ UNCHANGED <<view, reply, arms, stops, preserved>>
    BY <1>2 DEF RestoreRejected, At, Quiet, Kept
  <2>2. Stands(rec', ha', arms')
    BY <2>1, HoldsAre, Positions, FreeStands DEF Resting
  <2>. QED  BY <2>1, <2>2 DEF HaTyped, Counters
<1>3. ASSUME RetargetRejected PROVE HaTyped'
  <2>1. /\ ha.at = "retarget" /\ reply' = reply /\ view' = view
        /\ UNCHANGED <<arms, stops, preserved>>
    BY <1>3 DEF RetargetRejected, At, Quiet, Kept
  <2>2. \E r \in CancelRetarget(rec, ha.pred, view) : Commit(r, Free)
    BY <1>3 DEF RetargetRejected
  <2>. QED  BY <2>1, <2>2, RetargetEnds, HoldsAre
<1>. QED  BY <1>1, <1>2, <1>3

LEMMA AgainTyped ==
    ASSUME HaTyped, StartAgain \/ RetargetAgain
    PROVE  HaTyped'
<1>0. /\ Shape(rec) /\ rec \in Records /\ unsaved \in BOOLEAN
      /\ arms \in 0..MaxArms /\ stops \in 0..MaxStops /\ preserved \in BOOLEAN
      /\ reply \in {"none", "ok", "stale", "pending", "bad"} /\ ha \in HaRecords
  BY HoldsAre, Positions
<1>. DEFINE again == [ha EXCEPT !.step = "ready", !.try = 2]
<1>a. /\ again \in HaRecords /\ again.at = ha.at /\ again.step = "ready"
      /\ again.pred = ha.pred
  <2>1. 2 \in 1..2
    OBVIOUS
  <2>. QED  BY <1>0, <2>1 DEF HaRecords
<1>1. ASSUME StartAgain PROVE HaTyped'
  <2>1. /\ ha.at = "start" /\ ha.step = "stale"
        /\ UNCHANGED <<view, reply, arms, stops, preserved>>
    BY <1>1 DEF StartAgain, At, Quiet, Kept
  <2>2. rec.st = "starting" /\ rec.tx # None /\ rec.tx \in Transactions
    BY <2>1, Positions, WorkingIs, <1>0 DEF Working
  <2>3. PICK r \in IF arms < MaxArms THEN Reprepare(rec, view) ELSE {Blocked(rec)} :
          IF r.st # "starting" THEN Commit(r, Free)
          ELSE \/ /\ rec' = r /\ saved' = r /\ unsaved' = FALSE /\ UNCHANGED mishaps
                  /\ ha' = again
               \/ /\ Mishap("store") /\ rec' = Blocked(rec) /\ UNCHANGED unsaved
                  /\ saved' \in {saved, Blocked(rec)} /\ ha' = Free
    BY <1>1 DEF StartAgain
  <2>4. Shape(Blocked(rec)) /\ Blocked(rec).st = "blocked"
    BY <1>0, <2>2, NotOwned, EndStates DEF Follows
  <2>5. r = Blocked(rec) \/ (arms < MaxArms /\ Shape(r) /\ r.st = "starting")
    <3>1. r \in Reprepare(rec, view) \cup {Blocked(rec)}
          /\ (r # Blocked(rec) => arms < MaxArms /\ view = rec.tx.base)
      BY <2>3 DEF Reprepare
    <3>2. CASE view \in Blocks
      <4>1. Shape(r) /\ r.st \in {"starting", "blocked"}
        BY <1>0, <2>2, <3>1, <3>2, Prepares DEF Follows
      <4>2. r # Blocked(rec) => r = Prepared(rec, view)
        BY <3>1 DEF Reprepare
      <4>3. Prepared(rec, view).st = "starting"
        BY <1>0, <2>2 DEF Prepared, Records
      <4>. QED  BY <3>1, <4>1, <4>2, <4>3
    <3>3. CASE view \notin Blocks
      BY <2>2, <3>1, <3>3, Fields
    <3>. QED  BY <3>2, <3>3
  <2>6. CASE r.st # "starting"
    <3>1. Saves(r, Free) /\ r = Blocked(rec)
      BY <1>0, <2>3, <2>5, <2>6, CommitSaves
    <3>. QED  BY <1>0, <2>1, <2>4, <3>1, Settles DEF Settled, States
  <2>7. CASE r.st = "starting" /\ rec' = r /\ saved' = r /\ unsaved' = FALSE
             /\ UNCHANGED mishaps /\ ha' = again
    <3>1. Saves(r, again) /\ arms < MaxArms /\ Shape(r)
      BY <2>4, <2>5, <2>7 DEF Saves
    <3>2. Stands(r, again, arms')
      BY <1>a, <2>1, <2>7, <3>1 DEF Stands
    <3>. QED  BY <1>0, <2>1, <3>1, <3>2, SavesTyped
  <2>8. CASE /\ Mishap("store") /\ rec' = Blocked(rec) /\ UNCHANGED unsaved
             /\ saved' \in {saved, Blocked(rec)} /\ ha' = Free
    <3>1. Saves(Blocked(rec), Free)
      BY <1>0, <2>8 DEF Saves, Mishap
    <3>. QED  BY <1>0, <2>1, <2>4, <3>1, Settles DEF Settled, States
  <2>. QED  BY <2>3, <2>6, <2>7, <2>8
<1>2. ASSUME RetargetAgain PROVE HaTyped'
  <2>1. /\ ha.at = "retarget" /\ ha.step = "stale" /\ view' = view /\ reply' = reply
        /\ UNCHANGED <<view, reply, arms, stops, preserved>>
    BY <1>2 DEF RetargetAgain, At, Quiet, Kept
  <2>2. /\ rec.st = "retargeting" /\ ha.pred \in Transactions
        /\ WellFormed("executing", ha.pred)
    BY <2>1, Positions
  <2>3. CASE \E r \in CancelRetarget(rec, ha.pred, view) : Commit(r, Free)
    <3>1. reply' \in {"none", "ok", "stale", "pending", "bad"}
      BY <1>0, <2>1
    <3>. QED  BY <2>1, <2>3, <3>1, RetargetEnds
  <2>4. CASE /\ arms < MaxArms
             /\ \E r \in Successors : CommitRetarget(r, ha.pred, again)
    <3>1. PICK r \in Successors : CommitRetarget(r, ha.pred, again)
      BY <2>4
    <3>2. PICK q \in CancelRetarget(rec, ha.pred, view), b \in Forced :
             r \in IF q.st = "executing" THEN PrepareRetarget(q, view, b) ELSE {q}
      BY <3>1 DEF Successors
    <3>3. Shape(q) /\ (q.st = "executing" \/ q = StopRequested(rec)) /\ q \in Records
      BY <1>0, <2>2, <3>2, Cancels DEF Follows, Working, Shape
    <3>4. Shape(r) /\ (r.st = "retargeting" \/ r.st \in Settled)
      <4>1. CASE q.st # "executing"
        BY <1>0, <3>2, <3>3, <4>1, EndStates DEF Settled, States
      <4>2. CASE q.st = "executing"
        <5>1. StopRequested(rec).st # "executing"
          BY <1>0, EndStates
        <5>2. view = ha.pred.b
          BY <3>2, <4>2, <5>1 DEF CancelRetarget
        <5>3. view \in Blocks /\ r \in PrepareRetarget(q, view, b)
          BY <2>2, <3>2, <4>2, <5>2, Fields
        <5>4. Shape(r) /\ (r.st = "retargeting" \/ r = StopRequested(q) \/ r = Contradicted(q))
          BY <3>3, <4>2, <5>3, Retargets DEF Follows
        <5>. QED  BY <3>3, <5>4, EndStates DEF Settled, States
      <4>. QED  BY <4>1, <4>2
    <3>5. again.at = "retarget" /\ again.pred \in Transactions /\ WellFormed("executing", again.pred)
      BY <1>a, <2>1, <2>2
    <3>. HIDE DEF again
    <3>. QED  BY <1>a, <2>1, <2>2, <2>4, <3>1, <3>4, <3>5, RetargetReady
  <2>. QED  BY <1>2, <2>3, <2>4 DEF RetargetAgain
<1>. QED  BY <1>1, <1>2

LEMMA StoppingTyped ==
    ASSUME HaTyped, Stopping
    PROVE  HaTyped'
<1>0. /\ Shape(rec) /\ rec \in Records /\ unsaved \in BOOLEAN
      /\ arms \in 0..MaxArms /\ stops \in 0..MaxStops /\ preserved \in BOOLEAN
      /\ reply \in {"none", "ok", "stale", "pending", "bad"}
  BY HoldsAre
<1>a. rec.st \in Resting \cup {"restoring"} => Owned(rec)
  BY <1>0, ShapeTx DEF Shape, WellFormed, Resting, Owned
<1>b. UNCHANGED <<view, reply, arms, stops>> /\ preserved' \in BOOLEAN
  <2>1. CASE PrepareRestore
    <3>1. UNCHANGED <<view, reply, arms, stops>>
          /\ \E verdict : preserved' = (preserved \/ (view = OffGrid /\ verdict = "done"))
      BY <2>1 DEF PrepareRestore, Quiet
    <3>. QED  BY <1>0, <3>1
  <2>2. CASE DenyRestore \/ Settle \/ ObserveRestored
    BY <1>0, <2>2 DEF DenyRestore, Settle, ObserveRestored, Quiet, Kept
  <2>. QED  BY <2>1, <2>2 DEF Stopping
\* A record at rest that is as it was, or another one in a settled state.
<1>c. ASSUME NEW r, Shape(r), r.st \in Settled, SaveIfChanged(r, Free) PROVE HaTyped'
  <2>1. CASE Saves(r, Free)
    BY <1>0, <1>b, <1>c, <2>1, Settles
  <2>2. CASE r = rec /\ ha' = Free /\ UNCHANGED <<rec, saved, unsaved, mishaps>>
    <3>1. Stands(rec', ha', arms')
      BY <1>b, <1>c, <2>2, FreeStands DEF Settled
    <3>. QED  BY <1>b, <2>2, <3>1 DEF HaTyped, Counters
  <2>. QED  BY <1>0, <1>c, <2>1, <2>2, ChangedSaves
<1>1. ASSUME PrepareRestore PROVE HaTyped'
  <2>. DEFINE verdict == Verdict(rec.tx, view)
              r == RestoreOn(rec, view, verdict)
              next == IF verdict = "write" THEN Ready("restore") ELSE Free
  <2>1. rec.st \in Resting /\ view \in Blocks /\ SaveIfChanged(r, next)
    BY <1>1, HoldsAre DEF PrepareRestore, Restorable, CanReconcile, Resting
  <2>2. /\ Shape(r)
        /\ verdict = "write" =>
              /\ r.st = rec.st /\ r.tx \in Transactions
              /\ PreparedUnsent(r.tx) /\ r.tx.refused < 2
    BY <1>0, <2>1, Restores DEF Follows
  <2>3. CASE verdict # "write"
    <3>1. r.st \in Settled
      <4>1. r = rec \/ r = [rec EXCEPT !.tx.rsnap = Snap(view)] \/ r = Finished(rec)
            \/ r = RollbackFailed(rec) \/ r = Hold(rec)
        BY <2>3 DEF RestoreOn, Verdict
      <4>2. [rec EXCEPT !.tx.rsnap = Snap(view)].st = rec.st
        BY <1>0 DEF Records
      <4>a. /\ Finished(rec).st = "idle" /\ RollbackFailed(rec).st = "fault"
            /\ Hold(rec).st = "fault"
        BY <1>0, EndStates
      <4>. HIDE DEF r
      <4>3. r.st \in {"idle", "fault", rec.st}
        BY <4>1, <4>2, <4>a
      <4>. QED  BY <2>1, <4>3 DEF Settled, States, Resting
    <3>2. SaveIfChanged(r, Free)
      BY <2>1, <2>3
    <3>. HIDE DEF r
    <3>. QED  BY <1>c, <2>2, <3>1, <3>2
  <2>4. CASE verdict = "write"
    <3>. DEFINE h == Ready("restore")
    <3>1. h \in HaRecords /\ h.at = "restore" /\ h.step = "ready"
      BY DEF Ready, Free, HaRecords
    <3>2. SaveIfChanged(r, h)
      BY <2>1, <2>4
    <3>. HIDE DEF h, r, verdict
    <3>3. r.tx # None
      BY <2>2, <2>4, NoTransaction
    <3>4. Stands(r, h, arms')
      BY <2>1, <2>2, <2>4, <3>1, <3>3 DEF Stands, Resting
    <3>5. CASE Saves(r, h)
      <4>1. ~(r.st \in {"selected", "starting"})
        BY <2>1, <2>2, <2>4 DEF Resting
      <4>. QED  BY <1>0, <1>b, <3>4, <3>5, <4>1, SavesTyped
    <3>6. CASE r = rec /\ ha' = h /\ UNCHANGED <<rec, saved, unsaved, mishaps>>
      <4>1. Stands(rec', ha', arms')
        BY <3>4, <3>6
      <4>. QED  BY <1>b, <3>6, <4>1 DEF HaTyped, Counters
    <3>. QED  BY <1>0, <3>2, <3>5, <3>6, ChangedSaves
  <2>. QED  BY <2>3, <2>4
<1>2. ASSUME DenyRestore PROVE HaTyped'
  <2>1. rec.st \in Resting
    BY <1>2 DEF DenyRestore, Restorable, CanReconcile, Resting
  <2>2. PICK r \in RestoreDenied(rec) : SaveIfChanged(r, Free)
    BY <1>2 DEF DenyRestore
  <2>3. Shape(r)
    BY <1>0, <1>a, <2>1, <2>2, Denies DEF Follows
  <2>4. r.st \in Settled
    BY <1>0, <2>2, EndStates DEF RestoreDenied, Settled, States
  <2>. QED  BY <1>c, <2>2, <2>3, <2>4
<1>3. ASSUME Settle PROVE HaTyped'
  <2>1. rec.st \in Resting
    BY <1>3 DEF Settle, Restorable, CanReconcile, Resting
  <2>2. Shape(Finished(rec)) /\ Finished(rec).st \in Settled
    BY <1>0, <1>a, <2>1, NotOwned, EndStates DEF Follows, Settled, States, Owned
  <2>3. CASE Save(Finished(rec), Free, TRUE)
    <3>1. Saves(Finished(rec), Free)
      BY <1>0, <2>3, SaveSaves
    <3>. QED  BY <1>0, <1>b, <2>2, <3>1, Settles
  <2>4. CASE Mishap("store") /\ UNCHANGED <<rec, saved, unsaved, ha>>
    <3>1. mishaps' \in 0..MaxMishaps
      BY <2>4, ControllerBounds DEF Mishap, HaTyped, Counters
    <3>2. Stands(rec', ha', arms')
      BY <1>b, <2>4, HoldsAre
    <3>. QED  BY <1>b, <2>4, <3>1, <3>2 DEF HaTyped, Counters
  <2>. QED  BY <1>3, <2>3, <2>4 DEF Settle
<1>4. ASSUME ObserveRestored PROVE HaTyped'
  <2>. DEFINE r == ObserveRestore(rec, view)
  <2>1. rec.st = "restoring" /\ view \in Blocks /\ Save(r, Free, TRUE)
    BY <1>4, HoldsAre DEF ObserveRestored, CanReconcile
  <2>2. Shape(r)
    BY <1>0, <2>1, Readback DEF Follows
  <2>3. r.st \in {"restoring", "idle", "stopping", "fault"}
    <3>1. [rec EXCEPT !.tx = [rec.tx EXCEPT !.rsnap = Snap(view), !.moved = TRUE]].st = rec.st
      BY <1>0 DEF Records
    <3>. QED  BY <1>0, <2>1, <3>1, EndStates, PublishState DEF ObserveRestore
  <2>4. Saves(r, Free)
    BY <1>0, <2>1, SaveSaves
  <2>. HIDE DEF r
  <2>. QED  BY <1>0, <1>b, <2>2, <2>3, <2>4, Settles DEF Settled, States
<1>. QED  BY <1>1, <1>2, <1>3, <1>4 DEF Stopping

LEMMA MasterTyped ==
    ASSUME HaTyped, RequestMasterStop \/ RetryPersistence \/ Restart
    PROVE  HaTyped'
<1>0. /\ Shape(rec) /\ rec \in Records /\ unsaved \in BOOLEAN /\ Shape(saved)
      /\ arms \in 0..MaxArms /\ stops \in 0..MaxStops /\ preserved \in BOOLEAN
      /\ mishaps \in 0..MaxMishaps
      /\ reply \in {"none", "ok", "stale", "pending", "bad"}
  BY HoldsAre DEF HaTyped, Counters
<1>1. ASSUME RequestMasterStop PROVE HaTyped'
  <2>1. /\ view \in Blocks /\ stops' = stops + 1 /\ stops < MaxStops
        /\ UNCHANGED <<view, reply, arms>>
        /\ preserved' = (preserved \/ (view = OffGrid /\ rec'.st = "idle"))
    BY <1>1, HoldsAre DEF RequestMasterStop
  <2>2. PICK r \in MasterStop(rec, view) : CommitStop(r, Free, TRUE)
    BY <1>1 DEF RequestMasterStop
  <2>3. Shape(r)
    BY <1>0, <2>1, <2>2, Stops
  <2>4. r.st \in {"fault", "blocked", "stopping", "idle"}
    <3>1. /\ Latched(rec) \in Records
          /\ \A p : p \in Records => [p EXCEPT !.mst = "blocked"].st = p.st
      BY <1>0, LatchedIs DEF Records
    <3>2. StopBlocked(rec).st \in {"fault", "blocked"}
      <4>. DEFINE l == Latched(rec)
                  p == Publish(l, "fault", [rec.tx EXCEPT !.master = TRUE])
      <4>1. p.st = "fault" /\ p.mst = l.mst /\ DOMAIN p = {"st", "tx", "allowed", "mst", "held"}
        BY <3>1, PublishState DEF Publish, Records
      <4>. HIDE DEF p
      <4>2. [p EXCEPT !.mst = "blocked"].st = "fault"
        BY <4>1
      <4>. HIDE DEF l
      <4>3. [l EXCEPT !.st = "blocked", !.mst = "blocked"].st = "blocked"
        BY <3>1 DEF Records, l
      <4>. QED  BY <4>2, <4>3 DEF StopBlocked, p, l
    <3>3. StopTakesOver(rec).st = "stopping"
      BY <3>1, PublishState DEF StopTakesOver
    <3>4. StopFromRest(rec, view).st \in {"idle", "stopping"}
      <4>. DEFINE l == Latched(rec)
      <4>. HIDE DEF l
      <4>1. [l EXCEPT !.st = "idle", !.tx = None, !.mst = "completed"].st = "idle"
        BY <3>1 DEF Records, l
      <4>2. \A t : Publish(l, "stopping", t).st = "stopping"
        BY <3>1, PublishState DEF l
      <4>. QED  BY <4>1, <4>2 DEF StopFromRest, l
    <3>5. r \in {StopBlocked(rec), StopTakesOver(rec), StopFromRest(rec, view)}
      BY <2>2 DEF MasterStop
    <3>. QED  BY <3>2, <3>3, <3>4, <3>5
  <2>5. Saves(r, Free)
    BY <1>0, <2>2, SaveSaves
  <2>6. stops' \in 0..MaxStops
    BY <1>0, <2>1, ControllerBounds
  <2>7. preserved' \in BOOLEAN
    BY <1>0, <2>1
  <2>. QED  BY <1>0, <2>1, <2>3, <2>4, <2>5, <2>6, <2>7, Settles DEF Settled, States
<1>2. ASSUME RetryPersistence PROVE HaTyped'
  <2>1. /\ ha = Free /\ CommitStop(rec, Free, TRUE)
        /\ UNCHANGED <<view, reply, arms, stops, preserved>>
    BY <1>2 DEF RetryPersistence, Quiet, Kept
  <2>2. Saves(rec, Free)
    BY <1>0, <2>1, SaveSaves
  <2>3. rec.st \in {"selected", "starting"} => arms < MaxArms
    BY <2>1, HoldsAre
  <2>. QED  BY <1>0, <2>1, <2>2, <2>3, Stays
<1>3. ASSUME Restart PROVE HaTyped'
  <2>. DEFINE r == Recovered(saved)
  <2>1. /\ rec' = r /\ saved' = r /\ unsaved' = FALSE /\ view' = None /\ ha' = Free
        /\ reply' = "none" /\ UNCHANGED <<arms, stops, preserved>>
        /\ mishaps' = mishaps + 1 /\ mishaps < MaxMishaps
    BY <1>3 DEF Restart, Mishap
  <2>2. Shape(r) /\ r.st \notin Working \cup {"selected"}
    BY <1>0, Recovers
  <2>. HIDE DEF r
  <2>3. Stands(r, Free, arms)
    BY <2>2, FreeStands DEF Working
  <2>4. mishaps' \in 0..MaxMishaps
    BY <1>0, <2>1, ControllerBounds
  <2>. QED  BY <1>0, <2>1, <2>2, <2>3, <2>4 DEF HaTyped, Counters
<1>. QED  BY <1>1, <1>2, <1>3

\* A newer reading leaves every record and position what it was.
LEMMA ReadingTyped ==
    ASSUME HaTyped, seen \in Blocks \cup {None}, NEW lost \in BOOLEAN, ReadingReceived(lost)
    PROVE  HaTyped'
<1>0. /\ Shape(rec) /\ rec \in Records /\ Shape(saved) /\ Stands(rec, ha, arms)
      /\ ha \in HaRecords
  BY HoldsAre, Positions
<1>1. view' \in Blocks \cup {None} /\ UNCHANGED <<unsaved, reply, arms, stops, preserved, mishaps>>
  BY DEF ReadingReceived
<1>2. CASE ~lag
  <2>1. UNCHANGED <<rec, saved, ha>>
    BY <1>2 DEF ReadingReceived
  <2>2. Stands(rec', ha', arms')
    BY <1>0, <1>1, <2>1
  <2>. QED  BY <1>1, <2>1, <2>2 DEF HaTyped, Counters
<1>3. CASE lag
  <2>. DEFINE p == AgedTx(ha.pred, lost)
  <2>1. /\ rec' = [rec EXCEPT !.tx = AgedTx(rec.tx, lost)]
        /\ saved' = [saved EXCEPT !.tx = AgedTx(saved.tx, lost)]
        /\ ha' = [ha EXCEPT !.pred = p]
    BY <1>3 DEF ReadingReceived
  <2>2. /\ Shape(rec') /\ rec'.st = rec.st /\ (Owned(rec') <=> Owned(rec))
        /\ Owned(rec) => /\ (PreparedUnsent(rec'.tx) <=> PreparedUnsent(rec.tx))
                         /\ rec'.tx.refused = rec.tx.refused
    <3>1. Shape(rec) /\ rec' = Elder(rec, lost)
      BY <1>0, <2>1 DEF Elder
    <3>. QED  BY <3>1, AgedRecord
  <2>3. Shape(saved')
    <3>1. Shape(saved) /\ saved' = Elder(saved, lost)
      BY <1>0, <2>1 DEF Elder
    <3>. QED  BY <3>1, AgedRecord
  <2>4. p \in Transactions \cup {None}
    <3>1. ha.pred \in Transactions \cup {None}
      BY <1>0 DEF HaRecords
    <3>2. CASE ha.pred \in Transactions
      BY <3>2, AgedTxs
    <3>3. CASE ha.pred = None
      BY <3>3 DEF AgedTx
    <3>. QED  BY <3>1, <3>2, <3>3
  <2>5. ASSUME ha.pred \in Transactions, WellFormed("executing", ha.pred)
        PROVE  p \in Transactions /\ WellFormed("executing", p)
    BY <2>5, AgedTxs, AgedWell
  <2>. HIDE DEF p
  <2>6. ha' \in HaRecords /\ ha'.at = ha.at /\ ha'.step = ha.step /\ ha'.pred = p
    BY <1>0, <2>1, <2>4 DEF HaRecords
  <2>7. ha.at = "restore" => rec'.tx # None /\ PreparedUnsent(rec'.tx) /\ rec'.tx.refused < 2
    BY <2>2, Positions DEF Owned
  <2>8. Stands(rec', ha', arms')
    BY <1>0, <1>1, <2>2, <2>5, <2>6, <2>7 DEF Stands
  <2>. QED  BY <1>1, <2>3, <2>8 DEF HaTyped, Counters
<1>. QED  BY <1>2, <1>3

\* The firmware and the inverter only answer.
LEMMA FirmwareHa ==
    ASSUME HaTyped, Firmware \/ OutsideChange \/ EspRestart
    PROVE  HaTyped'
<1>1. /\ UNCHANGED <<rec, saved, unsaved, view, ha, arms, stops, preserved>>
      /\ mishaps' = mishaps \/ \E kind : Mishap(kind)
      /\ reply' \in {reply, "ok", "stale", "pending", "bad"}
  <2>1. CASE PollDue \/ WriteApplied \/ WriteLost \/ Reading \/ LeaseTimer
    BY <2>1 DEF PollDue, WriteApplied, WriteLost, Reading, LeaseTimer, EspIdle, HaIdle
  <2>2. ASSUME NEW m \in net, EspArms(m) \/ EspRestores(m) \/ RequestLost(m)
        PROVE  /\ UNCHANGED <<rec, saved, unsaved, view, ha, arms, stops, preserved, mishaps>>
               /\ reply' \in {reply, "ok"}
    BY <2>2 DEF EspArms, EspRestores, RequestLost, HaIdle, Answer
  <2>3. ASSUME NEW m \in net, EspRefuses(m)
        PROVE  /\ UNCHANGED <<rec, saved, unsaved, view, ha, arms, stops, preserved, mishaps>>
               /\ reply' \in {reply, "stale", "pending", "bad"}
    <3>1. PICK r \in {"stale", "bad", "pending"} : Answer(m, r)
      BY <2>3 DEF EspRefuses
    <3>. QED  BY <2>3, <3>1 DEF EspRefuses, HaIdle, Answer
  <2>4. CASE OutsideChange \/ EspRestart
    BY <2>4 DEF OutsideChange, EspRestart, EspIdle, HaIdle
  <2>. QED  BY <2>1, <2>2, <2>3, <2>4 DEF Firmware
<1>2. Stands(rec', ha', arms')
  BY <1>1, HoldsAre
<1>3. mishaps' \in 0..MaxMishaps
  BY <1>1, ControllerBounds DEF Mishap, HaTyped, Counters
<1>. QED  BY <1>1, <1>2, <1>3 DEF HaTyped, Counters

-----------------------------------------------------------------------------
(* The requests on their way.                                              *)

\* No request is new: each is one that was there, at most marked old or given up.
Carries ==
    \E f \in [net -> Requests] :
       /\ \A m \in net : /\ f[m].kind = m.kind /\ f[m].id = m.id /\ f[m].b = m.b
                         /\ f[m].awaited => m.awaited
       /\ net' \subseteq {f[m] : m \in net}

LEMMA RequestFields ==
    ASSUME NEW m \in Requests
    PROVE  /\ [m EXCEPT !.awaited = FALSE] \in Requests /\ [m EXCEPT !.cur = FALSE] \in Requests
           /\ [m EXCEPT !.awaited = FALSE].kind = m.kind /\ [m EXCEPT !.cur = FALSE].kind = m.kind
           /\ [m EXCEPT !.awaited = FALSE].id = m.id /\ [m EXCEPT !.cur = FALSE].id = m.id
           /\ [m EXCEPT !.awaited = FALSE].b = m.b /\ [m EXCEPT !.cur = FALSE].b = m.b
           /\ ~[m EXCEPT !.awaited = FALSE].awaited
           /\ [m EXCEPT !.cur = FALSE].awaited = m.awaited
BY DEF Requests

LEMMA Carried ==
    ASSUME NetTyped,
           \/ Unawaited
           \/ net' = Matters({[m EXCEPT !.cur = FALSE] : m \in net})
           \/ net' \subseteq net
    PROVE  Carries
<1>1. CASE Unawaited
  <2>. DEFINE f == [m \in net |-> [m EXCEPT !.awaited = FALSE]]
  <2>1. f \in [net -> Requests]
    BY RequestFields DEF NetTyped
  <2>2. \A m \in net : /\ f[m].kind = m.kind /\ f[m].id = m.id /\ f[m].b = m.b
                       /\ f[m].awaited => m.awaited
    BY RequestFields DEF NetTyped
  <2>3. net' \subseteq {f[m] : m \in net}
    BY <1>1 DEF Unawaited, Matters
  <2>. HIDE DEF f
  <2>. QED  BY <2>1, <2>2, <2>3 DEF Carries
<1>2. CASE net' = Matters({[m EXCEPT !.cur = FALSE] : m \in net})
  <2>. DEFINE f == [m \in net |-> [m EXCEPT !.cur = FALSE]]
  <2>1. f \in [net -> Requests]
    BY RequestFields DEF NetTyped
  <2>2. \A m \in net : /\ f[m].kind = m.kind /\ f[m].id = m.id /\ f[m].b = m.b
                       /\ f[m].awaited => m.awaited
    BY RequestFields DEF NetTyped
  <2>3. net' \subseteq {f[m] : m \in net}
    BY <1>2 DEF Matters
  <2>. HIDE DEF f
  <2>. QED  BY <2>1, <2>2, <2>3 DEF Carries
<1>3. CASE net' \subseteq net
  <2>. DEFINE f == [m \in net |-> m]
  <2>1. f \in [net -> Requests]
    BY DEF NetTyped
  <2>2. \A m \in net : f[m] = m
    OBVIOUS
  <2>3. net' \subseteq {f[m] : m \in net}
    BY <1>3
  <2>. HIDE DEF f
  <2>. QED  BY <2>1, <2>2, <2>3 DEF Carries
<1>. QED  BY <1>1, <1>2, <1>3

LEMMA Images ==
    ASSUME NEW S, IsFiniteSet(S), NEW U, NEW f \in [S -> U], NEW T,
           T \subseteq {f[x] : x \in S}
    PROVE  IsFiniteSet(T) /\ Cardinality(T) <= Cardinality(S)
<1>. DEFINE I == {f[x] : x \in S}
<1>1. f \in Surjection(S, I)
  BY DEF Surjection
<1>2. IsFiniteSet(I) /\ Cardinality(I) <= Cardinality(S)
  BY <1>1, FS_Surjection
<1>3. IsFiniteSet(T) /\ Cardinality(T) <= Cardinality(I)
  BY <1>2, FS_Subset
<1>4. Cardinality(T) \in Nat /\ Cardinality(I) \in Nat /\ Cardinality(S) \in Nat
  BY <1>2, <1>3, FS_CardinalityType
<1>. QED  BY <1>2, <1>3, <1>4

LEMMA CarriesTyped == ASSUME NetTyped, Carries PROVE NetTyped'
<1>1. PICK f \in [net -> Requests] :
       /\ \A m \in net : /\ f[m].kind = m.kind /\ f[m].id = m.id /\ f[m].b = m.b
                         /\ f[m].awaited => m.awaited
       /\ net' \subseteq {f[m] : m \in net}
  BY DEF Carries
<1>2. IsFiniteSet(net')
  BY <1>1, Images DEF NetTyped
<1>3. net' \subseteq Requests
  BY <1>1
<1>4. \A m \in net' : m.kind = "arm" => m.b \in Forced /\ m.id \in 1..MaxArms
  BY <1>1 DEF NetTyped
<1>. QED  BY <1>2, <1>3, <1>4 DEF NetTyped

LEMMA OwnFinite == NetTyped => IsFiniteSet(Own) /\ Cardinality(Own) \in Nat
BY FS_Subset, FS_CardinalityType DEF NetTyped, Own

LEMMA CarriesOwn ==
    ASSUME NetTyped, Carries PROVE Cardinality(Own') <= Cardinality(Own)
<1>1. PICK f \in [net -> Requests] :
       /\ \A m \in net : /\ f[m].kind = m.kind /\ f[m].id = m.id /\ f[m].b = m.b
                         /\ f[m].awaited => m.awaited
       /\ net' \subseteq {f[m] : m \in net}
  BY DEF Carries
<1>. DEFINE g == [m \in Own |-> f[m]]
<1>2. g \in [Own -> Requests]
  BY <1>1 DEF Own
<1>3. Own' \subseteq {g[m] : m \in Own}
  BY <1>1 DEF Own
<1>. HIDE DEF g
<1>. QED  BY <1>2, <1>3, OwnFinite, Images

\* A request that leaves: an arm of the forced block wanted, or a restore.
LEMMA SendNet ==
    ASSUME HaTyped, NetTyped, SendArm \/ SendRestore
    PROVE  NetTyped'
<1>1. CASE SendArm
  <2>. DEFINE m == Request("arm", arms + 1, rec.tx.b)
  <2>1. net' = net \cup {m}
    BY <1>1 DEF SendArm, Send
  <2>2. rec.tx.b \in Forced /\ arms < MaxArms /\ arms \in 0..MaxArms
    BY <1>1, HoldsAre, Positions, WorkingIs DEF SendArm, Working, Fresh
  <2>3. arms + 1 \in 1..MaxArms /\ arms + 1 \in 0..MaxArms
    BY <2>2, ControllerBounds
  <2>4. m \in Requests /\ m.kind = "arm" /\ m.b \in Forced /\ m.id = arms + 1
    BY <2>2, <2>3 DEF Request, Requests, Blocks
  <2>. HIDE DEF m
  <2>. QED  BY <2>1, <2>3, <2>4, FS_AddElement DEF NetTyped
<1>2. CASE SendRestore
  <2>. DEFINE m == Request("restore", 1, Target(rec.tx))
  <2>1. net' = net \cup {m} /\ ha.at = "restore"
    BY <1>2 DEF SendRestore, Send, At
  <2>2. Owned(rec) /\ rec.tx \in Transactions
    BY <2>1, HoldsAre, Positions, StopOf
  <2>3. Target(rec.tx) \in Blocks
    BY <2>2, Fields, ExecutorBlocks DEF Target, Neutral, Blocks
  <2>4. 1 \in 0..MaxArms
    BY ControllerBounds
  <2>5. m \in Requests /\ m.kind = "restore"
    BY <2>3, <2>4 DEF Request, Requests
  <2>. HIDE DEF m
  <2>. QED  BY <2>1, <2>5, FS_AddElement DEF NetTyped
<1>. QED  BY <1>1, <1>2

LEMMA StartNet == ASSUME NetTyped, Start PROVE NetTyped' /\ Own' = {}
<1>. DEFINE f == [m \in net |-> OfAnOlderOwner(m)]
<1>1. net' = {OfAnOlderOwner(m) : m \in net}
  BY DEF Start
<1>2. ASSUME NEW m \in net
      PROVE  /\ OfAnOlderOwner(m) \in Requests /\ OfAnOlderOwner(m).kind = m.kind
             /\ OfAnOlderOwner(m).b = m.b
             /\ OfAnOlderOwner(m).id = IF m.kind = "restore" THEN 0 ELSE m.id
  <2>. DEFINE n == IF m.kind = "restore" THEN 0 ELSE m.id
  <2>1. m \in Requests /\ n \in 0..MaxArms
    BY ControllerBounds DEF NetTyped, Requests
  <2>2. OfAnOlderOwner(m) = [m EXCEPT !.id = n]
    BY DEF OfAnOlderOwner
  <2>. HIDE DEF n
  <2>3. [m EXCEPT !.id = n] \in Requests /\ [m EXCEPT !.id = n].kind = m.kind
        /\ [m EXCEPT !.id = n].b = m.b /\ [m EXCEPT !.id = n].id = n
    BY <2>1 DEF Requests
  <2>. QED  BY <2>2, <2>3 DEF n
<1>3. f \in [net -> Requests] /\ net' \subseteq {f[m] : m \in net}
  BY <1>1, <1>2
<1>. HIDE DEF f
<1>4. IsFiniteSet(net')
  BY <1>3, Images DEF NetTyped
<1>5. net' \subseteq Requests /\ \A m \in net' : m.kind = "arm" => m.b \in Forced /\ m.id \in 1..MaxArms
  BY <1>1, <1>2 DEF NetTyped
<1>6. \A m \in net' : m.kind = "restore" => m.id = 0
  BY <1>1, <1>2
<1>. QED  BY <1>4, <1>5, <1>6 DEF NetTyped, Own

\* Which actions carry the requests on, and which one sends a new one.
LEMMA Carriers ==
    ASSUME NetTyped, Next
    PROVE  Carries \/ Start \/ SendArm \/ SendRestore
<1>1. CASE \/ Select \/ PrepareStart \/ Unblock \/ Deadline \/ Observe
           \/ Verify \/ Sustain \/ Retarget \/ Stopping \/ Rearm
  BY <1>1, Carried DEF Select, PrepareStart, Unblock, Deadline, Observe, Verify, Sustain, Retarget,
     Stopping, PrepareRestore, DenyRestore, Settle, ObserveRestored, Rearm, Quiet
<1>2. CASE \/ StartRejected \/ RestoreRejected \/ RetargetRejected \/ StartAnswered
           \/ RetargetAnswered \/ RestoreAnswered \/ StartAgain \/ RetargetAgain
  BY <1>2, Carried DEF StartRejected, RestoreRejected, RetargetRejected, StartAnswered,
     RetargetAnswered, RestoreAnswered, StartAgain, RetargetAgain, Quiet, Taken
<1>3. CASE DispatchTimesOut \/ Restart
  BY <1>3, Carried DEF DispatchTimesOut, Restart
<1>4. CASE RequestMasterStop \/ RetryPersistence \/ OutsideChange \/ EspRestart
  BY <1>4, Carried DEF RequestMasterStop, RetryPersistence, OutsideChange, EspRestart, Quiet
<1>5. CASE \E lost \in BOOLEAN : ReadingReceived(lost)
  BY <1>5, Carried DEF ReadingReceived
<1>6. CASE Firmware
  <2>1. CASE PollDue \/ WriteApplied \/ WriteLost \/ LeaseTimer
    BY <2>1, Carried DEF PollDue, WriteApplied, WriteLost, LeaseTimer
  <2>2. CASE Reading
    BY <2>2, Carried DEF Reading
  <2>3. CASE \E m \in net : EspArms(m) \/ EspRestores(m) \/ EspRefuses(m) \/ RequestLost(m)
    <3>1. PICK m \in net : EspArms(m) \/ EspRestores(m) \/ EspRefuses(m) \/ RequestLost(m)
      BY <2>3
    <3>2. net' = net \ {m}
      BY <3>1 DEF EspArms, EspRestores, EspRefuses, RequestLost, Answer
    <3>. QED  BY <3>2, Carried
  <2>. QED  BY <1>6, <2>1, <2>2, <2>3 DEF Firmware
<1>. QED  BY <1>1, <1>2, <1>3, <1>4, <1>5, <1>6 DEF Next, Reconcile, Dispatching

LEMMA NextNet == ASSUME HaTyped, NetTyped, Next PROVE NetTyped'
BY Carriers, CarriesTyped, StartNet, SendNet

-----------------------------------------------------------------------------
(* The firmware and the inverter.                                          *)

LEMMA LeaseFields ==
    ASSUME NEW l \in Leases
    PROVE  /\ l.id \in 1..MaxArms /\ l.id \in 0..MaxArms /\ l.b \in Forced /\ l.fb \in SelfUse
           /\ l.pred \in Forced \cup {None} /\ l.st \in {"armed", "expired", "restoring"}
           /\ \A st \in {"armed", "expired", "restoring"} : [l EXCEPT !.st = st] \in Leases
<1>1. /\ l.id \in 1..MaxArms /\ l.b \in Forced /\ l.fb \in SelfUse
      /\ l.pred \in Forced \cup {None} /\ l.st \in {"armed", "expired", "restoring"}
      /\ \A st \in {"armed", "expired", "restoring"} : [l EXCEPT !.st = st] \in Leases
  BY DEF Leases
<1>2. l.id \in 0..MaxArms
  BY <1>1, ControllerBounds
<1>. QED  BY <1>1, <1>2

LEMMA BarrierAfters ==
    ASSUME EspTyped, NEW b \in Blocks
    PROVE  BarrierAfter(b) \in [expect : Blocks, mism : BOOLEAN] \cup {None}
BY DEF BarrierAfter, EspTyped

LEMMA LeaseAfters ==
    ASSUME EspTyped, NEW b \in Blocks, LeaseAfter(b)
    PROVE  lease' \in Leases \cup {None} /\ proof' \in [id : 0..MaxArms, shown : BOOLEAN]
<1>0. lease \in Leases \cup {None} /\ proof \in [id : 0..MaxArms, shown : BOOLEAN]
  BY DEF EspTyped
<1>1. CASE UNCHANGED <<lease, proof>>
  BY <1>0, <1>1
<1>2. ASSUME lease # None, LeaseExpires
      PROVE  lease' \in Leases \cup {None} /\ proof' \in [id : 0..MaxArms, shown : BOOLEAN]
  BY <1>0, <1>2, LeaseFields DEF LeaseExpires
<1>3. ASSUME lease # None, NEW proven \in BOOLEAN, LeaseEnds(proven)
      PROVE  lease' \in Leases \cup {None} /\ proof' \in [id : 0..MaxArms, shown : BOOLEAN]
  <2>1. lease.id \in 0..MaxArms
    BY <1>0, <1>3, LeaseFields, ControllerBounds
  <2>. QED  BY <1>0, <1>3, <2>1 DEF LeaseEnds
<1>4. \/ UNCHANGED <<lease, proof>>
      \/ lease # None /\ LeaseExpires
      \/ lease # None /\ \E proven \in BOOLEAN : LeaseEnds(proven)
  <2>1. CASE lease = None \/ BarrierAfter(b) # None
    BY <2>1 DEF LeaseAfter
  <2>2. CASE lease # None /\ BarrierAfter(b) = None /\ lease.st = "armed"
    BY <2>2 DEF LeaseAfter
  <2>3. CASE lease # None /\ BarrierAfter(b) = None /\ lease.st = "restoring"
    BY <2>3 DEF LeaseAfter
  <2>4. CASE lease # None /\ BarrierAfter(b) = None /\ lease.st \notin {"armed", "restoring"}
    BY <2>4 DEF LeaseAfter
  <2>. QED  BY <2>1, <2>2, <2>3, <2>4
<1>. QED  BY <1>1, <1>2, <1>3, <1>4

LEMMA QueuedTyped ==
    ASSUME EspTyped, NEW b \in Blocks, Queued(b)
    PROVE  /\ bus' \in Seq(Blocks \cup {Poll})
           /\ barrier' \in [expect : Blocks, mism : BOOLEAN] \cup {None}
BY DEF Queued, EspTyped

LEMMA FirmwareTyped ==
    ASSUME EspTyped, NetTyped, Firmware PROVE EspTyped'
<1>0. /\ seen \in Blocks \cup {None} /\ lag \in BOOLEAN /\ phys \in Blocks
      /\ bus \in Seq(Blocks \cup {Poll}) /\ restores \in Nat
      /\ lease \in Leases \cup {None} /\ proof \in [id : 0..MaxArms, shown : BOOLEAN]
      /\ barrier \in [expect : Blocks, mism : BOOLEAN] \cup {None}
      /\ booted \in BOOLEAN /\ driven \in BOOLEAN
  BY DEF EspTyped
<1>a. bus # <<>> => Tail(bus) \in Seq(Blocks \cup {Poll}) /\ Head(bus) \in Blocks \cup {Poll}
  BY <1>0
<1>1. CASE PollDue
  <2>1. bus' \in Seq(Blocks \cup {Poll})
    BY <1>0, <1>1 DEF PollDue
  <2>. QED  BY <1>0, <1>1, <2>1 DEF PollDue, EspIdle, EspTyped
<1>2. CASE WriteApplied
  <2>1. Head(bus) \in Blocks /\ bus' \in Seq(Blocks \cup {Poll}) /\ driven' \in BOOLEAN
        /\ phys' \in Blocks
    BY <1>a, <1>2 DEF WriteApplied
  <2>. QED  BY <1>0, <1>2, <2>1 DEF WriteApplied, EspIdle, EspTyped
<1>3. CASE WriteLost
  BY <1>0, <1>a, <1>3 DEF WriteLost, EspIdle, EspTyped
<1>4. CASE Reading
  <2>1. barrier' \in [expect : Blocks, mism : BOOLEAN] \cup {None}
    BY <1>0, <1>4, BarrierAfters DEF Reading
  <2>2. lease' \in Leases \cup {None} /\ proof' \in [id : 0..MaxArms, shown : BOOLEAN]
    BY <1>0, <1>4, LeaseAfters DEF Reading
  <2>. QED  BY <1>0, <1>a, <1>4, <2>1, <2>2 DEF Reading, EspIdle, EspTyped
<1>5. CASE LeaseTimer
  <2>0. lease # None /\ lease \in Leases
    BY <1>0, <1>5 DEF LeaseTimer
  <2>1. /\ UNCHANGED <<seen, lag, phys, booted, driven, restores>>
    BY <1>5 DEF LeaseTimer, EspIdle
  <2>2. CASE LeaseExpires /\ UNCHANGED <<bus, barrier>>
    <3>1. lease' \in Leases /\ proof' = proof
      BY <2>0, <2>2, LeaseFields DEF LeaseExpires
    <3>. QED  BY <1>0, <2>1, <2>2, <3>1 DEF EspTyped
  <2>3. CASE Queued(lease.fb) /\ UNCHANGED proof /\ lease' = [lease EXCEPT !.st = "restoring"]
    <3>1. lease.fb \in Blocks /\ lease' \in Leases
      BY <2>0, <2>3, LeaseFields DEF Blocks
    <3>2. /\ bus' \in Seq(Blocks \cup {Poll})
          /\ barrier' \in [expect : Blocks, mism : BOOLEAN] \cup {None}
      BY <2>3, <3>1, QueuedTyped
    <3>. QED  BY <1>0, <2>1, <2>3, <3>1, <3>2 DEF EspTyped
  <2>4. CASE LeaseEnds(seen = lease.fb) /\ UNCHANGED <<bus, barrier>>
    <3>1. lease.id \in 0..MaxArms
      BY <2>0, LeaseFields, ControllerBounds
    <3>2. lease' = None /\ proof' \in [id : 0..MaxArms, shown : BOOLEAN]
      BY <1>0, <2>4, <3>1 DEF LeaseEnds
    <3>. QED  BY <1>0, <2>1, <2>4, <3>2 DEF EspTyped
  <2>. QED  BY <1>5, <2>2, <2>3, <2>4 DEF LeaseTimer
<1>6. ASSUME NEW m \in net, EspArms(m) PROVE EspTyped'
  <2>1. m.b \in Forced /\ m.id \in 1..MaxArms
    BY <1>6 DEF EspArms, NetTyped
  <2>2. /\ bus' \in Seq(Blocks \cup {Poll})
        /\ barrier' \in [expect : Blocks, mism : BOOLEAN] \cup {None}
    BY <1>6, <2>1, QueuedTyped DEF EspArms, Blocks
  <2>3. lease' \in Leases
    <3>. DEFINE fb == IF lease = None THEN seen ELSE lease.fb
                pred == IF lease = None THEN None ELSE seen
    <3>1. lease' = [id |-> m.id, b |-> m.b, st |-> "armed", fb |-> fb, pred |-> pred]
      BY <1>6 DEF EspArms
    <3>2. fb \in SelfUse /\ pred \in Forced \cup {None}
      BY <1>0, <1>6, LeaseFields DEF EspArms, ArmAllowed
    <3>. HIDE DEF fb, pred
    <3>. QED  BY <2>1, <3>1, <3>2 DEF Leases
  <2>4. proof' \in [id : 0..MaxArms, shown : BOOLEAN]
    BY <1>6, ControllerBounds DEF EspArms, NoProof
  <2>5. UNCHANGED <<seen, lag, phys, booted, driven, restores>>
    BY <1>6 DEF EspArms
  <2>. QED  BY <1>0, <2>2, <2>3, <2>4, <2>5 DEF EspTyped
<1>7. ASSUME NEW m \in net, EspRestores(m) PROVE EspTyped'
  <2>1. m.b \in Blocks /\ m.id \in Nat
    BY <1>7 DEF NetTyped, Requests
  <2>2. /\ bus' \in Seq(Blocks \cup {Poll})
        /\ barrier' \in [expect : Blocks, mism : BOOLEAN] \cup {None}
    BY <1>7, <2>1, QueuedTyped DEF EspRestores
  <2>3. restores' \in Nat
    BY <1>0, <1>7, <2>1 DEF EspRestores
  <2>4. UNCHANGED <<seen, lag, phys, lease, proof, booted, driven>>
    BY <1>7 DEF EspRestores
  <2>. QED  BY <1>0, <2>2, <2>3, <2>4 DEF EspTyped
<1>8. ASSUME NEW m \in net, EspRefuses(m) \/ RequestLost(m) PROVE EspTyped'
  BY <1>0, <1>8 DEF EspRefuses, RequestLost, espVars, espOwn, EspTyped
<1>. QED  BY <1>1, <1>2, <1>3, <1>4, <1>5, <1>6, <1>7, <1>8 DEF Firmware

LEMMA NextEsp ==
    ASSUME EspTyped, NetTyped, Next PROVE EspTyped'
<1>0. /\ seen \in Blocks \cup {None} /\ lag \in BOOLEAN /\ phys \in Blocks
      /\ bus \in Seq(Blocks \cup {Poll}) /\ restores \in Nat
      /\ lease \in Leases \cup {None} /\ proof \in [id : 0..MaxArms, shown : BOOLEAN]
      /\ barrier \in [expect : Blocks, mism : BOOLEAN] \cup {None}
      /\ booted \in BOOLEAN /\ driven \in BOOLEAN
  BY DEF EspTyped
<1>1. CASE Firmware
  BY <1>1, FirmwareTyped
<1>2. CASE Reconcile /\ ~Start
  <2>1. UNCHANGED espVars
    BY <1>2 DEF Reconcile, Select, PrepareStart, Unblock, Deadline, Observe, Verify, Sustain,
       Retarget, Stopping, PrepareRestore, DenyRestore, Settle, ObserveRestored, Rearm, Quiet
  <2>. QED  BY <1>0, <2>1 DEF espVars, espOwn, EspTyped
<1>3. CASE Start
  <2>1. UNCHANGED espOwn /\ restores' = 0
    BY <1>3 DEF Start
  <2>. QED  BY <1>0, <2>1 DEF espOwn, EspTyped
<1>4. CASE Dispatching
  <2>1. UNCHANGED espVars
    BY <1>4 DEF Dispatching, SendArm, SendRestore, Send, StartRejected, RestoreRejected,
       RetargetRejected, StartAnswered, RetargetAnswered, RestoreAnswered, DispatchTimesOut,
       StartAgain, RetargetAgain, Quiet, Taken
  <2>. QED  BY <1>0, <2>1 DEF espVars, espOwn, EspTyped
<1>5. CASE RequestMasterStop \/ RetryPersistence \/ Restart
  <2>1. UNCHANGED espVars
    BY <1>5 DEF RequestMasterStop, RetryPersistence, Restart, Quiet
  <2>. QED  BY <1>0, <2>1 DEF espVars, espOwn, EspTyped
<1>6. CASE OutsideChange
  BY <1>0, <1>6 DEF OutsideChange, EspIdle, EspTyped
<1>7. CASE EspRestart
  <2>1. lease' \in Leases \cup {None}
    BY <1>0, <1>7, LeaseFields DEF EspRestart
  <2>2. bus' \in Seq(Blocks \cup {Poll})
    BY <1>7 DEF EspRestart
  <2>. QED  BY <1>0, <1>7, <2>1, <2>2 DEF EspRestart, EspIdle, EspTyped
<1>8. CASE \E lost \in BOOLEAN : ReadingReceived(lost)
  <2>1. PICK lost \in BOOLEAN : ReadingReceived(lost)
    BY <1>8
  <2>2. proof' \in [id : 0..MaxArms, shown : BOOLEAN]
    BY <1>0, <2>1 DEF ReadingReceived
  <2>3. lag' = FALSE /\ booted' \in BOOLEAN
    BY <1>0, <2>1 DEF ReadingReceived
  <2>4. UNCHANGED <<seen, bus, phys, barrier, lease, driven, restores>>
    BY <2>1 DEF ReadingReceived
  <2>. QED  BY <1>0, <2>2, <2>3, <2>4 DEF EspTyped
<1>. QED  BY <1>1, <1>2, <1>3, <1>4, <1>5, <1>6, <1>7, <1>8 DEF Next

LEMMA NextHa ==
    ASSUME HaTyped, EspTyped, Next PROVE HaTyped'
<1>1. CASE Reconcile
  BY <1>1, ChoosingTyped, ExecutingTyped, RetargetTyped, StoppingTyped DEF Reconcile
<1>2. CASE Dispatching
  BY <1>2, SendsTyped, RejectedTyped, AnsweredTyped, AgainTyped DEF Dispatching
<1>3. CASE Firmware \/ OutsideChange \/ EspRestart
  BY <1>3, FirmwareHa
<1>4. CASE RequestMasterStop \/ RetryPersistence \/ Restart
  BY <1>4, MasterTyped
<1>5. CASE \E lost \in BOOLEAN : ReadingReceived(lost)
  BY <1>5, ReadingTyped DEF EspTyped
<1>. QED  BY <1>1, <1>2, <1>3, <1>4, <1>5 DEF Next

LEMMA IdleShape == Shape(IdleRecord) /\ ~Owned(IdleRecord)
<1>1. IdleRecord \in Records /\ IdleRecord.tx = None /\ IdleRecord.st = "idle"
  BY DEF IdleRecord, Records, States
<1>. QED  BY <1>1 DEF Shape, Owned

LEMMA InitTyped == Init => Typed
<1>. SUFFICES ASSUME Init PROVE Typed
  OBVIOUS
<1>1. Stands(rec, ha, arms) /\ Shape(saved)
  <2>1. IdleRecord.st = "idle"
    BY DEF IdleRecord
  <2>. QED  BY <2>1, IdleShape, FreeStands DEF Init
<1>2. HaTyped
  <2>1. arms \in 0..MaxArms /\ stops \in 0..MaxStops /\ mishaps \in 0..MaxMishaps
    BY ControllerBounds DEF Init
  <2>2. /\ unsaved \in BOOLEAN /\ preserved \in BOOLEAN /\ view \in Blocks \cup {None}
        /\ reply \in {"none", "ok", "stale", "pending", "bad"}
    BY DEF Init
  <2>. QED  BY <1>1, <2>1, <2>2 DEF HaTyped, Counters
<1>3. NetTyped
  BY FS_EmptySet DEF Init, NetTyped
<1>4. EspTyped
  <2>1. NoProof \in [id : 0..MaxArms, shown : BOOLEAN]
    BY ControllerBounds DEF NoProof
  <2>2. /\ seen = None /\ lag = FALSE /\ bus = <<>> /\ phys \in Blocks /\ barrier = None
        /\ lease = None /\ proof = NoProof /\ booted = FALSE /\ driven = FALSE /\ restores = 0
    BY DEF Init
  <2>3. <<>> \in Seq(Blocks \cup {Poll})
    OBVIOUS
  <2>4. restores \in Nat
    BY <2>2
  <2>. QED  BY <2>1, <2>2, <2>3, <2>4, Zenon DEF EspTyped
<1>. QED  BY <1>2, <1>3, <1>4 DEF Typed

LEMMA TypedStep == Typed /\ [Next]_vars => Typed'
<1>. SUFFICES ASSUME Typed, [Next]_vars PROVE Typed'
  OBVIOUS
<1>0. HaTyped /\ NetTyped /\ EspTyped
  BY DEF Typed
<1>1. CASE Next
  BY <1>0, <1>1, NextHa, NextNet, NextEsp DEF Typed
<1>2. CASE UNCHANGED vars
  <2>1. UNCHANGED <<rec, saved, unsaved, view, ha, reply, arms, stops, preserved, net, mishaps>>
        /\ UNCHANGED <<seen, lag, bus, phys, barrier, lease, proof, booted, driven, restores>>
    BY <1>2 DEF vars, haVars, espVars, espOwn
  <2>2. Stands(rec', ha', arms')
    BY <1>0, <2>1, HoldsAre
  <2>3. HaTyped'
    BY <1>0, <2>1, <2>2 DEF HaTyped, Counters
  <2>4. NetTyped'
    BY <1>0, <2>1 DEF NetTyped
  <2>5. EspTyped'
    BY <1>0, <2>1 DEF EspTyped
  <2>. QED  BY <2>3, <2>4, <2>5 DEF Typed
<1>. QED  BY <1>1, <1>2

\* The types, with the limits of two restore attempts and two refusals for
\* the life of an owner: prepare_restore and mark_restore_not_queued test the
\* counters they raise, whatever the order of stops, restarts and readings.
THEOREM TypesHold == Spec => []TypeOK
<1>1. Typed => TypeOK
  BY HoldsAre, Positions DEF Typed, HaTyped, NetTyped, EspTyped, Counters, TypeOK, Shape, HaRecords
<1>. QED  BY <1>1, InitTyped, TypedStep, PTL DEF Spec

-----------------------------------------------------------------------------
(* Answers: one request is awaited at a time.                              *)

LEMMA CarriesAwaits ==
    ASSUME Awaits, NetTyped, Carries,
           \/ ha'.at = ha.at /\ ha'.step = ha.step /\ reply' = reply
           \/ reply' = "none" /\ \A m \in net' : ~m.awaited
    PROVE  Awaits'
<1>1. PICK f \in [net -> Requests] :
       /\ \A m \in net : /\ f[m].kind = m.kind /\ f[m].id = m.id /\ f[m].b = m.b
                         /\ f[m].awaited => m.awaited
       /\ net' \subseteq {f[m] : m \in net}
  BY DEF Carries
<1>2. \A m \in net' : m.kind = "restore" => m.id \in {0, 1}
  BY <1>1 DEF Awaits
<1>3. \A m, n \in net' : m.awaited /\ n.awaited => m = n
  BY <1>1 DEF Awaits
<1>4. CASE ha'.at = ha.at /\ ha'.step = ha.step /\ reply' = reply
  <2>1. ASSUME NEW m \in net', m.awaited
        PROVE  /\ ha'.step = "await" /\ reply' = "none"
               /\ m.kind = "restore" <=> ha'.at = "restore"
               /\ m.kind = "restore" => m.id = 1
    <3>1. PICK n \in net : m = f[n]
      BY <1>1, <2>1
    <3>2. n.awaited /\ m.kind = n.kind /\ m.id = n.id
      BY <1>1, <2>1, <3>1
    <3>. QED  BY <1>4, <3>2 DEF Awaits
  <2>2. ha'.step # "await" => reply' = "none"
    BY <1>4 DEF Awaits
  <2>. QED  BY <1>2, <1>3, <2>1, <2>2 DEF Awaits
<1>5. CASE reply' = "none" /\ \A m \in net' : ~m.awaited
  BY <1>2, <1>3, <1>5 DEF Awaits
<1>. QED  BY <1>4, <1>5

\* A step of the coroutine that awaits nothing.
LEMMA SilentAwaits ==
    ASSUME Awaits, NetTyped, ha.step # "await", UNCHANGED <<net, reply>>
    PROVE  Awaits'
<1>1. reply' = "none" /\ \A m \in net' : ~m.awaited
  BY DEF Awaits
<1>. QED  BY <1>1, Carried, CarriesAwaits

LEMMA SendAwaits ==
    ASSUME Awaits, HaTyped, NetTyped, SendArm \/ SendRestore
    PROVE  Awaits'
<1>0. /\ ha.step = "ready" /\ reply = "none" /\ \A m \in net : ~m.awaited
      /\ ha \in HaRecords
  BY Positions DEF SendArm, SendRestore, At, Awaits
<1>1. PICK m : /\ net' = net \cup {m} /\ ha' = [ha EXCEPT !.step = "await"] /\ reply' = reply
               /\ m.awaited /\ (m.kind = "restore" <=> ha.at = "restore")
               /\ m.kind = "restore" => m.id = 1
  <2>1. CASE SendArm
    <3>. DEFINE m == Request("arm", arms + 1, rec.tx.b)
    <3>1. /\ net' = net \cup {m} /\ ha' = [ha EXCEPT !.step = "await"] /\ reply' = reply
          /\ ha.at # "restore"
      BY <2>1 DEF SendArm, Send
    <3>2. m.awaited /\ m.kind = "arm"
      BY DEF Request
    <3>. HIDE DEF m
    <3>. QED  BY <3>1, <3>2
  <2>2. CASE SendRestore
    <3>. DEFINE m == Request("restore", 1, Target(rec.tx))
    <3>1. /\ net' = net \cup {m} /\ ha' = [ha EXCEPT !.step = "await"] /\ reply' = reply
          /\ ha.at = "restore"
      BY <2>2 DEF SendRestore, Send, At
    <3>2. m.awaited /\ m.kind = "restore" /\ m.id = 1
      BY DEF Request
    <3>. HIDE DEF m
    <3>. QED  BY <3>1, <3>2
  <2>. QED  BY <2>1, <2>2
<1>2. ha'.step = "await" /\ ha'.at = ha.at
  BY <1>0, <1>1 DEF HaRecords
<1>. QED  BY <1>0, <1>1, <1>2 DEF Awaits

LEMMA AnswerAwaits ==
    ASSUME Awaits, NetTyped, NEW m \in net, UNCHANGED ha,
           NEW r \in {"ok", "stale", "pending", "bad"}, Answer(m, r)
    PROVE  Awaits'
<1>1. net' = net \ {m}
  BY DEF Answer
<1>2. CASE m.awaited
  <2>1. ha.step = "await" /\ \A n \in net' : ~n.awaited
    BY <1>1, <1>2 DEF Awaits
  <2>. QED  BY <1>1, <2>1 DEF Awaits
<1>3. CASE ~m.awaited
  BY <1>1, <1>3, Carried, CarriesAwaits DEF Answer
<1>. QED  BY <1>2, <1>3

LEMMA AwaitsStep == Typed /\ Awaits /\ [Next]_vars => Awaits'
<1>. SUFFICES ASSUME Typed, Awaits, [Next]_vars PROVE Awaits'
  OBVIOUS
<1>0. HaTyped /\ NetTyped /\ EspTyped
  BY DEF Typed
<1>1. CASE (Reconcile /\ ~Start) \/ RequestMasterStop \/ RetryPersistence
  <2>1. UNCHANGED <<net, reply>>
    BY <1>1 DEF Reconcile, Select, PrepareStart, Unblock, Deadline, Observe, Verify, Sustain,
       Retarget, Stopping, PrepareRestore, DenyRestore, Settle, ObserveRestored, Rearm, Quiet,
       RequestMasterStop, RetryPersistence
  <2>2. ha \in {Free, Loop}
    BY <1>1 DEF Reconcile, Select, PrepareStart, Unblock, Deadline, Observe, Verify, Sustain,
       Retarget, Stopping, PrepareRestore, DenyRestore, Settle, ObserveRestored, Rearm,
       Restorable, CanReconcile, CanGoOn, RequestMasterStop, RetryPersistence
  <2>3. ha.step # "await"
    BY <2>2 DEF Free, Loop
  <2>. QED  BY <1>0, <2>1, <2>3, SilentAwaits
<1>2. CASE Start
  <2>1. ha.step # "await" /\ reply' = reply /\ net' = {OfAnOlderOwner(m) : m \in net}
    BY <1>2 DEF Start, CanGoOn, Free, Loop
  <2>2. reply' = "none" /\ \A m \in net : ~m.awaited
    BY <2>1 DEF Awaits
  <2>3. \A m \in net : OfAnOlderOwner(m).awaited = m.awaited
    BY <1>0 DEF OfAnOlderOwner, NetTyped, Requests
  <2>4. \A m \in net : OfAnOlderOwner(m).kind = "restore" => OfAnOlderOwner(m).id = 0
    BY <1>0 DEF OfAnOlderOwner, NetTyped, Requests
  <2>. QED  BY <2>1, <2>2, <2>3, <2>4 DEF Awaits
<1>3. CASE SendArm \/ SendRestore
  BY <1>0, <1>3, SendAwaits
<1>4. CASE StartRejected \/ RestoreRejected \/ RetargetRejected \/ StartAgain \/ RetargetAgain
  BY <1>0, <1>4, SilentAwaits DEF StartRejected, RestoreRejected, RetargetRejected, StartAgain,
     RetargetAgain, At, Quiet
<1>5. CASE StartAnswered \/ RetargetAnswered \/ RestoreAnswered
  <2>1. reply # "none" /\ reply' = "none" /\ UNCHANGED net
    BY <1>5 DEF StartAnswered, RetargetAnswered, RestoreAnswered, Taken
  <2>2. \A m \in net' : ~m.awaited
    BY <2>1 DEF Awaits
  <2>. QED  BY <1>0, <2>1, <2>2, Carried, CarriesAwaits
<1>6. CASE DispatchTimesOut \/ Restart
  <2>1. reply' = "none" /\ Unawaited
    BY <1>6 DEF DispatchTimesOut, Restart
  <2>2. ASSUME NEW m \in net' PROVE ~m.awaited
    <3>1. PICK n \in net : m = [n EXCEPT !.awaited = FALSE]
      BY <2>1 DEF Unawaited, Matters
    <3>. QED  BY <1>0, <3>1, RequestFields DEF NetTyped
  <2>. QED  BY <1>0, <2>1, <2>2, Carried, CarriesAwaits
<1>7. CASE OutsideChange \/ EspRestart
  <2>1. UNCHANGED <<ha, reply>> /\ Carries
    BY <1>0, <1>7, Carried DEF OutsideChange, EspRestart, EspIdle, HaIdle
  <2>. QED  BY <1>0, <2>1, CarriesAwaits
<1>8. CASE \E lost \in BOOLEAN : ReadingReceived(lost)
  <2>1. PICK lost \in BOOLEAN : ReadingReceived(lost)
    BY <1>8
  <2>2. UNCHANGED <<net, reply>> /\ ha'.at = ha.at /\ ha'.step = ha.step
    BY <1>0, <2>1, Positions DEF ReadingReceived, HaRecords
  <2>. QED  BY <1>0, <2>2, Carried, CarriesAwaits
<1>9. CASE Firmware
  <2>1. CASE PollDue \/ WriteApplied \/ WriteLost \/ LeaseTimer
    <3>1. UNCHANGED <<net, ha, reply>>
      BY <2>1 DEF PollDue, WriteApplied, WriteLost, LeaseTimer, EspIdle, HaIdle
    <3>. QED  BY <1>0, <3>1, Carried, CarriesAwaits
  <2>2. CASE Reading
    <3>1. UNCHANGED <<ha, reply>> /\ net' = Matters({[m EXCEPT !.cur = FALSE] : m \in net})
      BY <2>2 DEF Reading, EspIdle, HaIdle
    <3>. QED  BY <1>0, <3>1, Carried, CarriesAwaits
  <2>3. ASSUME NEW m \in net, EspArms(m) \/ EspRestores(m) \/ EspRefuses(m)
        PROVE  Awaits'
    <3>1. UNCHANGED ha /\ \E r \in {"ok", "stale", "pending", "bad"} : Answer(m, r)
      BY <2>3 DEF EspArms, EspRestores, EspRefuses, HaIdle
    <3>. QED  BY <1>0, <3>1, AnswerAwaits
  <2>4. ASSUME NEW m \in net, RequestLost(m) PROVE Awaits'
    <3>1. UNCHANGED <<ha, reply>> /\ Carries
      BY <1>0, <2>4, Carried DEF RequestLost, HaIdle
    <3>. QED  BY <1>0, <3>1, CarriesAwaits
  <2>. QED  BY <1>9, <2>1, <2>2, <2>3, <2>4 DEF Firmware
<1>10. CASE UNCHANGED vars
  <2>1. UNCHANGED <<net, ha, reply>>
    BY <1>10 DEF vars, haVars
  <2>. QED  BY <2>1 DEF Awaits
<1>. QED  BY <1>1, <1>2, <1>3, <1>4, <1>5, <1>6, <1>7, <1>8, <1>9, <1>10
          DEF Next, Reconcile, Dispatching

-----------------------------------------------------------------------------
(* Restores: what the Store knows is what an owner can still be charged.   *)

LEMMA LeftIs ==
    ASSUME NEW r, Shape(r), Owned(r)
    PROVE  /\ r.tx.att \in Nat /\ r.tx.att <= 2
           /\ LeftOf(r.tx) \in Nat /\ LeftOf(r.tx) <= r.tx.att
           /\ PreparedUnsent(r.tx) => LeftOf(r.tx) = r.tx.att - 1
<1>1. r.tx.att \in 0..2 /\ (PreparedUnsent(r.tx) => r.tx.att >= 1)
  BY StopOf, Fields DEF WellFormed
<1>. QED  BY <1>1 DEF LeftOf

Sized ==
    /\ Spent \in Nat /\ Cardinality(Own) \in Nat /\ restores \in Nat
    /\ stops \in Nat /\ mishaps \in Nat /\ Shape(rec) /\ Shape(saved)
    /\ Owned(rec) => Allowed \in Nat /\ Allowed <= rec.tx.att /\ LeftOf(rec.tx) <= Allowed
LEMMA Sizes == Typed => Sized
<1>. SUFFICES ASSUME Typed PROVE Sized
  OBVIOUS
<1>1. Shape(rec) /\ Shape(saved) /\ stops \in Nat /\ mishaps \in Nat
  BY HoldsAre DEF Typed, HaTyped, Counters
<1>2. Cardinality(Own) \in Nat /\ restores \in Nat
  BY OwnFinite DEF Typed, EspTyped
<1>3. Spent \in Nat
  BY <1>2 DEF Spent
<1>4. Owned(rec) => Allowed \in Nat /\ Allowed <= rec.tx.att /\ LeftOf(rec.tx) <= Allowed
  BY <1>1, LeftIs DEF Allowed
<1>. QED  BY <1>1, <1>2, <1>3, <1>4 DEF Sized
LEMMA SizesNext == Typed' => Sized'
BY Sizes, PTL

LEMMA SpentKept ==
    ASSUME Typed, Typed', Carries, restores' = restores
    PROVE  Spent' <= Spent
<1>1. Cardinality(Own') <= Cardinality(Own)
  BY CarriesOwn DEF Typed
<1>2. Sized /\ Sized'
  BY Sizes, SizesNext
<1>. QED  BY <1>1, <1>2 DEF Spent, Sized

\* A step that saves a record with an attempt for every restore.
LEMMA SavesBudget ==
    ASSUME Typed, Typed', Budget, NEW r, Shape(r), NEW next, next.step # "await",
           Saves(r, next), Spent' <= Spent, stops' >= stops,
           \A k \in Nat : Paid(k) /\ Owned(r) => Spent' <= LeftOf(r.tx) + 2 * (stops' + k)
    PROVE  Budget'
<1>0. /\ Spent \in Nat /\ Spent' \in Nat /\ stops \in Nat /\ stops' \in Nat
      /\ mishaps \in Nat /\ mishaps' \in Nat /\ Shape(saved)
  BY Sizes, SizesNext DEF Sized
<1>1. PICK k \in Nat : /\ Paid(k)
                       /\ \/ 2 * k <= mishaps /\ Charged(k)
                          \/ 2 * k + 1 <= mishaps
  BY DEF Budget
<1>2. ~At("restore", "await")' /\ rec' = r
  BY DEF At, Saves, Free
<1>3. Allowed' = LeftOf(r.tx)
  BY <1>2 DEF Allowed
<1>4. Owned(rec)' => Owned(r)
  BY <1>2
<1>5. Paid(k)'
  <2>1. Owned(rec)' => Spent' <= Allowed' + 2 * (stops' + k)
    BY <1>1, <1>3, <1>4
  <2>2. Spent <= 2 + 2 * (stops + k)
    BY <1>1 DEF Paid
  <2>3. \A x, y, s, u, n \in Nat : x <= y /\ s >= u /\ y <= 2 + 2 * (u + n) => x <= 2 + 2 * (s + n)
    OBVIOUS
  <2>4. Spent' <= 2 + 2 * (stops' + k)
    BY <1>0, <1>1, <2>2, <2>3
  <2>. QED  BY <2>1, <2>4 DEF Paid
<1>6. ASSUME Charged(k), 2 * k <= mishaps, saved' = r, unsaved' = FALSE, mishaps' = mishaps
      PROVE  Budget'
  <2>1. Owned(r) => Spent' <= r.tx.att + 2 * (stops' + k)
    BY <1>0, <1>1, LeftIs
  <2>2. Charged(k)'
    BY <1>2, <1>6, <2>1 DEF Charged
  <2>. QED  BY <1>5, <1>6, <2>2 DEF Budget
<1>7. ASSUME Charged(k), 2 * k <= mishaps, saved' = saved, unsaved' = unsaved,
             mishaps' = mishaps, unsaved \/ ha' = Free
      PROVE  Budget'
  <2>1. ha' = Free /\ ~unsaved'
    BY <1>7 DEF Charged
  <2>2. Owned(saved) => Spent <= saved.tx.att + 2 * (stops + k)
    BY <1>7 DEF Charged
  <2>3. Owned(saved) => Spent' <= saved.tx.att + 2 * (stops' + k)
    BY <1>0, <2>2, LeftIs
  <2>4. Charged(k)'
    BY <1>7, <2>1, <2>3 DEF Charged, At, Free
  <2>. QED  BY <1>5, <1>7, <2>4 DEF Budget
<1>8. CASE 2 * k + 1 <= mishaps'
  BY <1>5, <1>8 DEF Budget
<1>9. CASE 2 * k + 1 <= mishaps
  <2>1. mishaps' >= mishaps
    BY <1>0 DEF Saves
  <2>. QED  BY <1>0, <1>8, <1>9, <2>1
<1>10. CASE mishaps' = mishaps + 1
  BY <1>0, <1>1, <1>8, <1>10
<1>. QED  BY <1>1, <1>6, <1>7, <1>9, <1>10 DEF Saves

\* A step that leaves the records alone.
LEMMA KeptBudget ==
    ASSUME Typed, Typed', Budget, UNCHANGED <<rec, saved, unsaved, stops>>,
           mishaps' >= mishaps, Spent' <= Spent,
           Owned(rec) => Spent' + Allowed <= Spent + Allowed',
           At("restore", "ready")' => At("restore", "ready") \/ saved = rec
    PROVE  Budget'
<1>0. /\ Spent \in Nat /\ Spent' \in Nat /\ stops \in Nat /\ stops' \in Nat
      /\ mishaps \in Nat /\ mishaps' \in Nat /\ Shape(saved)
      /\ Owned(rec) => Allowed \in Nat
      /\ Owned(rec)' => Allowed' \in Nat
  BY Sizes, SizesNext DEF Sized
<1>1. PICK k \in Nat : /\ Paid(k)
                       /\ \/ 2 * k <= mishaps /\ Charged(k)
                          \/ 2 * k + 1 <= mishaps
  BY DEF Budget
<1>2. Paid(k)'
  <2>1. Owned(rec)' <=> Owned(rec)
    OBVIOUS
  <2>2. ASSUME Owned(rec) PROVE Spent' <= Allowed' + 2 * (stops' + k)
    <3>1. Spent <= Allowed + 2 * (stops + k)
      BY <1>1, <2>2 DEF Paid
    <3>. QED  BY <1>0, <2>1, <2>2, <3>1
  <2>3. Spent' <= 2 + 2 * (stops' + k)
    BY <1>0, <1>1 DEF Paid
  <2>. QED  BY <2>1, <2>2, <2>3 DEF Paid
<1>3. ASSUME Charged(k), 2 * k <= mishaps PROVE Budget'
  <2>1. Owned(saved) => Spent' <= saved.tx.att + 2 * (stops' + k)
    <3>1. Owned(saved) => Spent <= saved.tx.att + 2 * (stops + k)
      BY <1>3 DEF Charged
    <3>. QED  BY <1>0, <3>1, LeftIs
  <2>2. At("restore", "ready")' => saved' = rec'
    BY <1>3 DEF Charged
  <2>3. Charged(k)'
    BY <1>3, <2>1, <2>2 DEF Charged
  <2>. QED  BY <1>0, <1>2, <1>3, <2>3 DEF Budget
<1>4. ASSUME 2 * k + 1 <= mishaps PROVE Budget'
  BY <1>0, <1>2, <1>4 DEF Budget
<1>. QED  BY <1>1, <1>3, <1>4

\* A step that saves a record which grants what was allowed, or has no owner.
LEMMA LastsBudget ==
    ASSUME Typed, Typed', Budget, NEW r, Shape(r), NEW next, next.step # "await",
           Saves(r, next), Owned(r) => Owned(rec) /\ LeftOf(r.tx) >= Allowed,
           Carries, UNCHANGED <<restores, stops>>
    PROVE  Budget'
<1>0. Sized /\ Sized'
  BY Sizes, SizesNext
<1>1. Spent' <= Spent
  BY SpentKept
<1>2. ASSUME NEW k \in Nat, Paid(k), Owned(r) PROVE Spent' <= LeftOf(r.tx) + 2 * (stops' + k)
  <2>1. Owned(rec) /\ LeftOf(r.tx) >= Allowed
    BY <1>2
  <2>2. Spent <= Allowed + 2 * (stops + k)
    BY <1>2, <2>1 DEF Paid
  <2>3. LeftOf(r.tx) \in Nat /\ Allowed \in Nat
    BY <1>0, <1>2, <2>1, LeftIs DEF Sized
  <2>. QED  BY <1>0, <1>1, <2>1, <2>2, <2>3 DEF Sized
<1>3. stops' >= stops
  BY <1>0 DEF Sized
<1>. QED  BY <1>0, <1>1, <1>2, <1>3, SavesBudget

\* ... as what follows does while no restore of ours awaits its answer.
LEMMA FollowsBudget ==
    ASSUME Typed, Typed', Budget, NEW r, NEW next, next.step # "await",
           Saves(r, next), Follows(rec, r), Owned(rec) => Allowed = LeftOf(rec.tx),
           Carries, UNCHANGED <<restores, stops>>
    PROVE  Budget'
<1>1. Shape(r) /\ (Owned(r) => Owned(rec) /\ LeftOf(r.tx) >= Allowed)
  BY DEF Follows, NoLess
<1>. QED  BY <1>1, LastsBudget

LEMMA ReadyNext ==
    /\ Free.step = "ready" /\ Loop.step = "ready" /\ Free.at = "free" /\ Loop.at = "loop"
    /\ \A at : Ready(at).step = "ready" /\ Ready(at).at = at
BY DEF Free, Loop, Ready

\* The steps of a reconciliation but a new owner's, and the two of a MASTER STOP.
LEMMA ReconcileFollows ==
    ASSUME HaTyped, \/ PrepareStart \/ Unblock \/ Deadline \/ Rearm \/ Observe \/ Verify \/ Sustain
                    \/ RetryPersistence \/ ObserveRestored
    PROVE  \E r, next : Saves(r, next) /\ Follows(rec, r) /\ next.step # "await"
<1>0. /\ Shape(rec) /\ rec \in Records /\ unsaved \in BOOLEAN
      /\ view # None => view \in Blocks
  BY HoldsAre
<1>1. ASSUME PrepareStart PROVE \E r, next : Saves(r, next) /\ Follows(rec, r) /\ next.step # "await"
  <2>1. PICK r \in PrepareCommand(rec, view) :
                Commit(r, IF r.st = "starting" THEN Ready("start") ELSE Free)
    BY <1>1 DEF PrepareStart
  <2>2. rec.st = "starting" /\ view \in Blocks
    BY <1>0, <1>1 DEF PrepareStart, CanGoOn
  <2>3. Follows(rec, r)
    BY <1>0, <2>1, <2>2, Prepares
  <2>4. \E next \in {Free, Ready("start")} : Saves(r, next)
    BY <1>0, <2>1, CommitSaves
  <2>. QED  BY <2>3, <2>4, ReadyNext
<1>2. ASSUME Unblock \/ Rearm \/ RetryPersistence
      PROVE \E r, next : Saves(r, next) /\ Follows(rec, r) /\ next.step # "await"
  <2>1. PICK r \in {Finished(rec), Rearmed(rec), rec} :
           Follows(rec, r) /\ (Commit(r, Free) \/ CommitStop(r, Free, TRUE))
    BY <1>0, <1>2, NotOwned, Rearms, StaysSelf DEF Unblock, Rearm, RetryPersistence
  <2>2. CASE Commit(r, Free)
    BY <1>0, <2>1, <2>2, CommitSaves, ReadyNext
  <2>3. CASE CommitStop(r, Free, TRUE)
    BY <1>0, <2>1, <2>3, SaveSaves, ReadyNext
  <2>. QED  BY <2>1, <2>2, <2>3
<1>3. ASSUME Deadline PROVE \E r, next : Saves(r, next) /\ Follows(rec, r) /\ next.step # "await"
  <2>1. rec.tx # None
    BY <1>3 DEF Deadline
  <2>. DEFINE r == CASE rec.st = "restoring" -> RollbackFailed(rec)
                [] rec.st \in {"starting", "waiting", "retargeting"} -> Fault(rec, rec.tx)
                [] OTHER -> StopRequested(rec)
  <2>2. Follows(rec, r)
    <3>1. CASE rec.st = "restoring"
      <4>1. Owned(rec)
        BY <2>1, <3>1, ShapeTx, <1>0 DEF WellFormed, Owned
      <4>. QED  BY <1>0, <3>1, <4>1, Fails
    <3>2. CASE rec.st \in {"starting", "waiting", "retargeting"}
      <4>1. Owned(rec)
        BY <1>0, <3>2, WorkingIs DEF Working
      <4>. QED  BY <1>0, <2>1, <3>2, <4>1, Faults
    <3>3. CASE rec.st \notin {"restoring", "starting", "waiting", "retargeting"}
      BY <1>0, <2>1, <3>3, Faults
    <3>. QED  BY <3>1, <3>2, <3>3
  <2>3. Saves(r, Free)
    BY <1>0, <1>3, CommitSaves DEF Deadline
  <2>. HIDE DEF r
  <2>. QED  BY <2>2, <2>3, ReadyNext
<1>4. ASSUME Observe \/ Verify \/ Sustain
      PROVE  \E r, next : Saves(r, next) /\ Follows(rec, r) /\ next.step # "await"
  <2>1. rec.st \in Working /\ view \in Blocks
    BY <1>0, <1>4 DEF Observe, Verify, Sustain, CanReconcile, Working
  <2>2. PICK r \in ObserveReadback(rec, view) \cup ObservePhysical(rec) \cup Continue(rec, view)
                   \cup {StopRequested(rec), OutcomeUnknown(rec)} : Commit(r, Free)
    BY <1>4 DEF Observe, Verify, Sustain
  <2>3. Follows(rec, r)
    BY <1>0, <2>1, <2>2, Observes
  <2>4. Saves(r, Free)
    BY <1>0, <2>2, CommitSaves
  <2>. QED  BY <2>3, <2>4, ReadyNext
<1>5. ASSUME ObserveRestored
      PROVE  \E r, next : Saves(r, next) /\ Follows(rec, r) /\ next.step # "await"
  <2>1. rec.st = "restoring" /\ view \in Blocks /\ Save(ObserveRestore(rec, view), Free, TRUE)
    BY <1>0, <1>5 DEF ObserveRestored, CanReconcile
  <2>2. Follows(rec, ObserveRestore(rec, view))
    BY <1>0, <2>1, Readback
  <2>3. Saves(ObserveRestore(rec, view), Free)
    BY <1>0, <2>1, SaveSaves
  <2>. QED  BY <2>2, <2>3, ReadyNext
<1>. QED  BY <1>1, <1>2, <1>3, <1>4, <1>5

LEMMA ReconcileBudget ==
    ASSUME Typed, Typed', Budget,
           \/ PrepareStart \/ Unblock \/ Deadline \/ Rearm \/ Observe \/ Verify \/ Sustain
           \/ RetryPersistence \/ ObserveRestored
    PROVE  Budget'
<1>1. HaTyped /\ NetTyped
  BY DEF Typed
<1>2. UNCHANGED <<net, restores, stops>> /\ ha \in {Free, Loop}
  BY DEF PrepareStart, Unblock, Deadline, Rearm, Observe, Verify, Sustain, RetryPersistence,
     ObserveRestored, Quiet, espVars, CanReconcile, CanGoOn
<1>3. Carries
  BY <1>1, <1>2, Carried
<1>4. Allowed = LeftOf(rec.tx)
  BY <1>2, ReadyNext DEF Allowed, At
<1>5. PICK r, next : Saves(r, next) /\ Follows(rec, r) /\ next.step # "await"
  BY <1>1, ReconcileFollows
<1>. QED  BY <1>2, <1>3, <1>4, <1>5, FollowsBudget

LEMMA ThenFollows ==
    ASSUME NEW r, Shape(r), NEW q, NEW s, Follows(r, q), Follows(q, s)
    PROVE  Follows(r, s)
<1>1. /\ Owned(r) => LeftOf(r.tx) \in Int
      /\ Owned(s) => LeftOf(s.tx) \in Int
  BY LeftIs DEF Follows
<1>. QED  BY <1>1, FollowsTwice

LEMMA RetargetFollows ==
    ASSUME HaTyped, NEW r, Follows(rec, r), NEW p \in Transactions, WellFormed("executing", p),
           NEW next, next.step # "await", CommitRetarget(r, p, next)
    PROVE  \E q, n : Saves(q, n) /\ Follows(rec, q) /\ n.step # "await"
<1>0. unsaved \in BOOLEAN /\ Shape(rec) /\ Shape(r)
  BY HoldsAre DEF Follows
<1>1. CASE r.st # "retargeting"
  <2>1. Saves(r, Free)
    BY <1>0, <1>1, CommitSaves DEF CommitRetarget
  <2>. QED  BY <2>1, ReadyNext
<1>2. CASE rec' = r /\ saved' = r /\ unsaved' = FALSE /\ ha' = next /\ UNCHANGED mishaps
  <2>1. Saves(r, next)
    BY <1>2 DEF Saves
  <2>. QED  BY <2>1
<1>3. CASE r.st = "retargeting" /\ \E q \in CancelRetarget(r, p, view) :
               /\ Mishap("store") /\ rec' = q /\ saved' \in {saved, q} /\ ha' = Free
               /\ UNCHANGED unsaved
  <2>1. PICK q \in CancelRetarget(r, p, view) :
               /\ Mishap("store") /\ rec' = q /\ saved' \in {saved, q} /\ ha' = Free
               /\ UNCHANGED unsaved
    BY <1>3
  <2>2. Follows(r, q)
    BY <1>0, <1>3, <2>1, Cancels DEF Working
  <2>3. Follows(rec, q)
    BY <1>0, <2>2, ThenFollows
  <2>4. Saves(q, Free)
    BY <1>0, <2>1 DEF Saves, Mishap
  <2>. QED  BY <2>3, <2>4, ReadyNext
<1>. QED  BY <1>1, <1>2, <1>3 DEF CommitRetarget

\* The ends of a start and of a retarget.
Ends ==
    {Blocked(rec), Deferred(rec), OutcomeUnknown(rec)} \cup MarkSent(rec, arms)
        \cup IF ha.at = "retarget" THEN CancelRetarget(rec, ha.pred, view) ELSE {}
LEMMA EndFollows ==
    ASSUME HaTyped, ha.at \in {"start", "retarget"}, NEW r \in Ends
    PROVE  Follows(rec, r)
<1>0. /\ Shape(rec) /\ rec.st \in {"starting", "retargeting"} /\ rec.tx # None /\ Owned(rec)
      /\ rec.tx \in Transactions /\ arms \in Nat
  BY HoldsAre, Positions, WorkingIs DEF Working
<1>1. CASE r = Blocked(rec) \/ r = OutcomeUnknown(rec)
  BY <1>0, <1>1, NotOwned, Faults DEF OutcomeUnknown
<1>2. CASE r \in MarkSent(rec, arms)
  BY <1>0, <1>2, Sends
<1>3. CASE r = Deferred(rec)
  <2>. DEFINE t == [rec.tx EXCEPT !.pre = None]
  <2>1. t \in Transactions
    BY <1>0 DEF Transactions
  <2>2. Alike(rec.tx, t) /\ t.refused = rec.tx.refused /\ t.master = rec.tx.master
    BY <1>0 DEF Transactions, Alike
  <2>3. r = [rec EXCEPT !.tx = t]
    BY <1>3 DEF Deferred
  <2>. HIDE DEF t
  <2>. QED  BY <1>0, <2>1, <2>2, <2>3, SameTx
<1>4. CASE ha.at = "retarget" /\ r \in CancelRetarget(rec, ha.pred, view)
  <2>1. rec.st \in Working /\ ha.pred \in Transactions /\ WellFormed("executing", ha.pred)
    BY <1>4, Positions DEF Working
  <2>. QED  BY <1>0, <1>4, <2>1, Cancels
<1>. QED  BY <1>1, <1>2, <1>3, <1>4 DEF Ends

LEMMA DispatchEnds ==
    ASSUME HaTyped, ha.at \in {"start", "retarget"},
           \/ StartRejected \/ RetargetRejected \/ DispatchTimesOut
           \/ (StartAnswered \/ RetargetAnswered) /\ ~(reply = "stale" /\ ha.try = 1)
    PROVE  \E r \in Ends : Commit(r, Free) \/ Save(r, Free, TRUE)
<1>1. CASE StartRejected
  BY <1>1 DEF StartRejected, Ends
<1>2. CASE RetargetRejected
  BY <1>2 DEF RetargetRejected, At, Ends
<1>3. CASE StartAnswered /\ ~(reply = "stale" /\ ha.try = 1)
  <2>1. \E r \in {Blocked(rec), OutcomeUnknown(rec)} \cup MarkSent(rec, arms) :
             Commit(r, Free)
    BY <1>3 DEF StartAnswered
  <2>. QED  BY <2>1 DEF Ends
<1>4. CASE RetargetAnswered /\ ~(reply = "stale" /\ ha.try = 1)
  <2>1. ha.at = "retarget"
    BY <1>4 DEF RetargetAnswered, At
  <2>2. \E r \in {OutcomeUnknown(rec)} \cup MarkSent(rec, arms)
                   \cup CancelRetarget(rec, ha.pred, view) : Commit(r, Free)
    BY <1>4 DEF RetargetAnswered
  <2>. QED  BY <2>1, <2>2 DEF Ends
<1>5. CASE DispatchTimesOut
  BY <1>5 DEF DispatchTimesOut, GivenUp, Ends
<1>. QED  BY <1>1, <1>2, <1>3, <1>4, <1>5

LEMMA DispatchFollows ==
    ASSUME HaTyped, ha.at \in {"start", "retarget"},
           \/ StartRejected \/ RetargetRejected \/ DispatchTimesOut
           \/ (StartAnswered \/ RetargetAnswered) /\ ~(reply = "stale" /\ ha.try = 1)
    PROVE  \E r, next : Saves(r, next) /\ Follows(rec, r) /\ next.step # "await"
<1>1. PICK r \in Ends : Commit(r, Free) \/ Save(r, Free, TRUE)
  BY DispatchEnds
<1>2. Follows(rec, r) /\ unsaved \in BOOLEAN
  BY HoldsAre, EndFollows
<1>4. CASE Commit(r, Free)
  BY <1>2, <1>4, CommitSaves, ReadyNext
<1>5. CASE Save(r, Free, TRUE)
  BY <1>2, <1>5, SaveSaves, ReadyNext
<1>. QED  BY <1>1, <1>4, <1>5

\* Once more on a newer reading, and a retarget of the block that executes.
LEMMA AgainFollows ==
    ASSUME HaTyped, StartAgain \/ RetargetAgain \/ Retarget
    PROVE  \E r, next : Saves(r, next) /\ Follows(rec, r) /\ next.step # "await"
<1>0. /\ Shape(rec) /\ rec \in Records /\ unsaved \in BOOLEAN
      /\ ha \in HaRecords /\ (view # None => view \in Blocks)
  BY HoldsAre, Positions
<1>. DEFINE again == [ha EXCEPT !.step = "ready", !.try = 2]
<1>a. again.step # "await"
  BY <1>0 DEF HaRecords
<1>1. CASE StartAgain
  <2>1. rec.st = "starting" /\ rec.tx # None /\ rec.tx \in Transactions
    <3>1. rec.st = "starting"
      BY <1>1, Positions DEF StartAgain, At
    <3>. QED  BY <1>0, <3>1, WorkingIs DEF Working
  <2>2. PICK r \in IF arms < MaxArms THEN Reprepare(rec, view) ELSE {Blocked(rec)} :
          IF r.st # "starting" THEN Commit(r, Free)
          ELSE \/ /\ rec' = r /\ saved' = r /\ unsaved' = FALSE /\ UNCHANGED mishaps
                  /\ ha' = again
               \/ /\ Mishap("store") /\ rec' = Blocked(rec) /\ UNCHANGED unsaved
                  /\ saved' \in {saved, Blocked(rec)} /\ ha' = Free
    BY <1>1 DEF StartAgain
  <2>3. Follows(rec, Blocked(rec))
    BY <1>0, <2>1, NotOwned
  <2>4. Follows(rec, r)
    <3>1. r = Blocked(rec) \/ (view = rec.tx.base /\ r \in Reprepare(rec, view))
      BY <2>2 DEF Reprepare
    <3>2. rec.tx.base \in Blocks
      BY <2>1, Fields
    <3>. QED  BY <1>0, <2>1, <2>3, <3>1, <3>2, Prepares
  <2>5. CASE Commit(r, Free)
    <3>1. Saves(r, Free)
      BY <1>0, <2>5, CommitSaves
    <3>. QED  BY <2>4, <3>1, ReadyNext
  <2>6. CASE rec' = r /\ saved' = r /\ unsaved' = FALSE /\ UNCHANGED mishaps /\ ha' = again
    <3>1. Saves(r, again)
      BY <2>6 DEF Saves
    <3>. QED  BY <1>a, <2>4, <3>1
  <2>7. CASE /\ Mishap("store") /\ rec' = Blocked(rec) /\ UNCHANGED unsaved
             /\ saved' \in {saved, Blocked(rec)} /\ ha' = Free
    <3>1. Saves(Blocked(rec), Free)
      BY <1>0, <2>7 DEF Saves, Mishap
    <3>. QED  BY <2>3, <3>1, ReadyNext
  <2>. QED  BY <2>2, <2>5, <2>6, <2>7
<1>2. CASE RetargetAgain
  <2>1. /\ ha.at = "retarget" /\ rec.st = "retargeting" /\ rec.st \in Working
        /\ ha.pred \in Transactions /\ WellFormed("executing", ha.pred)
    BY <1>2, Positions DEF RetargetAgain, At, Working
  <2>2. CASE \E r \in CancelRetarget(rec, ha.pred, view) : Commit(r, Free)
    <3>1. PICK r \in CancelRetarget(rec, ha.pred, view) : Commit(r, Free)
      BY <2>2
    <3>2. Follows(rec, r)
      BY <1>0, <2>1, <3>1, Cancels
    <3>3. Saves(r, Free)
      BY <1>0, <3>1, CommitSaves
    <3>. QED  BY <3>2, <3>3, ReadyNext
  <2>3. CASE \E r \in Successors : CommitRetarget(r, ha.pred, again)
    <3>1. PICK r \in Successors : CommitRetarget(r, ha.pred, again)
      BY <2>3
    <3>2. PICK q \in CancelRetarget(rec, ha.pred, view), b \in Forced :
             r \in IF q.st = "executing" THEN PrepareRetarget(q, view, b) ELSE {q}
      BY <3>1 DEF Successors
    <3>3. Follows(rec, q) /\ Shape(q) /\ (q.st = "executing" \/ q = StopRequested(rec))
      BY <1>0, <2>1, <3>2, Cancels DEF Follows
    <3>4. Follows(rec, r)
      <4>1. CASE q.st # "executing"
        BY <3>2, <3>3, <4>1
      <4>2. CASE q.st = "executing"
        <5>1. StopRequested(rec).st # "executing"
          BY <1>0, EndStates
        <5>2. view = ha.pred.b
          BY <3>2, <4>2, <5>1 DEF CancelRetarget
        <5>3. view \in Blocks /\ r \in PrepareRetarget(q, view, b)
          BY <2>1, <3>2, <4>2, <5>2, Fields
        <5>4. Follows(q, r)
          BY <3>3, <4>2, <5>3, Retargets
        <5>. QED  BY <1>0, <3>3, <5>4, ThenFollows
      <4>. QED  BY <4>1, <4>2
    <3>. HIDE DEF again
    <3>. QED  BY <1>a, <2>1, <3>1, <3>4, RetargetFollows
  <2>. QED  BY <1>2, <2>2, <2>3 DEF RetargetAgain
<1>3. CASE Retarget
  <2>1. rec.st = "executing" /\ view \in Blocks
    BY <1>0, <1>3 DEF Retarget, CanReconcile
  <2>2. PICK b \in Forced \ {rec.tx.b} : \E r \in PrepareRetarget(rec, view, b) :
            CommitRetarget(r, rec.tx, [Ready("retarget") EXCEPT !.pred = rec.tx])
    BY <1>3 DEF Retarget
  <2>3. PICK r \in PrepareRetarget(rec, view, b) :
            CommitRetarget(r, rec.tx, [Ready("retarget") EXCEPT !.pred = rec.tx])
    BY <2>2
  <2>4. rec.tx \in Transactions /\ WellFormed("executing", rec.tx)
    BY <1>0, <2>1, ShapeTx, WorkingIs DEF Working
  <2>5. Follows(rec, r)
    BY <1>0, <2>1, <2>3, Retargets
  <2>6. [Ready("retarget") EXCEPT !.pred = rec.tx].step # "await"
    BY DEF Ready, Free
  <2>. QED  BY <2>3, <2>4, <2>5, <2>6, RetargetFollows
<1>. QED  BY <1>1, <1>2, <1>3

LEMMA DispatchBudget ==
    ASSUME Typed, Typed', Budget,
           \/ Retarget \/ StartRejected \/ RetargetRejected \/ StartAgain \/ RetargetAgain
           \/ (StartAnswered \/ RetargetAnswered) /\ ~(reply = "stale" /\ ha.try = 1)
           \/ DispatchTimesOut /\ ha.at # "restore"
    PROVE  Budget'
<1>0. HaTyped /\ NetTyped
  BY DEF Typed
<1>1. UNCHANGED <<restores, stops>> /\ (net' = net \/ Unawaited)
  BY DEF Retarget, StartRejected, RetargetRejected, StartAgain, RetargetAgain, StartAnswered,
     RetargetAnswered, DispatchTimesOut, Quiet, Taken, espVars
<1>2. Carries
  BY <1>0, <1>1, Carried
<1>3. ha.at # "restore"
  BY ReadyNext DEF Retarget, CanReconcile, StartRejected, RetargetRejected, StartAgain, RetargetAgain,
     StartAnswered, RetargetAnswered, At
<1>4. Allowed = LeftOf(rec.tx)
  BY <1>3 DEF Allowed, At
<1>5. \E r, next : Saves(r, next) /\ Follows(rec, r) /\ next.step # "await"
  <2>1. CASE Retarget \/ StartAgain \/ RetargetAgain
    BY <1>0, <2>1, AgainFollows
  <2>2. CASE ~(Retarget \/ StartAgain \/ RetargetAgain)
    <3>1. ha.at \in {"start", "retarget"}
      <4>1. CASE DispatchTimesOut
        BY <1>0, <1>3, <4>1, Positions DEF DispatchTimesOut
      <4>2. CASE ~DispatchTimesOut
        BY <2>2, <4>2 DEF StartRejected, RetargetRejected, StartAnswered, RetargetAnswered, At
      <4>. QED  BY <4>1, <4>2
    <3>. QED  BY <1>0, <2>2, <3>1, DispatchFollows
  <2>. QED  BY <2>1, <2>2
<1>6. PICK r, next : Saves(r, next) /\ Follows(rec, r) /\ next.step # "await"
  BY <1>5
<1>. QED  BY <1>1, <1>2, <1>4, <1>6, FollowsBudget

\* The answer to a restore, or none.
LEMMA RestoreBudget ==
    ASSUME Typed, Typed', Awaits, Budget, RestoreAnswered \/ (DispatchTimesOut /\ ha.at = "restore")
    PROVE  Budget'
<1>0. HaTyped /\ NetTyped /\ Sized
  BY Sizes DEF Typed
<1>1. /\ Shape(rec) /\ Owned(rec) /\ PreparedUnsent(rec.tx) /\ rec.tx.refused < 2
      /\ unsaved \in BOOLEAN
  BY <1>0, HoldsAre, Positions DEF RestoreAnswered, At
<1>2. UNCHANGED <<restores, stops>> /\ (net' = net \/ Unawaited)
  BY DEF RestoreAnswered, DispatchTimesOut, Taken, espVars
<1>3. Carries
  BY <1>0, <1>2, Carried
<1>4. At("restore", "await") /\ (DispatchTimesOut => reply = "none")
  BY DEF RestoreAnswered, DispatchTimesOut, At
<1>5. CASE RestoreAnswered /\ reply \in {"stale", "pending"}
  <2>1. PICK r \in RestoreNotQueued(rec) : Save(r, Free, FALSE)
    BY <1>5 DEF RestoreAnswered
  <2>2. Saves(r, Free) /\ Follows(rec, r)
    BY <1>1, <2>1, SaveSaves, Refunds
  <2>3. Allowed = LeftOf(rec.tx)
    BY <1>5 DEF Allowed
  <2>. QED  BY <1>2, <1>3, <2>2, <2>3, FollowsBudget, ReadyNext
<1>6. ASSUME NEW r \in {MarkRestoreSent(rec), RestoreUnknown(rec)},
             Save(r, Free, FALSE) \/ Save(r, Free, TRUE), reply \notin {"stale", "pending"}
      PROVE  Budget'
  <2>1. Saves(r, Free)
    <3>1. CASE Save(r, Free, FALSE)
      BY <1>1, <3>1, SaveSaves
    <3>2. CASE Save(r, Free, TRUE)
      BY <1>1, <3>2, SaveSaves
    <3>. QED  BY <1>6, <3>1, <3>2
  <2>2. Shape(r) /\ LeftOf(r.tx) = rec.tx.att
    BY <1>1, <1>6, Dispatched
  <2>3. Allowed = rec.tx.att
    BY <1>4, <1>6 DEF Allowed
  <2>4. LeftOf(r.tx) >= Allowed
    BY <1>0, <1>1, <2>2, <2>3 DEF Sized
  <2>. QED  BY <1>1, <1>2, <1>3, <2>1, <2>2, <2>4, LastsBudget, ReadyNext
<1>7. CASE RestoreAnswered /\ reply \notin {"stale", "pending"}
  <2>1. Save(MarkRestoreSent(rec), Free, FALSE) \/ Save(RestoreUnknown(rec), Free, TRUE)
    BY <1>7 DEF RestoreAnswered
  <2>. QED  BY <1>6, <1>7, <2>1
<1>8. CASE DispatchTimesOut /\ ha.at = "restore"
  <2>1. Save(RestoreUnknown(rec), Free, TRUE) /\ reply = "none"
    BY <1>8 DEF DispatchTimesOut, GivenUp
  <2>. QED  BY <1>6, <2>1
<1>. QED  BY <1>5, <1>7, <1>8

\* A new owner starts from nothing; a MASTER STOP grants two more.
LEMMA OwnerBudget ==
    ASSUME Typed, Typed', Budget, Select \/ Start \/ RequestMasterStop
    PROVE  Budget'
<1>0. /\ HaTyped /\ NetTyped /\ Shape(rec) /\ unsaved \in BOOLEAN /\ Sized /\ Sized'
      /\ view # None => view \in Blocks
  BY Sizes, SizesNext, HoldsAre DEF Typed
<1>1. CASE Select
  <2>1. PICK b \in Forced : LET r == SelectIntent(rec, b) IN
                              Commit(r, IF r.st = "selected" THEN Loop ELSE Free)
    BY <1>1 DEF Select
  <2>. DEFINE r == SelectIntent(rec, b)
  <2>2. Shape(r) /\ ~Owned(r)
    BY <1>0, Selects
  <2>3. \E next \in {Free, Loop} : Saves(r, next)
    BY <1>0, <2>1, CommitSaves
  <2>4. UNCHANGED <<restores, stops, net>>
    BY <1>1 DEF Select, Quiet, espVars
  <2>5. Carries
    BY <1>0, <2>4, Carried
  <2>. HIDE DEF r
  <2>. QED  BY <2>2, <2>3, <2>4, <2>5, LastsBudget, ReadyNext
<1>2. CASE Start
  <2>1. rec.st = "selected" /\ view \in Blocks /\ stops' = stops /\ restores' = 0
    BY <1>0, <1>2 DEF Start, CanGoOn
  <2>2. PICK r \in StartOn(rec, view) \cup {StopRequested(rec)} :
                Commit(r, IF r.st = "starting" THEN Loop ELSE Free)
    BY <1>2 DEF Start
  <2>3. Shape(r)
    BY <1>0, <2>1, <2>2, Starts
  <2>4. \E next \in {Free, Loop} : Saves(r, next)
    BY <1>0, <2>2, CommitSaves
  <2>5. Own' = {} /\ Spent' = 0
    <3>1. Own' = {}
      BY <1>0, <1>2, StartNet
    <3>2. Cardinality(Own') = 0
      BY <3>1, FS_EmptySet
    <3>. QED  BY <2>1, <3>1, <3>2 DEF Spent
  <2>6. Spent' <= Spent /\ stops' >= stops
    BY <1>0, <2>1, <2>5 DEF Sized
  <2>7. \A k \in Nat : Owned(r) => Spent' <= LeftOf(r.tx) + 2 * (stops' + k)
    <3>1. ASSUME NEW k \in Nat, Owned(r) PROVE Spent' <= LeftOf(r.tx) + 2 * (stops' + k)
      <4>1. LeftOf(r.tx) \in Nat
        BY <2>3, <3>1, LeftIs
      <4>. QED  BY <1>0, <2>5, <4>1 DEF Sized
    <3>. QED  BY <3>1
  <2>. QED  BY <2>3, <2>4, <2>6, <2>7, SavesBudget, ReadyNext
<1>3. CASE RequestMasterStop
  <2>1. /\ view \in Blocks /\ stops' = stops + 1 /\ UNCHANGED <<net, restores>>
    BY <1>0, <1>3 DEF RequestMasterStop, espVars
  <2>2. PICK r \in MasterStop(rec, view) : CommitStop(r, Free, TRUE)
    BY <1>3 DEF RequestMasterStop
  <2>3. Shape(r)
    BY <1>0, <2>1, <2>2, Stops
  <2>4. Saves(r, Free)
    BY <1>0, <2>2, SaveSaves
  <2>5. Spent' <= Spent
    BY <1>0, <2>1, Carried, SpentKept
  <2>6. stops' >= stops
    BY <1>0, <2>1 DEF Sized
  <2>7. ASSUME NEW k \in Nat, Paid(k), Owned(r)
        PROVE  Spent' <= LeftOf(r.tx) + 2 * (stops' + k)
    <3>1. LeftOf(r.tx) \in Nat
      BY <2>3, <2>7, LeftIs
    <3>2. Spent <= 2 + 2 * (stops + k)
      BY <2>7 DEF Paid
    <3>. QED  BY <1>0, <2>1, <2>5, <3>1, <3>2 DEF Sized
  <2>. QED  BY <2>3, <2>4, <2>5, <2>6, <2>7, SavesBudget, ReadyNext
<1>. QED  BY <1>1, <1>2, <1>3

LEMMA Sums == \A x, y, a, b \in Nat : x <= y /\ a <= b => x + a <= y + b
OBVIOUS

LEMMA QuietBudget ==
    ASSUME Typed, Typed', Budget, UNCHANGED <<rec, saved, unsaved, stops, restores>>,
           mishaps' >= mishaps, Carries, Owned(rec) => Allowed' >= Allowed,
           At("restore", "ready")' => At("restore", "ready") \/ saved = rec
    PROVE  Budget'
<1>0. Sized /\ Sized' /\ (Owned(rec)' <=> Owned(rec))
  BY Sizes, SizesNext
<1>1. Spent' <= Spent
  BY SpentKept
<1>2. Owned(rec) => Allowed \in Nat /\ Allowed' \in Nat
  BY <1>0 DEF Sized
<1>3. ASSUME Owned(rec) PROVE Spent' + Allowed <= Spent + Allowed'
  <2>1. Allowed' >= Allowed /\ Allowed \in Nat /\ Allowed' \in Nat
    BY <1>2, <1>3
  <2>2. Spent \in Nat /\ Spent' \in Nat
    BY <1>0 DEF Sized
  <2>3. Allowed <= Allowed'
    BY <2>1
  <2>. QED  BY <1>1, <2>1, <2>2, <2>3, Sums
<1>. QED  BY <1>1, <1>3, KeptBudget

\* The steps of a stop that compute and save, or find nothing to change.
LEMMA StopBudget ==
    ASSUME Typed, Typed', Budget, PrepareRestore \/ DenyRestore \/ Settle
    PROVE  Budget'
<1>0. /\ HaTyped /\ NetTyped /\ Shape(rec) /\ rec \in Records /\ unsaved \in BOOLEAN
      /\ Sized /\ Sized'
  BY Sizes, SizesNext, HoldsAre DEF Typed
<1>1. /\ ha = Free /\ rec.st \in Resting /\ view # None /\ view \in Blocks
      /\ UNCHANGED <<net, stops, restores, reply>>
  BY <1>0, HoldsAre DEF PrepareRestore, DenyRestore, Settle, Restorable, CanReconcile, Resting, Quiet,
     espVars
<1>2. Carries /\ Allowed = LeftOf(rec.tx) /\ Owned(rec)
  <2>1. Owned(rec)
    BY <1>0, <1>1, ShapeTx DEF Shape, WellFormed, Resting, Owned
  <2>2. Allowed = LeftOf(rec.tx)
    BY <1>1, ReadyNext DEF Allowed, At
  <2>. QED  BY <1>0, <1>1, <2>1, <2>2, Carried
<1>3. ASSUME NEW r, Follows(rec, r), NEW next, next.step # "await",
             SaveIfChanged(r, next)
      PROVE  Budget'
  <2>1. CASE Saves(r, next)
    BY <1>1, <1>2, <1>3, <2>1, FollowsBudget
  <2>2. CASE saved = rec /\ ha' = next /\ UNCHANGED <<rec, saved, unsaved, mishaps>>
    <3>1. Allowed' = LeftOf(rec.tx)
      BY <1>3, <2>2 DEF Allowed, At
    <3>2. Allowed' >= Allowed /\ mishaps' >= mishaps
      BY <1>0, <1>2, <2>2, <3>1 DEF Sized
    <3>. QED  BY <1>1, <1>2, <2>2, <3>2, QuietBudget
  <2>. QED  BY <1>0, <1>3, <2>1, <2>2, ChangedSaves
<1>4. CASE PrepareRestore
  <2>. DEFINE verdict == Verdict(rec.tx, view)
              r == RestoreOn(rec, view, verdict)
              next == IF verdict = "write" THEN Ready("restore") ELSE Free
  <2>1. SaveIfChanged(r, next)
    BY <1>4 DEF PrepareRestore
  <2>2. Follows(rec, r)
    BY <1>0, <1>1, Restores
  <2>3. next.step # "await"
    BY ReadyNext
  <2>. HIDE DEF r, next
  <2>. QED  BY <1>3, <2>1, <2>2, <2>3
<1>5. CASE DenyRestore
  <2>1. PICK r \in RestoreDenied(rec) : SaveIfChanged(r, Free)
    BY <1>5 DEF DenyRestore
  <2>2. Follows(rec, r)
    BY <1>0, <1>2, <2>1, Denies
  <2>. QED  BY <1>3, <2>1, <2>2, ReadyNext
<1>6. CASE Settle
  <2>1. CASE Save(Finished(rec), Free, TRUE)
    <3>1. Saves(Finished(rec), Free)
      BY <1>0, <2>1, SaveSaves
    <3>2. Follows(rec, Finished(rec))
      BY <1>0, <1>2, NotOwned DEF Owned
    <3>. QED  BY <1>1, <1>2, <3>1, <3>2, FollowsBudget, ReadyNext
  <2>2. CASE Mishap("store") /\ UNCHANGED <<rec, saved, unsaved, ha>>
    <3>1. mishaps' >= mishaps
      BY <1>0, <2>2 DEF Mishap, Sized
    <3>2. Allowed' = Allowed
      BY <1>1, <2>2 DEF Allowed, At
    <3>3. Allowed' >= Allowed
      BY <1>0, <1>2, <3>2 DEF Sized
    <3>4. ~At("restore", "ready")'
      BY <1>1, <2>2, ReadyNext DEF At
    <3>. QED  BY <1>1, <1>2, <2>2, <3>1, <3>3, <3>4, QuietBudget
  <2>. QED  BY <1>6, <2>1, <2>2 DEF Settle
<1>. QED  BY <1>4, <1>5, <1>6

\* Dispatches that leave the record as it is, but that of a restore.
LEMMA WaitBudget ==
    ASSUME Typed, Typed', Budget,
           \/ RestoreRejected \/ SendArm
           \/ (StartAnswered \/ RetargetAnswered) /\ reply = "stale" /\ ha.try = 1
    PROVE  Budget'
<1>0. HaTyped /\ NetTyped /\ Sized /\ Sized' /\ ha \in HaRecords
  BY Sizes, SizesNext, Positions DEF Typed
<1>1. UNCHANGED <<rec, saved, unsaved, stops, restores, mishaps>>
  <2>1. CASE RestoreRejected
    BY <2>1 DEF RestoreRejected, Quiet, espVars
  <2>2. CASE SendArm
    BY <2>2 DEF SendArm, Send, espVars
  <2>3. CASE (StartAnswered \/ RetargetAnswered) /\ reply = "stale" /\ ha.try = 1
    BY <2>3 DEF StartAnswered, RetargetAnswered, Taken, espVars
  <2>. QED  BY <2>1, <2>2, <2>3
<1>2. Allowed = LeftOf(rec.tx) /\ Allowed' = LeftOf(rec.tx) /\ ~At("restore", "ready")'
  <2>1. CASE RestoreRejected
    BY <1>1, <2>1, ReadyNext DEF RestoreRejected, At, Allowed
  <2>2. CASE SendArm
    <3>1. ha.at # "restore" /\ ha'.at = ha.at
      BY <1>0, <2>2 DEF SendArm, Send, HaRecords
    <3>. QED  BY <1>1, <3>1 DEF At, Allowed
  <2>3. CASE (StartAnswered \/ RetargetAnswered) /\ reply = "stale" /\ ha.try = 1
    <3>1. ha.at # "restore" /\ ha' = [ha EXCEPT !.step = "stale"]
      BY <2>3 DEF StartAnswered, RetargetAnswered, At
    <3>2. ha'.at = ha.at
      BY <1>0, <3>1 DEF HaRecords
    <3>. QED  BY <1>1, <3>1, <3>2 DEF At, Allowed
  <2>. QED  BY <2>1, <2>2, <2>3
<1>3. Own' \subseteq Own
  <2>1. CASE SendArm
    <3>. DEFINE m == Request("arm", arms + 1, rec.tx.b)
    <3>1. net' = net \cup {m} /\ m.kind = "arm"
      BY <2>1 DEF SendArm, Send, Request
    <3>. HIDE DEF m
    <3>. QED  BY <3>1 DEF Own
  <2>2. CASE ~SendArm
    <3>1. net' = net
      BY <2>2 DEF RestoreRejected, StartAnswered, RetargetAnswered, Quiet, Taken
    <3>. QED  BY <3>1 DEF Own
  <2>. QED  BY <2>1, <2>2
<1>4. Spent' <= Spent
  <2>1. Cardinality(Own') <= Cardinality(Own)
    BY <1>0, <1>3, OwnFinite, FS_Subset
  <2>. QED  BY <1>0, <1>1, <2>1 DEF Spent, Sized
<1>5. Owned(rec) => Spent' + Allowed <= Spent + Allowed'
  <2>1. ASSUME Owned(rec) PROVE Spent' + Allowed <= Spent + Allowed'
    <3>1. Allowed \in Nat /\ Allowed' = Allowed
      BY <1>0, <1>2, <2>1 DEF Sized
    <3>2. Spent \in Nat /\ Spent' \in Nat
      BY <1>0 DEF Sized
    <3>3. Allowed <= Allowed'
      BY <3>1
    <3>. QED  BY <1>4, <3>1, <3>2, <3>3, Sums
  <2>. QED  BY <2>1
<1>6. mishaps' >= mishaps
  BY <1>0, <1>1 DEF Sized
<1>. QED  BY <1>1, <1>2, <1>4, <1>5, <1>6, KeptBudget

\* A restore leaves: one more may be spent, the one that was prepared, and the
\* Store has it.
LEMMA SendRestoreBudget ==
    ASSUME Typed, Typed', Awaits, Budget, SendRestore
    PROVE  Budget'
<1>0. HaTyped /\ NetTyped /\ Sized /\ Sized' /\ ha \in HaRecords
  BY Sizes, SizesNext, Positions DEF Typed
<1>1. /\ UNCHANGED <<rec, saved, unsaved, stops, restores, mishaps, reply>>
      /\ At("restore", "ready") /\ ha' = [ha EXCEPT !.step = "await"]
      /\ \E m : net' = net \cup {m}
  BY DEF SendRestore, Send, espVars
<1>2. ha'.at = "restore" /\ ha'.step = "await" /\ reply' = "none"
  BY <1>0, <1>1 DEF HaRecords, At, Awaits
<1>3. Shape(rec) /\ Owned(rec) /\ PreparedUnsent(rec.tx)
  BY <1>0, <1>1, HoldsAre, Positions DEF At
<1>4. /\ LeftOf(rec.tx) = rec.tx.att - 1 /\ rec.tx.att \in Nat /\ rec.tx.att <= 2
      /\ Allowed = LeftOf(rec.tx) /\ Allowed' = rec.tx.att
  <2>1. Allowed = LeftOf(rec.tx) /\ Allowed' = rec.tx.att
    BY <1>1, <1>2 DEF Allowed, At
  <2>. QED  BY <1>3, <2>1, LeftIs
<1>5. Spent' <= Spent + 1
  <2>1. PICK m : net' = net \cup {m}
    BY <1>1
  <2>2. Own' \subseteq Own \cup {m}
    BY <2>1 DEF Own
  <2>3. IsFiniteSet(Own) /\ Cardinality(Own) \in Nat
    BY <1>0, OwnFinite
  <2>4. IsFiniteSet(Own \cup {m}) /\ Cardinality(Own \cup {m}) <= Cardinality(Own) + 1
    BY <2>3, FS_AddElement
  <2>5. Cardinality(Own') <= Cardinality(Own \cup {m}) /\ Cardinality(Own \cup {m}) \in Nat
    BY <2>2, <2>4, FS_Subset, FS_CardinalityType
  <2>6. \A x, y, z, n \in Nat : x <= y /\ y <= z + 1 => n + x <= n + z + 1
    OBVIOUS
  <2>7. Cardinality(Own') \in Nat /\ restores \in Nat /\ restores' = restores
    BY <1>0, <1>1 DEF Sized
  <2>. QED  BY <2>3, <2>4, <2>5, <2>6, <2>7 DEF Spent
<1>6. PICK k \in Nat : /\ Paid(k)
                       /\ \/ 2 * k <= mishaps /\ Charged(k)
                          \/ 2 * k + 1 <= mishaps
  BY DEF Budget
<1>7. Spent' <= rec.tx.att + 2 * (stops' + k)
  <2>1. Spent <= rec.tx.att - 1 + 2 * (stops + k)
    BY <1>3, <1>4, <1>6 DEF Paid
  <2>2. Spent \in Nat /\ Spent' \in Nat /\ stops \in Nat /\ stops' = stops
    BY <1>0, <1>1 DEF Sized
  <2>. QED  BY <1>4, <1>5, <1>6, <2>1, <2>2
<1>8. Paid(k)'
  <2>1. Owned(rec)' => Spent' <= Allowed' + 2 * (stops' + k)
    BY <1>4, <1>7
  <2>2. \A x, a, s, n \in Nat : x <= a + 2 * (s + n) /\ a <= 2 => x <= 2 + 2 * (s + n)
    OBVIOUS
  <2>3. Spent' \in Nat /\ stops' \in Nat /\ k \in Nat
    BY <1>0, <1>6 DEF Sized
  <2>4. Spent' <= 2 + 2 * (stops' + k)
    BY <1>4, <1>7, <2>2, <2>3
  <2>. QED  BY <2>1, <2>4 DEF Paid
<1>9. CASE Charged(k) /\ 2 * k <= mishaps
  <2>1. saved = rec /\ ~unsaved
    BY <1>1, <1>9 DEF Charged
  <2>2. Spent' <= saved'.tx.att + 2 * (stops' + k)
    BY <1>1, <1>7, <2>1
  <2>3. Charged(k)'
    BY <1>1, <1>2, <2>1, <2>2 DEF Charged, At
  <2>. QED  BY <1>1, <1>6, <1>8, <1>9, <2>3 DEF Budget
<1>10. CASE 2 * k + 1 <= mishaps
  BY <1>1, <1>6, <1>8, <1>10 DEF Budget
<1>. QED  BY <1>6, <1>9, <1>10

\* Home Assistant restarts: what the Store knows is allowed again, and two more
\* when it has missed a restore.
LEMMA RestartBudget ==
    ASSUME Typed, Typed', Budget, Restart
    PROVE  Budget'
<1>0. HaTyped /\ NetTyped /\ Sized /\ Sized' /\ Shape(saved)
  BY Sizes, SizesNext, HoldsAre DEF Typed
<1>. DEFINE q == Recovered(saved)
<1>1. /\ rec' = q /\ saved' = q /\ unsaved' = FALSE /\ ha' = Free /\ mishaps' = mishaps + 1
      /\ Unawaited /\ UNCHANGED <<stops, restores>>
  BY DEF Restart, Mishap, espVars
<1>2. /\ Shape(q)
      /\ Owned(q) => Owned(saved) /\ LeftOf(q.tx) = saved.tx.att /\ q.tx.att = saved.tx.att
  BY <1>0, Recovers
<1>. HIDE DEF q
<1>3. Spent' <= Spent
  BY <1>0, <1>1, Carried, SpentKept
<1>4. Allowed' = LeftOf(q.tx) /\ ~At("restore", "ready")'
  BY <1>1, ReadyNext DEF Allowed, At
<1>5. PICK k \in Nat : /\ Paid(k)
                       /\ \/ 2 * k <= mishaps /\ Charged(k)
                          \/ 2 * k + 1 <= mishaps
  BY DEF Budget
<1>6. /\ Spent <= 2 + 2 * (stops + k) /\ Spent \in Nat /\ Spent' \in Nat /\ stops \in Nat
      /\ stops' = stops /\ mishaps \in Nat /\ mishaps' = mishaps + 1
  BY <1>0, <1>1, <1>5 DEF Paid, Sized
<1>7. Owned(q) => saved.tx.att \in Nat
  BY <1>0, <1>2, LeftIs
<1>8. ASSUME NEW n \in Nat, Spent' <= 2 + 2 * (stops' + n), 2 * n <= mishaps',
             Owned(q) => Spent' <= saved.tx.att + 2 * (stops' + n)
      PROVE  Budget'
  <2>1. Paid(n)'
    <3>1. Owned(rec)' => Spent' <= Allowed' + 2 * (stops' + n)
      BY <1>1, <1>2, <1>4, <1>8
    <3>. QED  BY <1>8, <3>1 DEF Paid
  <2>2. Charged(n)'
    <3>1. Owned(saved)' => Spent' <= saved'.tx.att + 2 * (stops' + n)
      BY <1>1, <1>2, <1>8
    <3>. QED  BY <1>1, <1>4, <3>1 DEF Charged
  <2>. QED  BY <1>8, <2>1, <2>2 DEF Budget
<1>9. CASE Charged(k) /\ 2 * k <= mishaps
  <2>1. Owned(q) => Spent' <= saved.tx.att + 2 * (stops' + k)
    <3>1. Owned(q) => Spent <= saved.tx.att + 2 * (stops + k)
      BY <1>2, <1>9 DEF Charged
    <3>. QED  BY <1>3, <1>5, <1>6, <1>7, <3>1
  <2>2. Spent' <= 2 + 2 * (stops' + k)
    BY <1>3, <1>5, <1>6
  <2>3. 2 * k <= mishaps'
    BY <1>5, <1>6, <1>9
  <2>. QED  BY <1>5, <1>8, <2>1, <2>2, <2>3
<1>10. CASE 2 * k + 1 <= mishaps
  <2>. DEFINE n == k + 1
  <2>1. n \in Nat /\ Spent' <= 2 * (stops' + n) /\ 2 * n <= mishaps'
    BY <1>3, <1>5, <1>6, <1>10
  <2>2. Spent' <= 2 + 2 * (stops' + n)
    BY <1>6, <2>1
  <2>3. Owned(q) => Spent' <= saved.tx.att + 2 * (stops' + n)
    BY <1>6, <1>7, <2>1
  <2>. HIDE DEF n
  <2>. QED  BY <1>8, <2>1, <2>2, <2>3
<1>. QED  BY <1>5, <1>9, <1>10

\* A newer reading changes no count.
LEMMA ReadingBudget ==
    ASSUME Typed, Typed', Budget, NEW lost \in BOOLEAN, ReadingReceived(lost)
    PROVE  Budget'
<1>0. HaTyped /\ NetTyped /\ Sized /\ Sized' /\ Shape(rec) /\ Shape(saved) /\ ha \in HaRecords
  BY Sizes, SizesNext, HoldsAre, Positions DEF Typed
<1>1. UNCHANGED <<unsaved, stops, restores, mishaps, reply, net>>
  BY DEF ReadingReceived
<1>2. ha'.at = ha.at /\ ha'.step = ha.step
  BY <1>0 DEF ReadingReceived, HaRecords
<1>3. Spent' = Spent
  BY <1>1 DEF Spent, Own
<1>4. CASE ~lag
  <2>1. UNCHANGED <<rec, saved, ha>>
    BY <1>4 DEF ReadingReceived
  <2>2. Carries /\ mishaps' >= mishaps /\ Allowed' = Allowed
    BY <1>0, <1>1, <1>2, <2>1, Carried DEF Allowed, At, Sized
  <2>3. Owned(rec) => Allowed' >= Allowed
    BY <1>0, <2>2 DEF Sized
  <2>. QED  BY <1>1, <1>2, <2>1, <2>2, <2>3, QuietBudget DEF At
<1>5. CASE lag
  <2>1. /\ rec' = [rec EXCEPT !.tx = AgedTx(rec.tx, lost)]
        /\ saved' = [saved EXCEPT !.tx = AgedTx(saved.tx, lost)]
    BY <1>5 DEF ReadingReceived
  <2>2. /\ Owned(rec') <=> Owned(rec)
        /\ Owned(rec) => rec'.tx.att = rec.tx.att /\ LeftOf(rec'.tx) = LeftOf(rec.tx)
    <3>1. Shape(rec) /\ rec' = Elder(rec, lost)
      BY <1>0, <2>1 DEF Elder
    <3>. QED  BY <3>1, AgedRecord
  <2>3. /\ Owned(saved') <=> Owned(saved)
        /\ Owned(saved) => saved'.tx.att = saved.tx.att
    <3>1. Shape(saved) /\ saved' = Elder(saved, lost)
      BY <1>0, <2>1 DEF Elder
    <3>. QED  BY <3>1, AgedRecord
  <2>4. Owned(rec) => Allowed' = Allowed
    BY <1>1, <1>2, <2>2 DEF Allowed, At
  <2>5. PICK k \in Nat : /\ Paid(k)
                         /\ \/ 2 * k <= mishaps /\ Charged(k)
                            \/ 2 * k + 1 <= mishaps
    BY DEF Budget
  <2>6. Paid(k)'
    <3>1. Spent <= 2 + 2 * (stops + k) /\ (Owned(rec) => Spent <= Allowed + 2 * (stops + k))
      BY <2>5 DEF Paid
    <3>2. Owned(rec)' => Spent' <= Allowed' + 2 * (stops' + k)
      BY <1>1, <1>3, <2>2, <2>4, <3>1
    <3>3. Spent' <= 2 + 2 * (stops' + k)
      BY <1>1, <1>3, <3>1
    <3>. QED  BY <3>2, <3>3 DEF Paid
  <2>7. Charged(k) => Charged(k)'
    <3>1. ASSUME Charged(k) PROVE Charged(k)'
      <4>1. Owned(saved)' => Spent' <= saved'.tx.att + 2 * (stops' + k)
        BY <1>1, <1>3, <2>3, <3>1 DEF Charged
      <4>2. At("restore", "ready")' => saved' = rec'
        BY <1>2, <2>1, <3>1 DEF Charged, At
      <4>. QED  BY <1>1, <3>1, <4>1, <4>2 DEF Charged
    <3>. QED  BY <3>1
  <2>. QED  BY <1>1, <2>5, <2>6, <2>7 DEF Budget
<1>. QED  BY <1>4, <1>5

\* The firmware answers: an accepted restore is spent, a refused one refunded.
LEMMA AnswerBudget ==
    ASSUME Typed, Typed', Awaits, Budget, NEW m \in net,
           EspArms(m) \/ EspRestores(m) \/ EspRefuses(m)
    PROVE  Budget'
<1>0. /\ HaTyped /\ NetTyped /\ Sized /\ Sized'
      /\ IsFiniteSet(Own) /\ Cardinality(Own) \in Nat
  BY Sizes, SizesNext, OwnFinite DEF Typed
<1>1. UNCHANGED <<rec, saved, unsaved, stops, ha, mishaps>> /\ net' = net \ {m}
  BY DEF EspArms, EspRestores, EspRefuses, HaIdle, Answer
<1>2. Carries /\ mishaps' >= mishaps
  BY <1>0, <1>1, Carried DEF Sized
<1>3. At("restore", "ready")' => At("restore", "ready")
  BY <1>1 DEF At
<1>4. ASSUME reply' \notin {"stale", "pending"} \/ reply' = reply, Owned(rec)
      PROVE  Allowed' >= Allowed /\ Allowed \in Nat /\ Allowed' \in Nat
  <2>1. Allowed \in Nat /\ LeftOf(rec.tx) <= rec.tx.att /\ rec.tx.att \in Nat
        /\ LeftOf(rec.tx) \in Nat
    BY <1>0, <1>4, LeftIs DEF Sized
  <2>2. CASE reply' = reply
    <3>1. Allowed' = Allowed
      BY <1>1, <2>2 DEF Allowed, At
    <3>. QED  BY <2>1, <3>1
  <2>3. CASE reply' \notin {"stale", "pending"}
    <3>1. Allowed' = IF At("restore", "await") THEN rec.tx.att ELSE LeftOf(rec.tx)
      BY <1>1, <2>3 DEF Allowed, At
    <3>2. ~At("restore", "await") => Allowed = LeftOf(rec.tx)
      BY DEF Allowed
    <3>3. Allowed \in {rec.tx.att, LeftOf(rec.tx)}
      BY DEF Allowed
    <3>4. CASE At("restore", "await")
      <4>1. Allowed' = rec.tx.att
        BY <3>1, <3>4
      <4>. QED  BY <2>1, <3>3, <4>1
    <3>5. CASE ~At("restore", "await")
      <4>1. Allowed' = Allowed
        BY <3>1, <3>2, <3>5
      <4>. QED  BY <2>1, <4>1
    <3>. QED  BY <3>4, <3>5
  <2>. QED  BY <1>4, <2>2, <2>3
<1>5. CASE EspArms(m)
  <2>1. restores' = restores /\ (reply' \notin {"stale", "pending"} \/ reply' = reply)
    BY <1>5 DEF EspArms, Answer
  <2>. QED  BY <1>1, <1>2, <1>3, <1>4, <2>1, QuietBudget
<1>6. CASE EspRestores(m)
  <2>1. /\ m.kind = "restore" /\ restores' = restores + m.id
        /\ (reply' \notin {"stale", "pending"} \/ reply' = reply)
    BY <1>6 DEF EspRestores, Answer
  <2>2. m.id \in {0, 1}
    BY <2>1 DEF Awaits
  <2>3. Spent' <= Spent
    <3>1. CASE m.id = 0
      <4>1. Own' = Own
        BY <1>1, <3>1 DEF Own
      <4>2. restores' = restores
        BY <1>0, <2>1, <3>1 DEF Sized
      <4>3. Spent' = Spent
        BY <4>1, <4>2 DEF Spent
      <4>. QED  BY <1>0, <4>3 DEF Sized
    <3>2. CASE m.id = 1
      <4>1. Own' = Own \ {m} /\ m \in Own /\ restores' = restores + 1
        BY <1>1, <2>1, <3>2 DEF Own
      <4>2. Cardinality(Own') = Cardinality(Own) - 1
        BY <1>0, <4>1, FS_RemoveElement
      <4>3. Spent' = Spent
        BY <1>0, <4>1, <4>2 DEF Spent, Sized
      <4>. QED  BY <1>0, <4>3 DEF Sized
    <3>. QED  BY <2>2, <3>1, <3>2
  <2>4. ASSUME Owned(rec) PROVE Spent' + Allowed <= Spent + Allowed'
    <3>1. Allowed <= Allowed' /\ Allowed \in Nat /\ Allowed' \in Nat
      BY <1>4, <2>1, <2>4
    <3>2. Spent \in Nat /\ Spent' \in Nat
      BY <1>0 DEF Sized
    <3>. QED  BY <2>3, <3>1, <3>2, Sums
  <2>. QED  BY <1>1, <1>2, <1>3, <2>3, <2>4, KeptBudget
<1>7. CASE EspRefuses(m)
  <2>1. UNCHANGED restores /\ \E r \in {"stale", "bad", "pending"} : Answer(m, r)
    BY <1>7 DEF EspRefuses, espVars
  <2>2. CASE reply' \notin {"stale", "pending"} \/ reply' = reply
    BY <1>1, <1>2, <1>3, <1>4, <2>1, <2>2, QuietBudget
  <2>3. CASE reply' \in {"stale", "pending"} /\ reply' # reply
    <3>1. m.awaited
      BY <2>1, <2>3 DEF Answer
    <3>2. ha.step = "await" /\ reply = "none" /\ (m.kind = "restore" <=> ha.at = "restore")
          /\ (m.kind = "restore" => m.id = 1)
      BY <3>1 DEF Awaits
    <3>3. CASE m.kind # "restore"
      <4>1. Allowed' = Allowed
        BY <1>1, <3>2, <3>3 DEF Allowed, At
      <4>2. Owned(rec) => Allowed' >= Allowed
        BY <1>0, <4>1 DEF Sized
      <4>. QED  BY <1>1, <1>2, <1>3, <2>1, <4>2, QuietBudget
    <3>4. CASE m.kind = "restore"
      <4>1. Own' = Own \ {m} /\ m \in Own
        BY <1>1, <3>2, <3>4 DEF Own
      <4>2. Cardinality(Own') = Cardinality(Own) - 1
        BY <1>0, <4>1, FS_RemoveElement
      <4>3. Spent' = Spent - 1
        BY <1>0, <2>1, <4>2 DEF Spent, Sized
      <4>4. ASSUME Owned(rec) PROVE Spent' + Allowed <= Spent + Allowed'
        <5>1. Shape(rec)
          BY <1>0 DEF Sized
        <5>2. Allowed' = LeftOf(rec.tx)
          BY <1>1, <2>3 DEF Allowed, At
        <5>3. /\ rec.tx.att \in Nat /\ LeftOf(rec.tx) \in Nat /\ Allowed <= rec.tx.att
              /\ rec.tx.att <= LeftOf(rec.tx) + 1 /\ Allowed \in Nat
          <6>1. LeftOf(rec.tx) = rec.tx.att \/ LeftOf(rec.tx) = rec.tx.att - 1
            BY DEF LeftOf
          <6>. QED  BY <1>0, <4>4, <5>1, <6>1, LeftIs DEF Sized
        <5>4. \A s, t, a, l, n \in Nat : s = t - 1 /\ a <= n /\ n <= l + 1 => s + a <= t + l
          OBVIOUS
        <5>5. Spent \in Nat /\ Spent' \in Nat
          BY <1>0 DEF Sized
        <5>6. Spent' + Allowed <= Spent + LeftOf(rec.tx)
          BY <4>3, <5>3, <5>4, <5>5
        <5>. QED  BY <5>2, <5>6
      <4>5. Spent' <= Spent
        BY <1>0, <4>3 DEF Sized
      <4>. QED  BY <1>1, <1>2, <1>3, <4>4, <4>5, KeptBudget
    <3>. QED  BY <3>3, <3>4
  <2>. QED  BY <2>2, <2>3
<1>. QED  BY <1>5, <1>6, <1>7

\* Everything else the firmware and the inverter do.
LEMMA FirmwareBudget ==
    ASSUME Typed, Typed', Budget,
           \/ PollDue \/ WriteApplied \/ WriteLost \/ Reading \/ LeaseTimer
           \/ OutsideChange \/ EspRestart \/ UNCHANGED vars
           \/ \E m \in net : RequestLost(m)
    PROVE  Budget'
<1>0. HaTyped /\ NetTyped /\ Sized
  BY Sizes DEF Typed
<1>1. UNCHANGED <<rec, saved, unsaved, stops, restores, ha, reply>>
  <2>1. CASE PollDue \/ WriteApplied \/ WriteLost \/ Reading \/ LeaseTimer
    BY <2>1 DEF PollDue, WriteApplied, WriteLost, Reading, LeaseTimer, EspIdle, HaIdle
  <2>2. CASE OutsideChange \/ EspRestart
    BY <2>2 DEF OutsideChange, EspRestart, EspIdle, HaIdle
  <2>3. CASE UNCHANGED vars
    BY <2>3 DEF vars, haVars, espVars
  <2>4. CASE \E m \in net : RequestLost(m)
    BY <2>4 DEF RequestLost, HaIdle, espVars
  <2>. QED  BY <2>1, <2>2, <2>3, <2>4
<1>2. Carries
  <2>1. CASE PollDue \/ WriteApplied \/ WriteLost \/ LeaseTimer \/ OutsideChange
    BY <1>0, <2>1, Carried DEF PollDue, WriteApplied, WriteLost, LeaseTimer, OutsideChange
  <2>2. CASE Reading
    BY <1>0, <2>2, Carried DEF Reading
  <2>3. CASE EspRestart
    BY <1>0, <2>3, Carried DEF EspRestart
  <2>4. CASE UNCHANGED vars
    BY <1>0, <2>4, Carried DEF vars
  <2>5. CASE \E m \in net : RequestLost(m)
    BY <1>0, <2>5, Carried DEF RequestLost
  <2>. QED  BY <2>1, <2>2, <2>3, <2>4, <2>5
<1>3. mishaps' >= mishaps
  <2>1. mishaps' = mishaps \/ mishaps' = mishaps + 1
    BY DEF PollDue, WriteApplied, WriteLost, Reading, LeaseTimer, OutsideChange, EspRestart,
       RequestLost, Mishap, vars
  <2>. QED  BY <1>0, <2>1 DEF Sized
<1>4. Allowed' = Allowed /\ (At("restore", "ready")' => At("restore", "ready"))
  BY <1>1 DEF Allowed, At
<1>5. Owned(rec) => Allowed' >= Allowed
  BY <1>0, <1>4 DEF Sized
<1>. QED  BY <1>1, <1>2, <1>3, <1>4, <1>5, QuietBudget

LEMMA BudgetStep == Typed /\ Typed' /\ Awaits /\ Budget /\ [Next]_vars => Budget'
<1>. SUFFICES ASSUME Typed, Typed', Awaits, Budget, [Next]_vars PROVE Budget'
  OBVIOUS
<1>1. CASE Reconcile \/ RequestMasterStop \/ RetryPersistence
  <2>1. \/ PrepareStart \/ Unblock \/ Deadline \/ Rearm \/ Observe \/ Verify \/ Sustain
        \/ RetryPersistence \/ ObserveRestored \/ Retarget
        \/ Select \/ Start \/ RequestMasterStop
        \/ PrepareRestore \/ DenyRestore \/ Settle
    BY <1>1 DEF Reconcile, Stopping
  <2>. QED  BY <2>1, ReconcileBudget, OwnerBudget, StopBudget, DispatchBudget
<1>2. CASE Dispatching
  <2>1. CASE StartAnswered \/ RetargetAnswered
    BY <2>1, DispatchBudget, WaitBudget
  <2>2. CASE DispatchTimesOut
    BY <2>2, DispatchBudget, RestoreBudget
  <2>3. CASE SendRestore
    BY <2>3, SendRestoreBudget
  <2>4. CASE RestoreAnswered
    BY <2>4, RestoreBudget
  <2>5. CASE SendArm \/ RestoreRejected
    BY <2>5, WaitBudget
  <2>6. CASE StartRejected \/ RetargetRejected \/ StartAgain \/ RetargetAgain
    BY <2>6, DispatchBudget
  <2>. QED  BY <1>2, <2>1, <2>2, <2>3, <2>4, <2>5, <2>6 DEF Dispatching
<1>3. CASE Restart
  BY <1>3, RestartBudget
<1>4. CASE \E lost \in BOOLEAN : ReadingReceived(lost)
  BY <1>4, ReadingBudget
<1>5. CASE Firmware \/ OutsideChange \/ EspRestart \/ UNCHANGED vars
  <2>1. ASSUME NEW m \in net, EspArms(m) \/ EspRestores(m) \/ EspRefuses(m) PROVE Budget'
    BY <2>1, AnswerBudget
  <2>2. CASE \E m \in net : EspArms(m) \/ EspRestores(m) \/ EspRefuses(m)
    BY <2>1, <2>2
  <2>3. CASE \/ PollDue \/ WriteApplied \/ WriteLost \/ Reading \/ LeaseTimer
             \/ OutsideChange \/ EspRestart \/ UNCHANGED vars
             \/ \E m \in net : RequestLost(m)
    BY <2>3, FirmwareBudget
  <2>. QED  BY <1>5, <2>2, <2>3 DEF Firmware
<1>. QED  BY <1>1, <1>2, <1>3, <1>4, <1>5 DEF Next

LEMMA InitBudget == Init => Awaits /\ Budget
<1>. SUFFICES ASSUME Init PROVE Awaits /\ Budget
  OBVIOUS
<1>1. Awaits
  BY DEF Init, Awaits, Free
<1>2. Spent = 0
  <2>1. Own = {}
    BY DEF Init, Own
  <2>. QED  BY <2>1, FS_EmptySet DEF Init, Spent
<1>3. ~Owned(rec) /\ ~Owned(saved) /\ saved = rec
  BY IdleShape DEF Init
<1>4. stops = 0 /\ mishaps = 0 /\ ~unsaved
  BY DEF Init
<1>5. Paid(0) /\ Charged(0)
  <2>1. 0 <= 2 + 2 * (0 + 0)
    OBVIOUS
  <2>. QED  BY <1>2, <1>3, <1>4, <2>1 DEF Paid, Charged
<1>6. 2 * 0 <= mishaps /\ 0 \in Nat
  BY <1>4
<1>7. Budget
  BY <1>5, <1>6 DEF Budget
<1>. QED  BY <1>1, <1>7

LEMMA BudgetBounds == Typed /\ Budget => RestoresBounded
<1>. SUFFICES ASSUME Typed, Budget PROVE RestoresBounded
  OBVIOUS
<1>0. Sized
  BY Sizes
<1>1. PICK k \in Nat : Paid(k) /\ 2 * k <= mishaps
  <2>1. PICK k \in Nat : /\ Paid(k)
                         /\ \/ 2 * k <= mishaps /\ Charged(k)
                            \/ 2 * k + 1 <= mishaps
    BY DEF Budget
  <2>2. \A n, x \in Nat : 2 * n + 1 <= x => 2 * n <= x
    OBVIOUS
  <2>3. mishaps \in Nat
    BY <1>0 DEF Sized
  <2>. QED  BY <2>1, <2>2, <2>3
<1>2. Spent <= 2 + 2 * (stops + k)
  BY <1>1 DEF Paid
<1>3. restores <= Spent
  BY <1>0 DEF Sized, Spent
<1>4. \A n, x \in Nat : 2 * n <= x => n <= x \div 2 /\ x \div 2 \in Nat
  OBVIOUS
<1>5. k <= mishaps \div 2 /\ mishaps \div 2 \in Nat
  BY <1>0, <1>1, <1>4 DEF Sized
<1>6. \A r, x, s, n, d \in Nat : r <= x /\ x <= 2 + 2 * (s + n) /\ n <= d => r <= 2 * (1 + s + d)
  OBVIOUS
<1>. QED  BY <1>0, <1>1, <1>2, <1>3, <1>5, <1>6 DEF Sized, RestoresBounded

\* The executor's promise to the battery: an owner's stop writes the inverter at
\* most twice, for any number of stops, refusals, late answers, firmware restarts
\* and crashes of Home Assistant.  Only a MASTER STOP grants two more, and so does
\* a restart that follows a MASTER STOP the Store has missed.
THEOREM RestoresStayBounded == Spec => []RestoresBounded
<1>1. Typed /\ Awaits /\ Budget /\ [Next]_vars => (Typed /\ Awaits /\ Budget)'
  BY TypedStep, AwaitsStep, BudgetStep
<1>2. Init => Typed /\ Awaits /\ Budget
  BY InitTyped, InitBudget
<1>. QED  BY <1>1, <1>2, BudgetBounds, PTL DEF Spec
=============================================================================
