--------------------------- MODULE RiskPlanProofs ---------------------------
(***************************************************************************)
(* The emergency RCEm publishes is the one of now, whichever of its two     *)
(* writers publishes it and whatever comes under the solver, for any number *)
(* of measurements, failures and waiting tasks.                             *)
(*                                                                         *)
(* The argument: a measurement either is published at once or waits for the *)
(* lock, and one that meets a solver changes the fingerprint, so that the   *)
(* solver's result is published only if the voltage is still the captured.  *)
(***************************************************************************)
EXTENDS RiskPlan, TLAPS

Live == {"live", "back"}
\* A solver whose fingerprint did not change has captured the voltage of now.
CapturedNow == run.solving => run.try > 0 /\ (run.other \/ run.high = high)
\* What is published is true, unless a measurement waits that will correct it.
TrueOrComing ==
    \/ public.emergency \in {Said(high), "unsaid"}
    \/ \E i \in 1..Len(queue) : queue[i] \in Live
RiskInv == RiskTypeOK /\ CapturedNow /\ TrueOrComing

-----------------------------------------------------------------------------
(* The batch that holds the lock.                                          *)
Batch == [by : Waiters, try : 0..Attempts, solving : BOOLEAN, moved : BOOLEAN,
          other : BOOLEAN, high : BOOLEAN]

LEMMA RunType == ASSUME NEW by \in Waiters, NEW try \in 0..Attempts
                 PROVE  Run(by, try) \in Batch /\ ~Run(by, try).solving
BY DEF Run, Batch

LEMMA BusyType ==
    ASSUME run \in Batch
    PROVE  /\ RevisionMoved \in Batch /\ RevisionMoved.solving = run.solving
           /\ RevisionMoved.other = run.other /\ RevisionMoved.high = run.high
           /\ Measured \in Batch /\ Measured.solving => Measured.other
BY DEF Batch, RevisionMoved, Measured

\* A task joins the queue: a live one is a measurement that waits, and one that waited
\* still does.
LEMMA Joined ==
    ASSUME queue \in Seq(Waiters), NEW who \in Waiters, queue' = Append(queue, who)
    PROVE  /\ queue' \in Seq(Waiters)
           /\ who \in Live => \E i \in 1..Len(queue') : queue'[i] \in Live
           /\ (\E i \in 1..Len(queue) : queue[i] \in Live)
              => \E i \in 1..Len(queue') : queue'[i] \in Live
<1>1. /\ queue' \in Seq(Waiters) /\ Len(queue') = Len(queue) + 1
      /\ queue'[Len(queue) + 1] = who
      /\ \A i \in 1..Len(queue) : queue'[i] = queue[i]
  OBVIOUS
<1>2. Len(queue) \in Nat
  OBVIOUS
<1>3. ASSUME who \in Live PROVE \E i \in 1..Len(queue') : queue'[i] \in Live
  <2>1. Len(queue) + 1 \in 1..Len(queue') /\ queue'[Len(queue) + 1] \in Live
    BY <1>1, <1>2, <1>3
  <2> QED
    BY <2>1
<1>4. ASSUME NEW i \in 1..Len(queue), queue[i] \in Live
      PROVE  \E j \in 1..Len(queue') : queue'[j] \in Live
  <2>1. i \in 1..Len(queue') /\ queue'[i] \in Live
    BY <1>1, <1>2, <1>4
  <2> QED
    BY <2>1
<1> QED
  BY <1>1, <1>3, <1>4

\* Its head is served: the measurements behind it still wait.
LEMMA Taken ==
    ASSUME queue \in Seq(Waiters), queue # <<>>, queue' = Tail(queue)
    PROVE  /\ queue' \in Seq(Waiters) /\ Head(queue) \in Waiters
           /\ (\E i \in 1..Len(queue) : queue[i] \in Live) /\ Head(queue) \notin Live
              => \E i \in 1..Len(queue') : queue'[i] \in Live
<1>1. /\ queue' \in Seq(Waiters) /\ Head(queue) \in Waiters /\ Head(queue) = queue[1]
      /\ Len(queue) \in Nat \ {0} /\ Len(queue') = Len(queue) - 1
      /\ \A i \in 1..Len(queue') : queue'[i] = queue[i + 1]
  OBVIOUS
<1>2. ASSUME NEW i \in 1..Len(queue), queue[i] \in Live, Head(queue) \notin Live
      PROVE  \E j \in 1..Len(queue') : queue'[j] \in Live
  <2>1. i - 1 \in 1..Len(queue') /\ queue'[i - 1] = queue[i]
    BY <1>1, <1>2
  <2> QED
    BY <2>1, <1>2
<1> QED
  BY <1>1, <1>2

-----------------------------------------------------------------------------
(* The steps.                                                              *)

\* The types of what is neither the batch nor the queue.
RestOK ==
    /\ high \in BOOLEAN /\ lacking \in BOOLEAN /\ inForce \in BOOLEAN /\ gap \in BOOLEAN
    /\ public \in Attributes /\ plan \in PlanAges /\ traced \in BOOLEAN
    /\ armed \subseteq {"debounced", "other"} /\ retryArmed \in BOOLEAN
    /\ awaited \in BOOLEAN /\ reading \in BOOLEAN /\ overdue \in BOOLEAN
    /\ events \in Nat /\ trouble \in Nat

LEMMA InvParts ==
    RiskInv <=> /\ RestOK /\ queue \in Seq(Waiters) /\ run \in Batch
                /\ CapturedNow /\ TrueOrComing
BY DEF RiskInv, RiskTypeOK, RestOK, Batch

LEMMA InvNext ==
    ASSUME RestOK', queue' \in Seq(Waiters), run' \in Batch, CapturedNow', TrueOrComing'
    PROVE  RiskInv'
BY DEF RiskInv, RiskTypeOK, RestOK, Batch

\* The live loop publishes the voltage of now.
LEMMA ServedNow ==
    ASSUME RiskInv, NEW who, Served(who), high' \in BOOLEAN
    PROVE  /\ public' \in Attributes /\ public'.emergency = Said(high')
           /\ inForce' \in BOOLEAN /\ awaited' \in BOOLEAN /\ retryArmed' \in BOOLEAN
           /\ armed' \subseteq {"debounced", "other"}
<1>1. RestOK
  BY InvParts
<1>2. public' \in Attributes /\ public'.emergency = Said(high')
  BY DEF Served, ObservedNow, Attributes, Said
<1>3. inForce \in BOOLEAN /\ Certified \in BOOLEAN
  BY <1>1 DEF RestOK, Certified
<1> QED
  BY <1>1, <1>2, <1>3 DEF Served, RestOK

LEMMA SensedStep ==
    ASSUME RiskInv, NEW who \in Live, Sensed(who),
           high' \in BOOLEAN, lacking' \in BOOLEAN, events' \in Nat
    PROVE  RiskInv'
<1> USE DEF recorder
<1>1. RestOK /\ queue \in Seq(Waiters) /\ run \in Batch /\ CapturedNow /\ TrueOrComing
  BY InvParts
<1>2. who \in Waiters
  BY DEF Live, Waiters
<1>3. CASE LockFree /\ Served(who) /\ UNCHANGED <<queue, run>>
  <2>1. RestOK'
    BY <1>1, <1>3, ServedNow DEF Sensed, RestOK
  <2>2. ~run.solving
    BY <1>1, <1>3 DEF LockFree, CapturedNow, Batch
  <2>3. CapturedNow' /\ TrueOrComing'
    BY <1>3, <2>2, ServedNow DEF CapturedNow, TrueOrComing
  <2> QED
    BY <1>1, <1>3, <2>1, <2>3, InvNext
<1>4. CASE Join(who, Measured) /\ UNCHANGED <<public, inForce, awaited, armed, retryArmed>>
  <2>1. RestOK'
    BY <1>1, <1>4 DEF Sensed, RestOK
  <2>2. run' = Measured /\ queue' = Append(queue, who)
    BY <1>4 DEF Join
  <2>3. run' \in Batch /\ CapturedNow'
    BY <1>1, <2>2, BusyType DEF CapturedNow, Measured, Batch
  <2>4. queue' \in Seq(Waiters) /\ TrueOrComing'
    BY <1>1, <1>2, <2>2, Joined DEF TrueOrComing
  <2> QED
    BY <2>1, <2>3, <2>4, InvNext
<1> QED
  BY <1>3, <1>4 DEF Sensed

LEMMA LiveStep == ASSUME RiskInv, LiveLoop PROVE RiskInv'
<1> USE DEF physical, Counted, CountedIf
<1>1. RestOK
  BY InvParts
<1>2. CASE Telemetry
  BY <1>1, <1>2, SensedStep DEF Telemetry, RestOK, Live
<1>3. CASE InputLost
  BY <1>1, <1>3, SensedStep DEF InputLost, RestOK, Live
<1>4. CASE InputBack
  BY <1>1, <1>4, SensedStep DEF InputBack, RestOK, Live
<1>5. CASE ControlTimer
  <2>1. events' \in Nat
    BY <1>1, <1>5 DEF ControlTimer, RestOK
  <2> QED
    BY <1>1, <1>5, <2>1, SensedStep DEF ControlTimer, RestOK, Live
<1> QED
  BY <1>2, <1>3, <1>4, <1>5 DEF LiveLoop

\* A full plan starts or waits; the voltage and what is published stay.
LEMMA EnterStep ==
    ASSUME RiskInv, RestOK', UNCHANGED <<high, public>>, NEW who \in Waiters,
           NEW busy \in {run, RevisionMoved}, Enter(who, busy)
    PROVE  RiskInv'
<1>1. queue \in Seq(Waiters) /\ run \in Batch /\ CapturedNow /\ TrueOrComing
  BY InvParts
<1>2. CASE LockFree /\ run' = Run(who, 1) /\ UNCHANGED queue
  <2>1. run' \in Batch /\ ~run'.solving
    BY <1>2, RunType DEF Attempts
  <2>2. CapturedNow' /\ TrueOrComing'
    BY <1>1, <1>2, <2>1 DEF CapturedNow, TrueOrComing
  <2> QED
    BY <1>1, <1>2, <2>1, <2>2, InvNext
<1>3. CASE Join(who, busy)
  <2>1. queue' = Append(queue, who) /\ run' = busy
    BY <1>3 DEF Join
  <2>2. /\ run' \in Batch /\ run'.solving = run.solving /\ run'.other = run.other
        /\ run'.high = run.high /\ run'.try = run.try
    BY <1>1, <2>1, BusyType DEF RevisionMoved, Batch
  <2>3. CapturedNow'
    BY <1>1, <2>2 DEF CapturedNow
  <2>4. queue' \in Seq(Waiters) /\ TrueOrComing'
    BY <1>1, <2>1, Joined DEF TrueOrComing
  <2> QED
    BY <2>2, <2>3, <2>4, InvNext
<1> QED
  BY <1>2, <1>3 DEF Enter

LEMMA StartsStep == ASSUME RiskInv, Starts PROVE RiskInv'
<1> USE DEF physical, recorder, Counted, CountedIf, Cancel, Withdraw
<1>1. RestOK /\ queue \in Seq(Waiters) /\ run \in Batch /\ CapturedNow /\ TrueOrComing
  BY InvParts
<1>2. CASE InputChanged
  <2>1. PICK debounce \in {"debounced", "other"} : armed' = armed \cup {debounce}
    BY <1>2 DEF InputChanged
  <2>2. armed' \subseteq {"debounced", "other"}
    BY <1>1, <2>1 DEF RestOK
  <2>3. /\ inForce' = FALSE /\ retryArmed' = FALSE /\ events' = events + 1
        /\ UNCHANGED <<high, lacking, public, gap, plan, traced, awaited, queue, reading,
                       overdue, trouble>>
    BY <1>2 DEF InputChanged
  <2>4. RestOK'
    <3>1. events \in Nat /\ events' = events + 1
      BY <1>1, <2>3 DEF RestOK
    <3>2. events' \in Nat
      BY <3>1
    <3> QED
      BY <1>1, <2>2, <2>3, <3>2 DEF RestOK
  <2>5. run' \in Batch /\ CapturedNow'
    BY <1>1, <1>2, BusyType DEF InputChanged, CapturedNow, RevisionMoved, Batch
  <2>6. queue' \in Seq(Waiters) /\ TrueOrComing'
    BY <1>1, <2>3 DEF TrueOrComing
  <2> QED
    BY <2>4, <2>5, <2>6, InvNext
<1>3. CASE DebounceFires
  <2>1. PICK debounce \in armed : armed' = armed \ {debounce} /\ Enter(debounce, run)
    BY <1>3 DEF DebounceFires
  <2>2. RestOK' /\ debounce \in Waiters
    BY <1>1, <1>3, <2>1 DEF DebounceFires, RestOK, Waiters
  <2> QED
    BY <1>3, <2>1, <2>2, EnterStep DEF DebounceFires
<1>4. CASE RetryFires
  <2>1. RestOK' /\ "retry" \in Waiters
    BY <1>1, <1>4 DEF RetryFires, RestOK, Waiters
  <2> QED
    BY <1>4, <2>1, EnterStep DEF RetryFires
<1>5. CASE FullPlanTimer
  <2>0. events' \in Nat
    BY <1>1, <1>5 DEF FullPlanTimer, RestOK
  <2>1. RestOK' /\ "other" \in Waiters
    BY <1>1, <1>5, <2>0 DEF FullPlanTimer, RestOK, Waiters
  <2> QED
    BY <1>5, <2>1, EnterStep DEF FullPlanTimer
<1>6. CASE HistoryTimer
  <2>1. RestOK'
    BY <1>1, <1>6 DEF HistoryTimer, RestOK
  <2>2. CapturedNow' /\ TrueOrComing'
    BY <1>1, <1>6 DEF HistoryTimer, CapturedNow, TrueOrComing
  <2> QED
    BY <1>1, <1>6, <2>1, <2>2, InvNext DEF HistoryTimer
<1>7. CASE HistoryRead
  <2>1. RestOK' /\ "other" \in Waiters
    BY <1>1, <1>7 DEF HistoryRead, RestOK, Waiters
  <2> QED
    BY <1>7, <2>1, EnterStep DEF HistoryRead
<1> QED
  BY <1>2, <1>3, <1>4, <1>5, <1>6, <1>7 DEF Starts

LEMMA TurnStep == ASSUME RiskInv, NextTurn PROVE RiskInv'
<1> USE DEF physical, recorder
<1>1. RestOK /\ queue \in Seq(Waiters) /\ run \in Batch /\ CapturedNow /\ TrueOrComing
  BY InvParts
<1>2. queue' \in Seq(Waiters) /\ Head(queue) \in Waiters
  BY <1>1, Taken DEF NextTurn
<1>3. ~run.solving
  BY <1>1 DEF NextTurn, CapturedNow, Batch
<1>4. CASE Head(queue) \in {"live", "back"}
  <2>1. Served(Head(queue)) /\ UNCHANGED <<high, lacking, run, gap, plan, traced, reading,
                                          overdue, events, trouble>>
    BY <1>4 DEF NextTurn
  <2>2. RestOK' /\ public'.emergency = Said(high')
    BY <1>1, <2>1, ServedNow DEF RestOK
  <2>3. CapturedNow' /\ TrueOrComing'
    BY <1>3, <2>1, <2>2 DEF CapturedNow, TrueOrComing
  <2> QED
    BY <1>1, <1>2, <2>1, <2>2, <2>3, InvNext
<1>5. CASE Head(queue) \notin {"live", "back"}
  <2>1. run' = Run(Head(queue), 1) /\ UNCHANGED <<high, public>> /\ RestOK'
    BY <1>1, <1>5 DEF NextTurn, RestOK
  <2>2. run' \in Batch /\ CapturedNow'
    BY <1>2, <2>1, RunType DEF CapturedNow, Attempts
  <2>3. TrueOrComing'
    BY <1>1, <1>5, <2>1, Taken DEF NextTurn, TrueOrComing, Live
  <2> QED
    BY <1>2, <2>1, <2>2, <2>3, InvNext
<1> QED
  BY <1>4, <1>5

-----------------------------------------------------------------------------
(* The batch.                                                              *)

\* An attempt ends: the batch goes on with another, or ends.
LEMMA Attempted ==
    ASSUME RiskInv,
           \/ run' = Run(run.by, run.try + 1) /\ run.try < Attempts
           \/ run' = NoRun
    PROVE  run' \in Batch /\ CapturedNow'
<1>1. run \in Batch
  BY InvParts
<1>2. CASE run' = NoRun
  <2>1. "other" \in Waiters /\ 0 \in 0..Attempts
    BY DEF Waiters, Attempts
  <2> QED
    BY <1>2, <2>1, RunType DEF NoRun, CapturedNow
<1>3. CASE run' = Run(run.by, run.try + 1) /\ run.try < Attempts
  <2>1. run.by \in Waiters /\ run.try + 1 \in 0..Attempts
    BY <1>1, <1>3 DEF Batch, Attempts
  <2> QED
    BY <1>3, <2>1, RunType DEF CapturedNow
<1> QED
  BY <1>2, <1>3

\* It ends with a result that says what the voltage is, or with none.
LEMMA ResultStep ==
    ASSUME RiskInv, RestOK', UNCHANGED queue,
           (run' = Run(run.by, run.try + 1) /\ run.try < Attempts) \/ run' = NoRun,
           \/ UNCHANGED <<high, public>>
           \/ public'.emergency \in {Said(high'), "unsaid"}
    PROVE  RiskInv'
<1>1. TrueOrComing /\ queue \in Seq(Waiters)
  BY InvParts
<1>2. TrueOrComing'
  BY <1>1 DEF TrueOrComing
<1> QED
  BY <1>1, <1>2, Attempted, InvNext

LEMMA AgainEnds ==
    ASSUME RestOK, NEW drifted \in BOOLEAN, NextAttempt(drifted)
    PROVE  /\ (run' = Run(run.by, run.try + 1) /\ run.try < Attempts) \/ run' = NoRun
           /\ awaited' \in BOOLEAN /\ retryArmed' \in BOOLEAN
BY DEF RestOK, NextAttempt, Unlocked

LEMMA CommitEnds ==
    ASSUME RestOK, Commit
    PROVE  /\ run' = NoRun /\ inForce' \in BOOLEAN /\ awaited' \in BOOLEAN
           /\ retryArmed' \in BOOLEAN
BY DEF RestOK, Commit, Unlocked

LEMMA KeepEnds ==
    ASSUME RestOK, Keep
    PROVE  /\ (run' = Run(run.by, run.try + 1) /\ run.try < Attempts) \/ run' = NoRun
           /\ inForce' \in BOOLEAN /\ awaited' \in BOOLEAN /\ retryArmed' \in BOOLEAN
           /\ UNCHANGED <<public, traced>>
BY AgainEnds DEF Keep

LEMMA ShowEnds ==
    ASSUME RestOK, NEW from \in {"missing", "error"}, NEW e \in {"no", "unsaid"},
           Show(from, e)
    PROVE  /\ run' = NoRun
           /\ inForce' \in BOOLEAN /\ awaited' \in BOOLEAN /\ retryArmed' \in BOOLEAN
           /\ public' \in Attributes /\ public'.emergency = e /\ traced' \in BOOLEAN
<1>1. public' \in Attributes /\ public'.emergency = e
  BY DEF Show, Attributes
<1> QED
  BY <1>1, CommitEnds DEF Show

\* What each step of a batch publishes.
LEMMA BatchShows ==
    ASSUME RiskInv, BatchStep
    PROVE  public' = public \/ public'.emergency \in {Said(high'), "unsaid"}
<1> USE DEF physical
<1>1. RestOK /\ run \in Batch /\ CapturedNow
  BY InvParts
<1>2. CASE InputsMissing
  <2>1. CASE Keep
    BY <2>1 DEF Keep
  <2>2. CASE Show("missing", "no")
    BY <1>2, <2>2 DEF InputsMissing, Show, Said
  <2> QED
    BY <1>2, <2>1, <2>2 DEF InputsMissing
<1>3. CASE Solve
  BY <1>3 DEF Solve
<1>4. CASE Rejected
  BY <1>4 DEF Rejected
<1>5. CASE Raised
  <2>1. CASE Keep
    BY <2>1 DEF Keep
  <2>2. CASE Show("error", "unsaid")
    BY <2>2 DEF Show
  <2> QED
    BY <1>5, <2>1, <2>2 DEF Raised
<1>6. CASE Published
  <2>1. run.high = high /\ high' = high
    BY <1>1, <1>6 DEF Published, Drifted, CapturedNow, Batch
  <2> QED
    BY <1>6, <2>1 DEF Published
<1> QED
  BY <1>2, <1>3, <1>4, <1>5, <1>6 DEF BatchStep

LEMMA BatchStays == ASSUME RiskInv, BatchStep PROVE RiskInv'
<1> USE DEF physical, recorder, Troubled
<1>1. RestOK /\ queue \in Seq(Waiters) /\ run \in Batch /\ CapturedNow /\ TrueOrComing
  BY InvParts
<1>2. CASE InputsMissing
  <2>1. CASE Keep
    <3>1. RestOK'
      BY <1>1, <1>2, <2>1, KeepEnds DEF InputsMissing, RestOK
    <3> QED
      BY <1>1, <1>2, <2>1, <3>1, KeepEnds, ResultStep DEF InputsMissing
  <2>2. CASE Show("missing", "no")
    <3>1. RestOK'
      BY <1>1, <1>2, <2>2, ShowEnds DEF InputsMissing, RestOK
    <3>2. public'.emergency \in {Said(high'), "unsaid"}
      BY <1>2, <2>2 DEF InputsMissing, Show, Said
    <3> QED
      BY <1>1, <1>2, <2>2, <3>1, <3>2, ShowEnds, ResultStep DEF InputsMissing
  <2> QED
    BY <1>2, <2>1, <2>2 DEF InputsMissing
<1>3. CASE Solve
  <2>1. RestOK' /\ queue' = queue /\ public' = public /\ high' = high
    BY <1>1, <1>3 DEF Solve, RestOK
  <2>2. run' \in Batch /\ run'.high = high /\ run'.try > 0
    BY <1>1, <1>3 DEF Solve, Starting, Batch, RestOK, Attempts
  <2>3. CapturedNow' /\ TrueOrComing'
    BY <1>1, <2>1, <2>2 DEF CapturedNow, TrueOrComing
  <2> QED
    BY <1>1, <2>1, <2>2, <2>3, InvNext
<1>4. CASE Rejected
  <2>1. /\ (run' = Run(run.by, run.try + 1) /\ run.try < Attempts) \/ run' = NoRun
        /\ awaited' \in BOOLEAN /\ retryArmed' \in BOOLEAN
    BY <1>1, <1>4, AgainEnds DEF Rejected
  <2>2. RestOK' /\ UNCHANGED <<high, public, queue>>
    BY <1>1, <1>4, <2>1 DEF Rejected, RestOK
  <2> QED
    BY <2>1, <2>2, ResultStep
<1>5. CASE Raised
  <2>0. trouble' \in Nat
    BY <1>1, <1>5 DEF Raised, RestOK
  <2>1. CASE Keep
    <3>1. RestOK'
      BY <1>1, <1>5, <2>0, <2>1, KeepEnds DEF Raised, RestOK
    <3> QED
      BY <1>1, <1>5, <2>1, <3>1, KeepEnds, ResultStep DEF Raised
  <2>2. CASE Show("error", "unsaid")
    <3>1. RestOK'
      BY <1>1, <1>5, <2>0, <2>2, ShowEnds DEF Raised, RestOK
    <3> QED
      BY <1>1, <1>5, <2>2, <3>1, ShowEnds, ResultStep DEF Raised
  <2> QED
    BY <1>5, <2>1, <2>2 DEF Raised
<1>6. CASE Published
  <2>0. trouble' \in Nat /\ traced' \in BOOLEAN
    <3>1. trouble \in Nat /\ trouble' \in {trouble, trouble + 1}
      BY <1>1, <1>6 DEF Published, RestOK
    <3>2. traced' \in BOOLEAN
      BY <1>6 DEF Published
    <3> QED
      BY <3>1, <3>2
  <2>1. /\ run' = NoRun /\ inForce' \in BOOLEAN /\ awaited' \in BOOLEAN
        /\ retryArmed' \in BOOLEAN
    BY <1>1, <1>6, CommitEnds DEF Published
  <2>2. run.high = high /\ high' = high /\ queue' = queue
    BY <1>1, <1>6 DEF Published, Drifted, CapturedNow, Batch
  <2>3. public' \in Attributes /\ public'.emergency = Said(high')
    BY <1>6, <2>2 DEF Published, Attributes, Said
  <2>4. RestOK'
    BY <1>1, <1>6, <2>0, <2>1, <2>3 DEF Published, RestOK, PlanAges
  <2> QED
    BY <2>1, <2>2, <2>3, <2>4, ResultStep
<1> QED
  BY <1>2, <1>3, <1>4, <1>5, <1>6 DEF BatchStep

-----------------------------------------------------------------------------
LEMMA RiskStart == RiskInit => RiskInv
<1> SUFFICES ASSUME RiskInit PROVE RiskInv
    OBVIOUS
<1>1. "other" \in Waiters /\ 1 \in 0..Attempts
  BY DEF Waiters, Attempts
<1>2. run \in Batch /\ ~run.solving
  BY <1>1, RunType DEF RiskInit
<1>3. public \in Attributes /\ queue \in Seq(Waiters)
  BY DEF RiskInit, Attributes
<1>4. RestOK
  BY <1>3 DEF RiskInit, RestOK, PlanAges
<1>5. CapturedNow /\ TrueOrComing
  BY <1>2 DEF RiskInit, CapturedNow, TrueOrComing
<1> QED
  BY <1>2, <1>3, <1>4, <1>5, InvParts

LEMMA RiskStep == RiskInv /\ [RiskNext]_riskVars => RiskInv'
<1> SUFFICES ASSUME RiskInv, [RiskNext]_riskVars PROVE RiskInv'
    OBVIOUS
<1>1. RestOK /\ queue \in Seq(Waiters) /\ run \in Batch /\ CapturedNow /\ TrueOrComing
  BY InvParts
<1>2. CASE Ageing
  <2>1. RestOK'
    BY <1>1, <1>2 DEF Ageing, RestOK, PlanAges, physical
  <2>2. CapturedNow' /\ TrueOrComing' /\ UNCHANGED <<queue, run>>
    BY <1>1, <1>2 DEF Ageing, CapturedNow, TrueOrComing, physical
  <2> QED
    BY <1>1, <2>1, <2>2, InvNext
<1>3. CASE UNCHANGED riskVars
  BY <1>3 DEF riskVars, RiskInv, RiskTypeOK, CapturedNow, TrueOrComing
<1> QED
  BY <1>2, <1>3, LiveStep, StartsStep, TurnStep, BatchStays DEF RiskNext

\* The types, and the two facts: what the solver captured, and that what is published
\* is true or will be corrected by a measurement that waits.
THEOREM RiskHolds == RiskSpec => []RiskInv
BY RiskStart, RiskStep, PTL DEF RiskSpec

\* When no task is left, the published emergency is that of the voltage of now.
THEOREM EmergencySeen == RiskSpec => []EmergencyIsSeen
<1>1. RiskInv => EmergencyIsSeen
  BY DEF RiskInv, RiskTypeOK, TrueOrComing, EmergencyIsSeen, LockFree
<1> QED
  BY <1>1, RiskHolds, PTL

\* And so is every emergency at the moment it is published, by the live loop or by a
\* full plan.
THEOREM EmergencyPresent == RiskSpec => EmergencyIsPresent
<1>1. ASSUME RiskInv, RiskNext
      PROVE  public' = public \/ public'.emergency \in {Said(high'), "unsaid"}
  <2>1. CASE LiveLoop
    <3>1. ASSUME NEW who, Sensed(who)
          PROVE  public' = public \/ public'.emergency = Said(high')
      BY <3>1 DEF Sensed, Served, ObservedNow
    <3> QED
      BY <2>1, <3>1 DEF LiveLoop, Telemetry, InputLost, InputBack, ControlTimer
  <2>2. CASE Starts
    BY <2>2 DEF Starts, InputChanged, DebounceFires, RetryFires, FullPlanTimer, HistoryTimer,
                HistoryRead
  <2>3. CASE NextTurn
    BY <2>3 DEF NextTurn, Served, ObservedNow
  <2>4. CASE Ageing
    BY <2>4 DEF Ageing
  <2> QED
    BY <1>1, <2>1, <2>2, <2>3, <2>4, BatchShows DEF RiskNext
<1>2. RiskInv /\ [RiskNext]_riskVars
      => [public' # public => public'.emergency \in {Said(high'), "unsaid"}]_riskVars
  BY <1>1 DEF riskVars
<1> QED
  BY <1>2, RiskHolds, PTL DEF RiskSpec, EmergencyIsPresent
=============================================================================
