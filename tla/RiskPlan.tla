------------------------------ MODULE RiskPlan ------------------------------
(***************************************************************************)
(* The voltage plan of RCEm (rcm_sensor.py): one entity with two writers.   *)
(* The full plan is solved in an executor, from forecasts, history and the  *)
(* live measurements, at most every ten minutes; the live loop, every 15 s  *)
(* and with every measurement, combines the last full plan with the         *)
(* measurements of now.  Both hold _optimizer_lock, so a measurement that   *)
(* comes while the solver runs waits for it.                                *)
(***************************************************************************)
EXTENDS Naturals, Sequences

CONSTANTS
    MaxQueue,       \* bound: tasks that wait for the lock
    MaxEvents,      \* bound: changes of inputs, and timers that meet a solver
    MaxTrouble      \* bound: exceptions of the solver, the timeline and the recorder

VARIABLES
    high,           \* a fresh phase has 253 V or more
    lacking,        \* a required input is missing
    inForce,        \* result_current, the negation of recalculation_pending
    public,         \* the other attributes: whose they are, and live_emergency
    gap,            \* missing_entities is not empty
    plan,           \* the age of _last_full_optimizer_result
    traced,         \* _timeline_trace
    armed,          \* the debounces of settings and of forecasts
    retryArmed,     \* _stale_result_retry_cancel
    awaited,        \* _required_input_recovery_pending
    queue,          \* who waits for _optimizer_lock
    run,            \* the batch of calculations that holds it
    reading,        \* _history_refresh_running
    overdue,        \* the history is nearly an hour old
    events, trouble
riskVars == <<high, lacking, inForce, public, gap, plan, traced, armed, retryArmed, awaited,
              queue, run, reading, overdue, events, trouble>>
physical == <<high, lacking>>
recorder == <<reading, overdue>>

Attempts == 3               \* MAX_IMMEDIATE_RECALCULATIONS
PlanAges == {"none", "recent", "late", "old"}   \* up to 600 s, 630 s, more
Waiters == {"debounced", "retry", "other", "live", "back"}
Run(by, try) == [by |-> by, try |-> try, solving |-> FALSE, moved |-> FALSE, other |-> FALSE,
                 high |-> FALSE]
NoRun == Run("other", 0)
Attributes == [from : {"start", "plan", "live", "no_plan", "missing", "error"},
               emergency : {"yes", "no", "unsaid"}]
Said(b) == IF b THEN "yes" ELSE "no"

RiskTypeOK ==
    /\ high \in BOOLEAN /\ lacking \in BOOLEAN /\ inForce \in BOOLEAN /\ gap \in BOOLEAN
    /\ public \in Attributes /\ plan \in PlanAges /\ traced \in BOOLEAN
    /\ armed \subseteq {"debounced", "other"} /\ retryArmed \in BOOLEAN /\ awaited \in BOOLEAN
    /\ queue \in Seq(Waiters)
    /\ run \in [by : Waiters, try : 0..Attempts, solving : BOOLEAN, moved : BOOLEAN,
                other : BOOLEAN, high : BOOLEAN]
    /\ reading \in BOOLEAN /\ overdue \in BOOLEAN /\ events \in Nat /\ trouble \in Nat

\* The warm-up has tried to read the history and starts the first batch.
RiskInit ==
    /\ high \in BOOLEAN /\ lacking \in BOOLEAN
    /\ inForce = FALSE /\ public = [from |-> "start", emergency |-> "unsaid"] /\ gap = FALSE
    /\ plan = "none" /\ traced = FALSE
    /\ armed = {} /\ retryArmed = FALSE /\ awaited = FALSE
    /\ queue = <<>> /\ run = Run("other", 1)
    /\ reading = FALSE /\ overdue = FALSE /\ events = 0 /\ trouble = 0

-----------------------------------------------------------------------------
\* Nothing is awaited between the lock and the solver.
Starting == run.try > 0 /\ ~run.solving
Waits == ~Starting
Counted == events < MaxEvents /\ events' = events + 1
CountedIf(meets) == IF meets THEN Counted ELSE UNCHANGED events
Troubled == trouble < MaxTrouble /\ trouble' = trouble + 1

LockFree == run.try = 0 /\ queue = <<>>
\* The revision moves on, or a measurement without one; a running solver will notice.
RevisionMoved == [run EXCEPT !.moved = run.solving]
Measured == [run EXCEPT !.other = run.solving]
Join(who, busy) ==
    /\ ~LockFree /\ Len(queue) < MaxQueue
    /\ queue' = Append(queue, who) /\ run' = busy
Enter(who, busy) ==
    \/ LockFree /\ run' = Run(who, 1) /\ UNCHANGED queue
    \/ Join(who, busy)
Withdraw == inForce' = FALSE /\ retryArmed' = FALSE

-----------------------------------------------------------------------------
(* The live loop: _async_live_control_refresh, with the lock.               *)
Certified == plan \in {"recent", "late"} /\ inForce
ObservedIfCertified ==  \* mutant: without a certified plan there is nothing to say
    public' = IF Certified THEN [from |-> "live", emergency |-> Said(high')] ELSE public
ObservedNow ==
    public' = [from |-> IF Certified THEN "live" ELSE "no_plan", emergency |-> Said(high')]

\* After it, if the event was of a source that the last full plan missed.
Recovers(who) == who = "back" /\ gap /\ ~awaited
Served(who) ==
    /\ ObservedNow
    /\ \/ /\ Recovers(who) /\ inForce' = FALSE /\ retryArmed' = FALSE
          /\ awaited' = TRUE /\ armed' = armed \cup {"debounced"}
       \/ ~Recovers(who) /\ inForce' = Certified /\ UNCHANGED <<awaited, armed, retryArmed>>
Sensed(who) ==
    \/ LockFree /\ Served(who) /\ UNCHANGED <<queue, run>>
    \/ Join(who, Measured) /\ UNCHANGED <<public, inForce, awaited, armed, retryArmed>>
    /\ UNCHANGED <<gap, plan, traced, recorder, trouble>>

\* A measurement, the loss and the return of a required one.
Telemetry ==
    /\ Waits /\ Counted /\ high' \in BOOLEAN
    /\ Sensed("live") /\ UNCHANGED lacking
InputLost ==
    /\ Waits /\ Counted /\ ~lacking /\ lacking' = TRUE
    /\ UNCHANGED high /\ Sensed("live")
InputBack ==
    /\ Waits /\ lacking /\ lacking' = FALSE
    /\ UNCHANGED <<high, events>> /\ Sensed("back")
\* Every 15 s; the sample it takes is a measurement of its own.
ControlTimer ==
    /\ Waits /\ CountedIf(~LockFree)
    /\ UNCHANGED physical /\ Sensed("live")

-----------------------------------------------------------------------------
(* What starts a full plan.                                                *)

\* A setting, or one field of a forecast, each with its debounce.
InputChanged ==
    /\ Waits /\ Counted
    /\ Withdraw /\ run' = RevisionMoved
    /\ \E debounce \in {"debounced", "other"} : armed' = armed \cup {debounce}
    /\ UNCHANGED <<physical, public, gap, plan, traced, awaited, queue, recorder, trouble>>
DebounceFires ==
    /\ Waits
    /\ \E debounce \in armed : armed' = armed \ {debounce} /\ Enter(debounce, run)
    /\ UNCHANGED <<physical, inForce, public, gap, plan, traced, retryArmed, awaited, recorder,
                   events, trouble>>
RetryFires ==
    /\ Waits /\ retryArmed /\ retryArmed' = FALSE
    /\ Enter("retry", run)
    /\ UNCHANGED <<physical, inForce, public, gap, plan, traced, armed, awaited, recorder,
                   events, trouble>>
\* _cancel_full_plan_recalculation
Cancel == armed' = {} /\ awaited' = FALSE /\ retryArmed' = FALSE
\* Every ten minutes, unless the history is read or about to be.
FullPlanTimer ==
    /\ Waits /\ ~reading /\ ~overdue /\ CountedIf(~LockFree)
    /\ Cancel /\ inForce' = FALSE /\ Enter("other", RevisionMoved)
    /\ UNCHANGED <<physical, public, gap, plan, traced, recorder, trouble>>
\* Every hour: the history first.
HistoryTimer ==
    /\ Waits /\ ~reading /\ reading' = TRUE
    /\ Cancel
    /\ UNCHANGED <<physical, inForce, public, gap, plan, traced, queue, run, overdue, events,
                   trouble>>
PlannedIfRead ==        \* mutant: a recorder that fails leaves the plan as it is
    /\ Waits /\ reading /\ reading' = FALSE
    /\ \/ overdue' = FALSE /\ inForce' = FALSE /\ Enter("other", RevisionMoved)
       \/ UNCHANGED <<overdue, inForce, queue, run>>
    /\ UNCHANGED <<physical, public, gap, plan, traced, armed, retryArmed, awaited, events,
                   trouble>>
\* The recorder answers or fails, and may always fail.
HistoryRead ==
    /\ Waits /\ reading /\ reading' = FALSE
    /\ overdue' \in {overdue, FALSE}
    /\ inForce' = FALSE /\ Enter("other", RevisionMoved)
    /\ UNCHANGED <<physical, public, gap, plan, traced, armed, retryArmed, awaited, events,
                   trouble>>

NextTurn ==
    /\ run.try = 0 /\ queue # <<>> /\ queue' = Tail(queue)
    /\ \/ /\ Head(queue) \in {"live", "back"}
          /\ UNCHANGED physical /\ Served(Head(queue)) /\ UNCHANGED run
       \/ /\ Head(queue) \notin {"live", "back"}
          /\ run' = Run(Head(queue), 1)
          /\ UNCHANGED <<physical, public, inForce, awaited, armed, retryArmed>>
    /\ UNCHANGED <<gap, plan, traced, recorder, events, trouble>>

\* Clocks: the age of the plan and that of the history.
Ageing ==
    /\ \/ plan = "recent" /\ plan' = "late" /\ UNCHANGED overdue
       \/ plan = "late" /\ plan' = "old" /\ UNCHANGED overdue
       \/ ~overdue /\ overdue' = TRUE /\ UNCHANGED plan
    /\ Waits
    /\ UNCHANGED <<physical, inForce, public, gap, traced, armed, retryArmed, awaited, queue,
                   run, reading, events, trouble>>

-----------------------------------------------------------------------------
(* A batch of full plans: _recalculate_and_write, _recalculate_locked.      *)
Unlocked == run' = NoRun /\ awaited' = (awaited /\ run.by # "debounced")
\* Only the last attempt says whether the inputs drifted.
NextAttempt(drifted) ==
    \/ /\ run.try < Attempts /\ run' = Run(run.by, run.try + 1)
       /\ UNCHANGED <<awaited, retryArmed>>
    \/ /\ run.try = Attempts /\ Unlocked
       /\ retryArmed' = (retryArmed \/ (drifted /\ run.by # "retry"))
Commit == inForce' = TRUE /\ retryArmed' = FALSE /\ Unlocked

\* _retain_last_complete_plan: for ten minutes, if its timeline was built.
Retained == traced /\ plan = "recent"
Keep ==
    /\ Retained /\ inForce' = FALSE /\ NextAttempt(FALSE)
    /\ UNCHANGED <<public, traced>>
Show(from, emergency) ==
    /\ ~Retained /\ traced' = FALSE
    /\ public' = [from |-> from, emergency |-> emergency] /\ Commit

\* A required input is missing, which an emergency does not wait for.
InputsMissing ==
    /\ Starting /\ lacking /\ ~high /\ gap' = TRUE
    /\ Keep \/ Show("missing", "no")
    /\ UNCHANGED <<physical, plan, armed, queue, recorder, events, trouble>>
Solve ==
    /\ Starting /\ (~lacking \/ high)
    /\ run' = [run EXCEPT !.solving = TRUE, !.high = high]
    /\ UNCHANGED <<physical, inForce, public, gap, plan, traced, armed, retryArmed, awaited,
                   queue, recorder, events, trouble>>
DriftedByRevision ==    \* mutant: measurements are not compared
    run.moved
Drifted == run.moved \/ run.other
Rejected ==
    /\ run.solving /\ Drifted /\ inForce' = FALSE /\ NextAttempt(TRUE)
    /\ UNCHANGED <<physical, public, gap, plan, traced, armed, queue, recorder, events, trouble>>
Raised ==
    /\ run.solving /\ ~Drifted /\ Troubled /\ gap' = FALSE
    /\ Keep \/ Show("error", "unsaid")
    /\ UNCHANGED <<physical, plan, armed, queue, recorder, events>>
\* Its timeline may fail without it.
Published ==
    /\ run.solving /\ ~Drifted
    /\ plan' = "recent" /\ gap' = FALSE
    /\ public' = [from |-> "plan", emergency |-> Said(run.high)] /\ Commit
    /\ \/ traced' = TRUE /\ UNCHANGED trouble
       \/ traced' = FALSE /\ Troubled
    /\ UNCHANGED <<physical, armed, queue, recorder, events>>

LiveLoop == Telemetry \/ InputLost \/ InputBack \/ ControlTimer
Starts == InputChanged \/ DebounceFires \/ RetryFires \/ FullPlanTimer \/ HistoryTimer
          \/ HistoryRead
BatchStep == InputsMissing \/ Solve \/ Rejected \/ Raised \/ Published
RiskNext == LiveLoop \/ Starts \/ NextTurn \/ Ageing \/ BatchStep
RiskSpec == RiskInit /\ [][RiskNext]_riskVars

\* The hourly timer, the order of the lock, a solver that ends and a recorder that
\* answers or fails.
RiskFairness ==
    /\ WF_riskVars(HistoryTimer) /\ SF_riskVars(HistoryRead)
    /\ WF_riskVars(NextTurn) /\ WF_riskVars(BatchStep)
FairRiskSpec == RiskSpec /\ RiskFairness

-----------------------------------------------------------------------------
(* Whichever of the two publishes, the emergency it publishes is that of    *)
(* the voltage now and not of the voltage the solver was given.             *)
EmergencyIsPresent ==
    [][public' # public => public'.emergency \in {Said(high'), "unsaid"}]_riskVars

(* When no task is left, what is published of the emergency is true: no      *)
(* measurement is lost because it came under the solver, without a plan in  *)
(* force or while the other inputs were missing.                           *)
EmergencyIsSeen == LockFree => public.emergency \in {Said(high), "unsaid"}

(* A plan that was withdrawn or is too old is replaced, unless required     *)
(* inputs are missing, also if the recorder never answers again.            *)
Withheld == ~(inForce /\ plan = "recent") /\ ~lacking
PlanRenewed == []<>~Withheld
=============================================================================
