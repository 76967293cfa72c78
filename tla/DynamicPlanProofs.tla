--------------------------- MODULE DynamicPlanProofs ---------------------------
(***************************************************************************)
(* That the Supervisor never acts on a Pstryk plan of other prices, another *)
(* profile or other options than those in force, for every set of options   *)
(* and operators and however often anything happens.                        *)
(*                                                                         *)
(* The argument: a plan that is shown as current was made of what is in     *)
(* force, because whatever changes the profile, the prices or the options   *)
(* of an active profile withdraws both plans in the same step.              *)
(*                                                                         *)
(* And that a restart goes on with the profile of that plan: there are      *)
(* prices only of a profile that is in the Store, because a change of       *)
(* profile drops them and they are fetched after a save.  Whether a save    *)
(* that is over was of the profile of now is known by the epochs, which     *)
(* grow with every change and tell the profiles apart.                      *)
(***************************************************************************)
EXTENDS DynamicPlan, TLAPS

\* A state of a sensor has the fields a plan has.
Plan(p) == [by |-> p.by, src |-> p.src, plan |-> p.plan, current |-> p.current]
ShownInv == shown = [s \in Sensors |-> Plan(shown[s])]

\* What is shown as current is in force.
InForce(p) ==
    p.by = "pstryk" /\ p.current =>
        profile.mode = "pstryk" /\ cache # Nothing /\ p.src = Source
CurrentInv == \A s \in Sensors : InForce(shown[s])

\* So is the second half of a publication.
SecondInv ==
    calc.at = "second" =>
        /\ calc.sensor \in Sensors
        /\ calc.plan = Plan(calc.plan)
        /\ profile.mode = "pstryk" /\ cache # Nothing /\ calc.plan.src = Source

IInv == ShownInv /\ CurrentInv /\ SecondInv

\* The initial state shows no plan.
LEMMA PairInit == PlanInit => IInv
<1> SUFFICES ASSUME PlanInit PROVE IInv
    OBVIOUS
<1>1. ShownInv
  BY DEF PlanInit, ShownInv, Plan, NoPlan
<1>2. CurrentInv
  BY DEF PlanInit, CurrentInv, InForce, NoPlan, Sensors
<1>3. SecondInv
  BY DEF PlanInit, SecondInv, Idle
<1> QED
  BY <1>1, <1>2, <1>3 DEF IInv

-----------------------------------------------------------------------------
(* How a step may treat the plans.                                         *)

\* invalidate leaves no plan current, whatever else changes.
LEMMA WithdrawnKept ==
    ASSUME ShownInv, shown' = Withdrawn, calc'.at # "second"
    PROVE  IInv'
<1>1. \A s \in Sensors : shown'[s] = [Plan(shown[s]) EXCEPT !.current = FALSE]
  BY DEF ShownInv, Withdrawn, Plan
<1>2. ShownInv'
  BY <1>1 DEF ShownInv, Withdrawn, Plan
<1>3. CurrentInv'
  BY <1>1 DEF CurrentInv, InForce, Plan
<1>4. SecondInv'
  BY DEF SecondInv
<1> QED
  BY <1>2, <1>3, <1>4 DEF IInv

\* A step that leaves the plans alone leaves what they were made of alone, too.
LEMMA ShownKept ==
    ASSUME IInv, UNCHANGED <<shown, profile, cache, options>>, calc'.at # "second"
    PROVE  IInv'
<1>1. ShownInv'
  BY DEF IInv, ShownInv, Plan
<1>2. CurrentInv'
  BY DEF IInv, CurrentInv, InForce, Source
<1>3. SecondInv'
  BY DEF SecondInv
<1> QED
  BY <1>1, <1>2, <1>3 DEF IInv

\* One plan may be replaced by one that is in force, or is not Pstryk's.
LEMMA OneShown ==
    ASSUME IInv, NEW s \in Sensors, NEW p, p = Plan(p), InForce(p),
           shown' = [shown EXCEPT ![s] = p],
           UNCHANGED <<profile, cache, options>>,
           calc'.at = "second" => SecondInv'
    PROVE  IInv'
<1>1. \A q \in Sensors : shown'[q] = IF q = s THEN p ELSE shown[q]
  BY DEF IInv, ShownInv
<1>2. \A q \in Sensors : shown'[q] = Plan(shown'[q])
  BY <1>1 DEF IInv, ShownInv
<1>3. shown' = [q \in Sensors |-> shown'[q]]
  BY DEF IInv, ShownInv
<1>4. ShownInv'
  BY <1>2, <1>3 DEF ShownInv, Plan
<1>5. CurrentInv'
  BY <1>1 DEF IInv, CurrentInv, InForce, Source
<1>6. SecondInv'
  BY DEF SecondInv
<1> QED
  BY <1>4, <1>5, <1>6 DEF IInv

\* A plan is withdrawn from one sensor: it becomes one that is not current.
LEMMA OneWithdrawn ==
    ASSUME IInv, NEW s \in Sensors, shown' = [shown EXCEPT ![s].current = FALSE],
           UNCHANGED <<profile, cache, options>>, calc'.at # "second"
    PROVE  IInv'
<1> DEFINE p == [by |-> shown[s].by, src |-> shown[s].src, plan |-> shown[s].plan,
                 current |-> FALSE]
<1>1. shown[s] = Plan(shown[s])
  BY DEF IInv, ShownInv
<1>2. [shown[s] EXCEPT !.current = FALSE] = p
  <2> DEFINE q == shown[s]
  <2>0. ASSUME NEW v
        PROVE  [Plan(q) EXCEPT !.current = v]
                 = [by |-> q.by, src |-> q.src, plan |-> q.plan, current |-> v]
    BY SMT DEF Plan
  <2>1. [Plan(q) EXCEPT !.current = FALSE] = p
    BY <2>0, Zenon
  <2>2. Plan(q) = q
    BY <1>1
  <2> HIDE DEF q
  <2>3. [q EXCEPT !.current = FALSE] = p
    BY <2>1, <2>2
  <2> QED
    BY <2>3 DEF q
<1>5. shown' = [shown EXCEPT ![s] = p]
  BY <1>2
<1>3. p = Plan(p)
  BY DEF Plan
<1>4. InForce(p)
  BY DEF InForce
<1> HIDE DEF p
<1> QED
  BY <1>3, <1>4, <1>5, OneShown
-----------------------------------------------------------------------------
(* The steps.                                                              *)

\* What the plans are made of and the plans themselves are left alone by a step
\* that does not concern them, and the publication is not begun by it.
Bystander == UNCHANGED <<shown, profile, cache, options>> /\ calc'.at # "second"

\* The user's acts withdraw the plans of an active profile.
LEMMA OutsideStep == ASSUME IInv, Outside PROVE IInv'
<1>1. CASE EditSale
  <2>1. calc'.at # "second" /\ UNCHANGED <<profile, cache, options>>
    BY <1>1 DEF EditSale, Acts, Quiet, Changed, bounds, saving
  <2>2. shown' = Withdrawn \/ shown' = shown
    BY <1>1 DEF EditSale, Invalidate, KeepPlan
  <2> QED
    BY <2>1, <2>2, WithdrawnKept, ShownKept DEF IInv
<1>2. CASE EditBuy
  <2>1. calc'.at # "second" /\ UNCHANGED <<profile, cache, options>>
    BY <1>2 DEF EditBuy, Acts, Quiet, Changed, bounds, saving
  <2>2. shown' = Withdrawn \/ shown' = [shown EXCEPT !["tariff"].current = FALSE]
    BY <1>2 DEF EditBuy, TariffHears, Invalidate
  <2>3. "tariff" \in Sensors
    BY DEF Sensors
  <2> QED
    BY <2>1, <2>2, <2>3, WithdrawnKept, OneWithdrawn DEF IInv
<1>3. CASE EditOptions
  <2>1. calc'.at # "second" /\ UNCHANGED <<profile, cache>>
    BY <1>3 DEF EditOptions, Acts, Quiet, bounds
  <2>2. CASE Active
    BY <1>3, <2>1, <2>2, WithdrawnKept DEF EditOptions, Invalidate, IInv
  <2>3. CASE ~Active
    <3>1. profile.mode # "pstryk" /\ shown' = shown
      BY <1>3, <2>3 DEF EditOptions, Active, KeepPlan
    <3>2. \A s \in Sensors : ~(shown[s].by = "pstryk" /\ shown[s].current)
      BY <3>1 DEF IInv, CurrentInv, InForce
    <3>3. CurrentInv'
      BY <3>1, <3>2 DEF CurrentInv, InForce
    <3> QED
      BY <2>1, <3>1, <3>3 DEF IInv, ShownInv, SecondInv, Plan
  <2> QED
    BY <2>2, <2>3
<1>4. CASE Publish
  BY <1>4, ShownKept DEF Publish, Quiet, settings
<1>5. CASE PlanRestart
  <2>1. calc' = Idle /\ shown' = [s \in Sensors |-> NoPlan]
    BY <1>5 DEF PlanRestart
  <2>2. ShownInv'
    BY <2>1 DEF ShownInv, Plan, NoPlan
  <2>3. CurrentInv'
    BY <2>1 DEF CurrentInv, InForce, NoPlan, Sensors
  <2>4. SecondInv'
    BY <2>1 DEF SecondInv, Idle
  <2> QED
    BY <2>2, <2>3, <2>4 DEF IInv
<1> QED
  BY <1>1, <1>2, <1>3, <1>4, <1>5 DEF Outside

\* Saving does not touch the plans; a selection withdraws them when it changes the
\* profile.
LEMMA SelectionStep == ASSUME IInv, SaveStarts \/ BackoffOver \/ Selection PROVE IInv'
<1>1. CASE SaveStarts
  BY <1>1, ShownKept DEF SaveStarts, Begins, Quiet, settings
<1>2. CASE BackoffOver
  BY <1>2, ShownKept DEF BackoffOver, Quiet, settings
<1>3. CASE SelectRefused
  BY <1>3, WithdrawnKept DEF SelectRefused, Invalidate, Quiet, IInv
<1>4. CASE Select
  <2>1. calc'.at # "second" /\ options' = options
    BY <1>4 DEF Select, Quiet, settings
  <2>2. CASE profile' # profile
    BY <1>4, <2>1, <2>2, WithdrawnKept DEF Select, Invalidate, IInv
  <2>3. CASE profile' = profile
    BY <1>4, <2>1, <2>3, ShownKept DEF Select, KeepPlan
  <2> QED
    BY <2>2, <2>3
<1>5. CASE SelectSaved
  BY <1>5, ShownKept DEF SelectSaved, Done, Quiet, settings
<1>6. CASE SelectNotSaved
  BY <1>6, WithdrawnKept DEF SelectNotSaved, Failed, Invalidate, Quiet, IInv
<1>7. CASE SetSale
  BY <1>7, ShownKept DEF SetSale, Quiet
<1>8. CASE SetBuy
  <2>1. calc'.at # "second" /\ UNCHANGED <<profile, cache, options>>
    BY <1>8 DEF SetBuy, Quiet
  <2>2. \/ shown' = Withdrawn \/ shown' = shown
        \/ shown' = [shown EXCEPT !["tariff"].current = FALSE]
    BY <1>8 DEF SetBuy, TariffHears, Invalidate, KeepPlan
  <2>3. "tariff" \in Sensors
    BY DEF Sensors
  <2> QED
    BY <2>1, <2>2, <2>3, WithdrawnKept, ShownKept, OneWithdrawn DEF IInv
<1> QED
  BY <1>1, <1>2, <1>3, <1>4, <1>5, <1>6, <1>7, <1>8 DEF Selection

\* New prices withdraw the plans.
LEMMA RefreshingStep == ASSUME IInv, Refreshing PROVE IInv'
<1>1. CASE Refresh
  BY <1>1, ShownKept DEF Refresh, Quiet, settings
<1>2. CASE Refreshed
  BY <1>2, ShownKept DEF Refreshed, Done, Quiet, settings
<1>3. CASE NotRefreshed
  BY <1>3, WithdrawnKept DEF NotRefreshed, Failed, Invalidate, Quiet, IInv
<1>4. CASE FetchMarked
  BY <1>4, ShownKept DEF FetchMarked, Done, Quiet, settings
<1>5. CASE Fetched
  <2>1. calc'.at # "second" /\ UNCHANGED <<profile, options>>
    BY <1>5 DEF Fetched, Quiet, settings
  <2>2. shown' = Withdrawn \/ UNCHANGED <<shown, cache>>
    BY <1>5 DEF Fetched, Invalidate, KeepPlan
  <2> QED
    BY <2>1, <2>2, WithdrawnKept, ShownKept DEF IInv
<1>6. CASE NotFetched
  BY <1>6, ShownKept DEF NotFetched, Quiet, settings
<1>7. CASE FetchKept
  BY <1>7, ShownKept DEF FetchKept, Done, Quiet, settings
<1> QED
  BY <1>1, <1>2, <1>3, <1>4, <1>5, <1>6, <1>7 DEF Refreshing

\* A plan is shown only when what it was made of is in force.
LEMMA PlanningStep == ASSUME IInv, Planning PROVE IInv'
<1>1. CASE Calculate
  <2>1. calc'.at # "second" /\ UNCHANGED <<profile, cache, options>>
    BY <1>1 DEF Calculate, CalcLeaves, settings, GiveUp, Idle
  <2>2. shown' = Withdrawn \/ shown' = shown
    BY <1>1 DEF Calculate, GiveUp, Invalidate, KeepPlan
  <2> QED
    BY <2>1, <2>2, WithdrawnKept, ShownKept DEF IInv
<1>2. CASE CalcSaved
  <2>1. calc'.at # "second" /\ UNCHANGED <<profile, cache, options>>
    BY <1>2 DEF CalcSaved, CalcLeaves, settings, GiveUp, Idle
  <2>2. shown' = Withdrawn \/ shown' = shown
    BY <1>2 DEF CalcSaved, GiveUp, Invalidate, KeepPlan
  <2> QED
    BY <2>1, <2>2, WithdrawnKept, ShownKept DEF IInv
<1>3. CASE CalcNotSaved
  BY <1>3, WithdrawnKept DEF CalcNotSaved, GiveUp, Invalidate, Idle, IInv
<1>4. CASE Solved
  <2>1. calc'.at # "second" /\ UNCHANGED <<profile, cache, options>>
    BY <1>4 DEF Solved, CalcLeaves, settings, GiveUp, Again, Idle
  <2>2. shown' = Withdrawn \/ shown' = shown
    BY <1>4 DEF Solved, GiveUp, Again, Invalidate, KeepPlan
  <2> QED
    BY <2>1, <2>2, WithdrawnKept, ShownKept DEF IInv
<1>5. CASE Answered
  <2>1. UNCHANGED <<profile, cache, options>>
    BY <1>5 DEF Answered, CalcLeaves, settings
  <2>2. CASE Abandoned \/ ~InputReady \/ Moved
    <3>1. calc'.at # "second"
      BY <1>5, <2>2 DEF Answered, GiveUp, Again, Idle
    <3>2. shown' = Withdrawn \/ shown' = shown
      BY <1>5, <2>2 DEF Answered, GiveUp, Again, Invalidate, KeepPlan
    <3> QED
      BY <2>1, <3>1, <3>2, WithdrawnKept, ShownKept DEF IInv
  <2>3. CASE ~(Abandoned \/ ~InputReady \/ Moved)
    <3>1. profile.mode = "pstryk" /\ cache # Nothing /\ calc.src = Source
      BY <2>3 DEF InputReady, Moved
    <3> DEFINE new == PlanOf(calc.src)
    <3>2. PICK s \in Sensors :
            /\ shown' = [shown EXCEPT ![s] = new]
            /\ calc' = [at |-> "second", sensor |-> Other(s), plan |-> new]
      BY <1>5, <2>3 DEF Answered
    <3>3. new = Plan(new) /\ new.src = calc.src
      BY DEF Plan, PlanOf
    <3>4. InForce(new)
      BY <3>1, <3>3 DEF InForce
    <3> HIDE DEF new
    <3>5. calc'.sensor \in Sensors /\ calc'.plan = new
      BY <3>2 DEF Other, Sensors
    <3>6. calc'.plan = Plan(calc'.plan) /\ calc'.plan.src = Source
      BY <3>1, <3>3, <3>5 DEF Plan
    <3>7. SecondInv'
      BY <2>1, <3>1, <3>5, <3>6 DEF SecondInv, Source, Plan
    <3> QED
      BY <2>1, <3>2, <3>3, <3>4, <3>7, OneShown
  <2> QED
    BY <2>2, <2>3
<1>6. CASE PublishSecond
  <2>1. /\ calc'.at # "second" /\ UNCHANGED <<profile, cache, options>>
        /\ shown' = [shown EXCEPT ![calc.sensor] = calc.plan]
    BY <1>6 DEF PublishSecond, CalcLeaves, settings, Idle
  <2>2. calc.sensor \in Sensors /\ calc.plan = Plan(calc.plan) /\ InForce(calc.plan)
    BY <1>6 DEF PublishSecond, IInv, SecondInv, InForce
  <2> QED
    BY <2>1, <2>2, OneShown
<1>7. CASE Age
  BY <1>7, ShownKept DEF Age, CalcLeaves, KeepPlan, Quiet, settings
<1> QED
  BY <1>1, <1>2, <1>3, <1>4, <1>5, <1>6, <1>7 DEF Planning

\* The classic planners show plans of their own.
LEMMA ClassicStep ==
    ASSUME IInv, NEW s \in Sensors, ClassicStart(s) \/ ClassicShown(s) \/ ClassicRejected(s)
    PROVE  IInv'
<1>1. CASE ClassicStart(s)
  BY <1>1, ShownKept DEF ClassicStart, Quiet, settings
<1>2. CASE ClassicShown(s)
  <2>1. /\ calc'.at # "second" /\ UNCHANGED <<profile, cache, options>>
        /\ shown' = [shown EXCEPT ![s] = ClassicPlan]
    BY <1>2 DEF ClassicShown, Quiet, settings
  <2>2. ClassicPlan = Plan(ClassicPlan) /\ InForce(ClassicPlan)
    BY DEF ClassicPlan, Plan, InForce
  <2> QED
    BY <2>1, <2>2, OneShown
<1>3. CASE ClassicRejected(s)
  <2>1. calc'.at # "second" /\ UNCHANGED <<profile, cache, options>>
    BY <1>3 DEF ClassicRejected, Quiet, settings
  <2>2. shown' = Withdrawn \/ shown' = [shown EXCEPT ![s].current = FALSE]
    BY <1>3 DEF ClassicRejected, Invalidate
  <2> QED
    BY <2>1, <2>2, WithdrawnKept, OneWithdrawn DEF IInv
<1> QED
  BY <1>1, <1>2, <1>3

\* The invariant is kept by every step.
LEMMA PairStep == IInv /\ [PlanNext]_planVars => IInv'
<1> SUFFICES ASSUME IInv, [PlanNext]_planVars PROVE IInv'
    OBVIOUS
<1>1. CASE UNCHANGED planVars
  BY <1>1 DEF planVars, settings, IInv, ShownInv, CurrentInv, SecondInv, InForce, Source, Plan
<1>2. CASE PlanNext
  BY <1>2, OutsideStep, SelectionStep, RefreshingStep, PlanningStep, ClassicStep DEF PlanNext
<1> QED
  BY <1>1, <1>2

\* The invariant says of the plans in force what the property says.
LEMMA PairImplied == IInv => PairInForce
BY DEF IInv, CurrentInv, InForce, PairInForce, GateOpen, Involved

\* Whenever the gate of the Supervisor is open on Pstryk plans, both are made of the
\* profile, the prices and the options of that moment (paired_plan_current).
THEOREM OnePlanInForce == PlanSpec => []PairInForce
BY PairInit, PairStep, PairImplied, PTL DEF PlanSpec

-----------------------------------------------------------------------------
(* The profile of the plan in force is in the Store.                       *)

DataTypes ==
    /\ buy \in Operators \cup {"Pstryk"} /\ market \in Prices
    /\ profile \in Profiles /\ cache \in Prices \cup {Nothing}
    /\ inStore \in Data \cup {Nothing}
    /\ store # Nothing => store.data \in Data

\* A profile of before, or the one of now.
Behind(p) == p.epoch <= profile.epoch /\ (p.epoch = profile.epoch => p = profile)
OrderInv ==
    /\ inStore # Nothing => Behind(inStore.profile)
    /\ store # Nothing => Behind(store.data.profile)
    /\ store # Nothing /\ inStore # Nothing =>
          inStore.profile.epoch <= store.data.profile.epoch

Saved == inStore # Nothing /\ inStore.profile = profile

\* A request is made for a profile that was saved; and so were the prices it brought.
RefreshInv ==
    refresh.at \in {"mark", "ask", "keep"} =>
        /\ refresh = [at |-> refresh.at, epoch |-> refresh.epoch]
        /\ refresh.epoch \in Nat /\ refresh.epoch <= profile.epoch
        /\ refresh.at = "mark" /\ store # Nothing /\ store.who = "refresh" =>
              refresh.epoch <= store.data.profile.epoch
        /\ refresh.at = "ask" /\ refresh.epoch = profile.epoch => Saved
CacheInv == cache # Nothing => Saved
DataInv == DataTypes /\ OrderInv /\ RefreshInv /\ CacheInv

\* A profile has the fields of one; a selection changes it by an epoch, or not at all.
LEMMA ProfileFields ==
    ASSUME NEW p \in Profiles
    PROVE  /\ p.epoch \in Nat /\ p.classic \in Operators \cup {Nothing}
           /\ p.mode \in {"classic", "pstryk"}
           /\ p = [mode |-> p.mode, classic |-> p.classic, epoch |-> p.epoch]
BY DEF Profiles, Epochs

LEMMA SelectedNext ==
    ASSUME DataTypes, NEW which
    PROVE  LET p == Selected(which)
           IN  p \in Profiles /\ (p = profile \/ p.epoch > profile.epoch)
<1> DEFINE Grown(p, q) == q \in Profiles /\ (q = p \/ q.epoch > p.epoch)
<1>0. profile \in Profiles /\ (buy # "Pstryk" => buy \in Operators)
  BY DEF DataTypes
<1>1. ASSUME NEW p \in Profiles, buy # "Pstryk" PROVE Grown(p, SelectClassic(p, buy))
  BY <1>0, <1>1, ProfileFields DEF ChangedTo, SelectClassic, Profiles, Epochs
<1>2. ASSUME NEW p \in Profiles PROVE Grown(p, SelectPstryk(p))
  BY <1>2, ProfileFields DEF ChangedTo, SelectPstryk, Profiles, Epochs
<1>3. ASSUME NEW p \in Profiles PROVE Grown(p, SelectRce(p))
  BY <1>0, <1>3, ProfileFields DEF ChangedTo, SelectRce, Profiles, Epochs
<1>4. \A p, q, r \in Profiles : Grown(p, q) /\ Grown(q, r) => Grown(p, r)
  BY ProfileFields
<1> HIDE DEF Grown
<1>5. \A p, q : Grown(p, q) => q \in Profiles
  BY DEF Grown
<1>6. Grown(profile, profile)
  BY <1>0 DEF Grown
<1>7. CASE WantsRce(which)
  BY <1>0, <1>3, <1>7 DEF Selected, Grown
<1>8. CASE ~WantsRce(which) /\ "Pstryk" \in {sale, buy}
  <2> DEFINE q == IF profile.mode = "classic" /\ buy # "Pstryk"
                  THEN SelectClassic(profile, buy) ELSE profile
  <2>1. Grown(profile, q)
    BY <1>0, <1>1, <1>6
  <2> HIDE DEF q
  <2>2. Grown(profile, SelectPstryk(q))
    BY <1>0, <1>2, <1>4, <1>5, <2>1
  <2>3. Selected(which) = SelectPstryk(q)
    BY <1>8 DEF Selected, q
  <2> QED
    BY <2>2, <2>3 DEF Grown
<1>9. CASE ~WantsRce(which) /\ ~("Pstryk" \in {sale, buy})
  <2>1. Grown(profile, Selected(which))
    BY <1>0, <1>1, <1>6, <1>9 DEF Selected
  <2> QED
    BY <2>1 DEF Grown
<1> QED
  BY <1>7, <1>8, <1>9

\* What is saved is a ledger, which is not Nothing.
LEMMA ToSaveType ==
    ASSUME DataTypes
    PROVE  ToSave \in Data /\ ToSave # Nothing /\ ToSave.profile = profile
BY PlanAssumption DEF DataTypes, ToSave, Data

\* A step that leaves the data and the saves alone keeps the invariant; so does one
\* of the request that does not turn to ask.
DataKept == UNCHANGED <<profile, cache, inStore, store>> /\ DataTypes'
LEMMA DataStays ==
    ASSUME DataInv, DataKept,
           refresh' = refresh \/ refresh'.at \in {"idle", "save"}
              \/ (refresh.at = "ask" /\ refresh' = [refresh EXCEPT !.at = "keep"])
    PROVE  DataInv'
<1>1. OrderInv' /\ CacheInv'
  BY DEF DataKept, DataInv, OrderInv, CacheInv, Behind, Saved
<1>2. CASE refresh' = refresh
  BY <1>1, <1>2 DEF DataKept, DataInv, RefreshInv, Saved
<1>3. CASE refresh'.at \in {"idle", "save"}
  BY <1>1, <1>3 DEF DataKept, DataInv, RefreshInv
<1>4. CASE refresh.at = "ask" /\ refresh' = [refresh EXCEPT !.at = "keep"]
  <2>1. refresh' = [at |-> "keep", epoch |-> refresh.epoch]
    BY <1>4 DEF DataInv, RefreshInv
  <2> QED
    BY <1>1, <1>4, <2>1 DEF DataKept, DataInv, RefreshInv
<1> QED
  BY <1>2, <1>3, <1>4

\* A save begins with what there is now.
LEMMA BeginsKeeps == ASSUME DataInv, NEW who, Begins(who) PROVE DataInv'
<1>1. /\ store = Nothing /\ store' = [who |-> who, data |-> ToSave]
      /\ UNCHANGED <<buy, market, profile, cache, inStore, refresh>>
  BY DEF Begins, settings
<1>2. store'.data \in Data /\ store'.data.profile = profile /\ store'.who = who
  BY <1>1, ToSaveType DEF DataInv
<1>3. profile.epoch \in Nat
  BY ProfileFields DEF DataInv, DataTypes
<1>4. DataTypes'
  BY <1>1, <1>2 DEF DataInv, DataTypes
<1>5. OrderInv'
  BY <1>1, <1>2, <1>3 DEF DataInv, OrderInv, Behind
<1>6. RefreshInv' /\ CacheInv'
  BY <1>1, <1>2 DEF DataInv, RefreshInv, CacheInv, Saved
<1> QED
  BY <1>4, <1>5, <1>6 DEF DataInv

\* A save that is over, well or not, leaves the profile of now in the Store if it was
\* there.
Over == \/ UNCHANGED <<inStore, store>>
        \/ store' = Nothing /\ inStore' = inStore
        \/ store # Nothing /\ store' = Nothing /\ inStore' = store.data
LEMMA OverKeeps ==
    ASSUME DataInv, Over, UNCHANGED <<buy, market, profile, cache>>
    PROVE  DataTypes' /\ OrderInv' /\ CacheInv' /\ (Saved => Saved')
<1>1. inStore' = inStore \/ (store # Nothing /\ inStore' = store.data)
  BY DEF Over
<1>2. store' = store \/ store' = Nothing
  BY DEF Over
<1>3. profile.epoch \in Nat /\ \A d \in Data : d.profile.epoch \in Nat /\ d # Nothing
  BY ProfileFields, PlanAssumption DEF DataInv, DataTypes, Data
<1>4. DataTypes'
  BY <1>1, <1>2 DEF DataInv, DataTypes
<1>5. OrderInv'
  BY <1>1, <1>2, <1>3 DEF Over, DataInv, DataTypes, OrderInv, Behind
<1>6. Saved => Saved'
  BY <1>1, <1>3 DEF DataInv, DataTypes, OrderInv, Behind, Saved
<1> QED
  BY <1>4, <1>5, <1>6 DEF DataInv, CacheInv

LEMMA DoneIsOver == \A who : Done(who) \/ Failed(who) => Over
BY DEF Done, Failed, Over

\* And so does the request, while it stays where it is or leaves.
LEMMA SaveOver ==
    ASSUME DataInv, Over, UNCHANGED <<buy, market, profile, cache>>,
           refresh' = refresh \/ refresh' = Idle
    PROVE  DataInv'
<1>1. DataTypes' /\ OrderInv' /\ CacheInv' /\ (Saved => Saved')
  BY OverKeeps
<1>2. RefreshInv'
  BY <1>1 DEF Idle, Over, DataInv, RefreshInv
<1> QED
  BY <1>1, <1>2 DEF DataInv

\* The steps of the selections, the requests and the plan that only save.
LEMMA SavingStep ==
    ASSUME DataInv, SaveStarts \/ SelectSaved \/ SelectNotSaved \/ NotRefreshed
                    \/ FetchKept \/ CalcSaved \/ CalcNotSaved
    PROVE  DataInv'
<1>1. CASE SaveStarts
  BY <1>1, BeginsKeeps DEF SaveStarts
<1>2. CASE SelectSaved \/ SelectNotSaved
  BY <1>2, DoneIsOver, SaveOver DEF SelectSaved, SelectNotSaved, settings
<1>3. CASE NotRefreshed \/ FetchKept
  BY <1>3, DoneIsOver, SaveOver DEF NotRefreshed, FetchKept, settings
<1>4. CASE CalcSaved \/ CalcNotSaved
  BY <1>4, DoneIsOver, SaveOver DEF CalcSaved, CalcNotSaved, CalcLeaves, settings
<1> QED
  BY <1>1, <1>2, <1>3, <1>4

\* The request begins with a save, whose profile it is for.
LEMMA RefreshedStep == ASSUME DataInv, Refreshed PROVE DataInv'
<1>1. Over /\ UNCHANGED <<buy, market, profile, cache>> /\ refresh.at = "save"
  BY DoneIsOver DEF Refreshed, settings
<1>2. CASE refresh' = Idle
  BY <1>1, <1>2, SaveOver
<1>3. CASE refresh' = [at |-> "mark", epoch |-> profile.epoch]
  <2>1. store' = Nothing
    BY DEF Refreshed, Done
  <2>2. profile.epoch \in Nat
    BY ProfileFields DEF DataInv, DataTypes
  <2>3. RefreshInv'
    BY <1>1, <1>3, <2>1, <2>2 DEF RefreshInv
  <2> QED
    BY <1>1, <2>3, OverKeeps DEF DataInv
<1> QED
  BY <1>2, <1>3 DEF Refreshed

LEMMA FetchMarkedStep == ASSUME DataInv, FetchMarked PROVE DataInv'
<1>1. /\ Over /\ UNCHANGED <<buy, market, profile, cache>> /\ refresh.at = "mark"
  BY DoneIsOver DEF FetchMarked, settings
<1>2. CASE refresh' = Idle
  BY <1>1, <1>2, SaveOver
<1>3. CASE ~Outdated /\ refresh' = [refresh EXCEPT !.at = "ask"]
  <2>1. refresh' = [at |-> "ask", epoch |-> refresh.epoch] /\ refresh.epoch = profile.epoch
    BY <1>1, <1>3 DEF Outdated, DataInv, RefreshInv
  <2>2. Saved'
    <3>1. CASE store = Nothing /\ inStore = ToSave /\ inStore' = inStore
      BY <1>1, <3>1, ToSaveType DEF DataInv, Saved
    <3>2. CASE store # Nothing /\ store.who = "refresh" /\ inStore' = store.data
      <4>1. refresh.epoch <= store.data.profile.epoch /\ Behind(store.data.profile)
        BY <1>1, <3>2 DEF DataInv, RefreshInv, OrderInv
      <4>2. store.data \in Data /\ store.data # Nothing
        BY <3>2, PlanAssumption DEF DataInv, DataTypes
      <4>3. store.data.profile.epoch \in Nat /\ profile.epoch \in Nat
        BY <4>2, ProfileFields DEF DataInv, DataTypes, Data
      <4> QED
        BY <1>1, <2>1, <3>2, <4>1, <4>2, <4>3 DEF Behind, Saved
    <3> QED
      BY <3>1, <3>2 DEF FetchMarked, Done
  <2>3. profile.epoch \in Nat
    BY ProfileFields DEF DataInv, DataTypes
  <2>4. RefreshInv'
    BY <1>1, <2>1, <2>2, <2>3 DEF RefreshInv
  <2> QED
    BY <1>1, <2>4, OverKeeps DEF DataInv
<1> QED
  BY <1>2, <1>3 DEF FetchMarked

\* New prices are those of a saved profile.
LEMMA FetchedStep == ASSUME DataInv, Fetched PROVE DataInv'
<1>1. UNCHANGED <<buy, market, profile, inStore, store>> /\ refresh.at = "ask"
  BY DEF Fetched, settings, saving
<1>2. CASE refresh' = Idle /\ UNCHANGED cache
  <2>1. DataKept
    BY <1>1, <1>2 DEF DataKept, DataInv, DataTypes
  <2> QED
    BY <1>2, <2>1, DataStays DEF Idle
<1>3. CASE ~Outdated /\ cache' = market /\ refresh' = [refresh EXCEPT !.at = "keep"]
  <2>1. refresh' = [at |-> "keep", epoch |-> refresh.epoch] /\ Saved
    BY <1>1, <1>3 DEF Outdated, DataInv, RefreshInv
  <2>2. DataTypes'
    BY <1>1, <1>3 DEF DataInv, DataTypes
  <2>3. OrderInv' /\ CacheInv'
    BY <1>1, <2>1 DEF DataInv, OrderInv, CacheInv, Behind, Saved
  <2>4. RefreshInv'
    BY <1>1, <2>1 DEF DataInv, RefreshInv
  <2> QED
    BY <2>2, <2>3, <2>4 DEF DataInv
<1> QED
  BY <1>2, <1>3 DEF Fetched

\* A selection that changes the profile is of a later epoch, and drops the prices.
LEMMA SelectStep == ASSUME DataInv, Select PROVE DataInv'
<1>1. UNCHANGED <<buy, market, inStore, store, refresh>>
  BY DEF Select, settings, saving
<1>2. /\ profile' \in Profiles /\ (profile' = profile \/ profile'.epoch > profile.epoch)
  BY SelectedNext DEF Select, DataInv
<1>3. CASE profile' = profile
  <2>1. UNCHANGED cache
    BY <1>3 DEF Select
  <2>2. DataKept
    BY <1>1, <1>3, <2>1 DEF DataKept, DataInv, DataTypes
  <2> QED
    BY <1>1, <2>2, DataStays
<1>4. CASE profile' # profile /\ profile'.epoch > profile.epoch
  <2>1. cache' = Nothing
    BY <1>4 DEF Select
  <2>2. profile.epoch \in Nat /\ profile'.epoch \in Nat
        /\ \A d \in Data : d.profile.epoch \in Nat
    BY <1>2, ProfileFields DEF DataInv, DataTypes, Data
  <2>3. DataTypes'
    BY <1>1, <1>2, <2>1 DEF DataInv, DataTypes
  <2>4. OrderInv'
    BY <1>1, <1>4, <2>2 DEF DataInv, DataTypes, OrderInv, Behind
  <2>5. RefreshInv'
    BY <1>1, <1>4, <2>2 DEF DataInv, RefreshInv
  <2> QED
    BY <2>1, <2>3, <2>4, <2>5 DEF DataInv, CacheInv
<1> QED
  BY <1>2, <1>3, <1>4

\* A restart has what the Store has, if anything.
LEMMA RestartStep == ASSUME DataInv, PlanRestart PROVE DataInv'
<1>1. /\ UNCHANGED <<buy, market>> /\ store' = Nothing /\ refresh' = Idle
  BY DEF PlanRestart, settings
<1>2. PICK stored \in {inStore, Nothing} \cup (IF store = Nothing THEN {} ELSE {store.data}) :
        /\ inStore' = stored
        /\ profile' = IF stored = Nothing THEN InitialProfile ELSE stored.profile
        /\ cache' = IF stored = Nothing THEN Nothing ELSE stored.price
  BY DEF PlanRestart
<1>3. stored = Nothing \/ stored \in Data
  BY <1>2 DEF DataInv, DataTypes
<1>4. InitialProfile \in Profiles /\ \A p \in Profiles : p.epoch \in Nat
  BY DEF InitialProfile, Profiles, Epochs
<1>5. CASE stored = Nothing
  <2>1. DataTypes'
    BY <1>1, <1>2, <1>4, <1>5 DEF DataInv, DataTypes
  <2> QED
    BY <1>1, <1>2, <1>5, <2>1 DEF Idle, DataInv, OrderInv, RefreshInv, CacheInv
<1>6. CASE stored # Nothing
  <2>1. stored.profile \in Profiles /\ stored.price \in Prices \cup {Nothing}
    BY <1>3, <1>6 DEF Data
  <2>2. DataTypes'
    BY <1>1, <1>2, <1>3, <1>6, <2>1 DEF DataInv, DataTypes
  <2>3. OrderInv' /\ CacheInv'
    BY <1>1, <1>2, <1>4, <1>6, <2>1 DEF OrderInv, CacheInv, Behind, Saved
  <2>4. RefreshInv'
    BY <1>1 DEF Idle, RefreshInv
  <2> QED
    BY <2>2, <2>3, <2>4 DEF DataInv
<1> QED
  BY <1>5, <1>6

\* The selector of the purchase shows an operator, or Pstryk.
LEMMA SetBuyStep == ASSUME DataInv, SetBuy PROVE DataInv'
<1>1. UNCHANGED <<market, profile, cache, inStore, store, refresh>>
  BY DEF SetBuy, saving
<1>2. buy' \in Operators \cup {"Pstryk"}
  BY ProfileFields DEF SetBuy, BuyOf, DataInv, DataTypes
<1>3. DataKept
  BY <1>1, <1>2 DEF DataKept, DataInv, DataTypes
<1> QED
  BY <1>1, <1>3, DataStays

\* The other steps leave the profile, the prices and the saves alone.
LEMMA OtherStep ==
    ASSUME DataInv, UNCHANGED <<profile, cache, inStore, store>>,
           buy' \in Operators \cup {"Pstryk"}, market' \in Prices,
           refresh' = refresh \/ refresh'.at \in {"idle", "save"}
              \/ (refresh.at = "ask" /\ refresh' = [refresh EXCEPT !.at = "keep"])
    PROVE  DataInv'
<1>1. DataKept
  BY DEF DataKept, DataInv, DataTypes
<1> QED
  BY <1>1, DataStays

LEMMA DataStep == DataInv /\ [PlanNext]_planVars => DataInv'
<1> SUFFICES ASSUME DataInv, [PlanNext]_planVars PROVE DataInv'
    OBVIOUS
<1>0. buy \in Operators \cup {"Pstryk"} /\ market \in Prices /\ market + 1 \in Prices
  BY DEF DataInv, DataTypes, Prices
<1>1. CASE Outside
  <2>1. CASE PlanRestart
    BY <2>1, RestartStep
  <2>2. CASE EditSale \/ EditBuy \/ EditOptions
    BY <1>0, <2>2, OtherStep DEF EditSale, EditBuy, EditOptions, Changed, saving
  <2>3. CASE Publish
    BY <1>0, <2>3, OtherStep DEF Publish, settings, saving
  <2> QED
    BY <1>1, <2>1, <2>2, <2>3 DEF Outside
<1>2. CASE Selection
  <2>1. CASE SelectRefused
    BY <1>0, <2>1, OtherStep DEF SelectRefused, settings, saving
  <2>2. CASE SetSale
    BY <1>0, <2>2, OtherStep DEF SetSale, saving
  <2> QED
    BY <1>2, <2>1, <2>2, SelectStep, SavingStep, SetBuyStep DEF Selection
<1>3. CASE Refreshing
  <2>1. CASE Refresh
    BY <1>0, <2>1, OtherStep DEF Refresh, settings, saving
  <2>2. CASE NotFetched
    BY <1>0, <2>2, OtherStep DEF NotFetched, settings, saving, Idle
  <2> QED
    BY <1>3, <2>1, <2>2, RefreshedStep, FetchMarkedStep, FetchedStep, SavingStep
    DEF Refreshing
<1>4. CASE Planning
  <2>1. CASE Calculate \/ Solved \/ Answered \/ PublishSecond \/ Age
    BY <1>0, <2>1, OtherStep
    DEF Calculate, Solved, Answered, PublishSecond, Age, CalcLeaves, settings, saving
  <2> QED
    BY <1>4, <2>1, SavingStep DEF Planning
<1>5. CASE BackoffOver
  BY <1>0, <1>5, OtherStep DEF BackoffOver, settings
<1>6. ASSUME NEW s \in Sensors, ClassicStart(s) \/ ClassicShown(s) \/ ClassicRejected(s)
      PROVE  DataInv'
  BY <1>0, <1>6, OtherStep DEF ClassicStart, ClassicShown, ClassicRejected, settings, saving
<1>7. CASE UNCHANGED planVars
  BY <1>0, <1>7, OtherStep DEF planVars, settings, saving
<1> QED
  BY <1>1, <1>2, <1>3, <1>4, <1>5, <1>6, <1>7, SavingStep DEF PlanNext

LEMMA DataInit == PlanInit => DataInv
<1> SUFFICES ASSUME PlanInit PROVE DataInv
    OBVIOUS
<1>1. InitialProfile \in Profiles
  BY DEF InitialProfile, Profiles, Epochs
<1>2. DataTypes
  BY <1>1 DEF PlanInit, DataTypes, Prices
<1> QED
  BY <1>2 DEF PlanInit, DataInv, OrderInv, RefreshInv, CacheInv, Idle

\* A restart goes on with the profile of the plan in force, whichever saves failed,
\* and however selections, requests and plans shared the Store.
THEOREM ProfileIsSaved == PlanSpec => []ProfileSaved
<1>1. IInv /\ DataInv => ProfileSaved
  BY DEF IInv, CurrentInv, InForce, DataInv, CacheInv, Saved, ProfileSaved, GateOpen, Sensors
<1> QED
  BY <1>1, PairInit, PairStep, DataInit, DataStep, PTL DEF PlanSpec
=============================================================================
