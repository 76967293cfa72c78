----------------------------- MODULE DynamicPlan -----------------------------
(***************************************************************************)
(* The source of prices and the plan made from it (pstryk_runtime.py,      *)
(* dynamic_price_profile.py).  Two selectors of the user are views of one  *)
(* saved profile: classic RCE and tariff, or Pstryk for both.  With Pstryk *)
(* one joint plan is solved and shown by two sensors, and the Supervisor   *)
(* acts on them only while paired_plan_current says that they belong       *)
(* together.                                                               *)
(*                                                                         *)
(* Selections, the refresh of the prices and the solver are tasks that     *)
(* await the Store, the network, the executor and helper services; what    *)
(* the user does, and the plans of the classic sensors, come in between.   *)
(* A plan is what it was made of: the epoch of the profile, the revision   *)
(* of the prices and the options.  The tariff group stands with its        *)
(* operator, and the physical inputs, which withdraw a plan in the same    *)
(* way, with the options.                                                  *)
(***************************************************************************)
EXTENDS Naturals, Sequences

CONSTANTS
    Nothing,
    Operators,      \* classic operators (SUPPORTED_OPERATORS, MANUAL_OPERATOR)
    Options,        \* what _options and the physical inputs may be
    MaxPrices,      \* bound: revisions of the published prices
    MaxActs,        \* bound: what the user does
    MaxFailures     \* bound: restarts, failed saves and failed requests

VARIABLES
    sale, buy,      \* the selectors SALE and PURCHASE
    options,        \* the option and permission helpers
    market,         \* the revision published by Pstryk
    profile,        \* self.profile
    cache,          \* the price revision of self.cache, or Nothing
    inStore,        \* profile and prices in the Store
    ready,          \* storage_ready
    backoff,        \* _next_store_retry is in the future
    store,          \* _store_lock: who saves, and what
    waiting,        \* the selections waiting for _profile_lock
    sel,            \* the selection that holds it
    refresh,        \* _refresh_task
    calc,           \* _plan_task
    key,            \* _key: the plan accepted last is not withdrawn
    fresh,          \* _calculated_at is less than 60 s ago
    shown,          \* the states of the two plan sensors
    classic,        \* the sensors whose classic solver runs, and whether its
                    \* result will be rejected
    acts, failures
settings == <<sale, buy, options>>
saving == <<inStore, ready, backoff, store>>
bounds == <<acts, failures>>
planVars == <<settings, market, profile, cache, saving, waiting, sel, refresh, calc, key,
          fresh, shown, classic, bounds>>

Sensors == {"rce", "tariff"}
Other(s) == IF s = "rce" THEN "tariff" ELSE "rce"
Epochs == Nat
Prices == Nat \ {0}
Profiles == [mode : {"classic", "pstryk"}, classic : Operators \cup {Nothing}, epoch : Epochs]
Sources == [epoch : Epochs, price : Prices, opts : Options]
NoPlan == [by |-> "none", src |-> Nothing, plan |-> 0, current |-> FALSE]
ClassicPlan == [by |-> "classic", src |-> Nothing, plan |-> 0, current |-> TRUE]
Shown == [by : {"none", "classic", "pstryk"}, src : Sources \cup {Nothing}, plan : 0..1,
          current : BOOLEAN]
Idle == [at |-> "idle"]
Data == [profile : Profiles, price : Prices \cup {Nothing}]
ASSUME PlanAssumption == Nothing \notin Data

PlanTypeOK ==
    /\ sale \in {"RCE", "Pstryk"} /\ buy \in Operators \cup {"Pstryk"} /\ options \in Options
    /\ market \in Prices /\ profile \in Profiles /\ cache \in Prices \cup {Nothing}
    /\ inStore \in Data \cup {Nothing} /\ ready \in BOOLEAN /\ backoff \in BOOLEAN
    /\ store \in [who : {"select", "refresh", "calc"}, data : Data] \cup {Nothing}
    /\ waiting \in Seq({"sale", "buy", "start"})
    /\ sel.at \in {"idle", "save", "sale", "buy"}
    /\ refresh.at \in {"idle", "save", "mark", "ask", "keep"}
    /\ calc.at \in {"idle", "save", "solve", "settle", "second"}
    /\ key \in BOOLEAN /\ fresh \in BOOLEAN
    /\ shown \in [Sensors -> Shown]
    /\ classic \in [Sensors -> {"idle", "runs", "stale"}]
    /\ acts \in 0..MaxActs /\ failures \in 0..MaxFailures

InitialProfile == [mode |-> "classic", classic |-> Nothing, epoch |-> 0]

PlanInit ==
    /\ sale = "RCE" /\ buy \in Operators /\ options \in Options /\ market = 1
    /\ profile = InitialProfile /\ cache = Nothing /\ inStore = Nothing
    /\ ready = TRUE /\ backoff = FALSE
    /\ store = Nothing /\ waiting = <<"start">> /\ sel = Idle /\ refresh = Idle /\ calc = Idle
    /\ key = FALSE /\ fresh = FALSE /\ shown = [s \in Sensors |-> NoPlan]
    /\ classic = [s \in Sensors |-> "idle"] /\ acts = 0 /\ failures = 0

-----------------------------------------------------------------------------
Active == profile.mode = "pstryk" \/ "Pstryk" \in {sale, buy}
Bound == sale = "Pstryk" /\ buy = "Pstryk"

\* invalidate: neither sensor is current any more.
Withdrawn == [s \in Sensors |-> [shown[s] EXCEPT !.current = FALSE]]
Invalidate == key' = FALSE /\ shown' = Withdrawn
KeepPlan == UNCHANGED <<key, shown>>

\* The two states of a publication are written one after the other and nothing
\* else runs between them, except who listens to the first.
Quiet == calc.at # "second"

-----------------------------------------------------------------------------
(* The user, and what is published.                                        *)
Acts == Quiet /\ acts < MaxActs /\ acts' = acts + 1

\* The selectors have changed: withdraw, and queue a selection.
Changed(which) ==
    /\ waiting' = Append(waiting, which)
    /\ UNCHANGED <<options, market, profile, cache, saving, sel, refresh, calc, fresh, failures>>
EditSale ==
    /\ Acts /\ sale' \in {"RCE", "Pstryk"} \ {sale} /\ UNCHANGED <<buy, classic>>
    /\ Changed("sale")
    /\ IF Active' THEN Invalidate ELSE KeepPlan

\* The tariff sensor watches the operator: it withdraws its plan, and what its
\* solver computes now will be rejected.
TariffHears ==
    /\ classic' = [classic EXCEPT !["tariff"] = IF @ = "runs" THEN "stale" ELSE @]
    /\ IF Active' THEN Invalidate
       ELSE UNCHANGED key /\ shown' = [shown EXCEPT !["tariff"].current = FALSE]
EditBuy ==
    /\ Acts /\ buy' \in (Operators \cup {"Pstryk"}) \ {buy} /\ UNCHANGED sale
    /\ Changed("buy")
    /\ TariffHears
EditOptions ==
    /\ Acts /\ options' \in Options \ {options}
    /\ IF Active THEN Invalidate ELSE KeepPlan
    /\ UNCHANGED <<sale, buy, market, profile, cache, saving, waiting, sel, refresh, calc,
                   fresh, classic, failures>>
Publish ==
    /\ Quiet /\ market < MaxPrices /\ market' = market + 1
    /\ UNCHANGED <<settings, profile, cache, saving, waiting, sel, refresh, calc, key, fresh,
                   shown, classic, bounds>>

-----------------------------------------------------------------------------
(* _save: one at a time; what was saved last is not written again, though  *)
(* the refresh has marks of its attempts to save as well; after a failure  *)
(* nothing is tried for five minutes.                                      *)
Fails == failures < MaxFailures /\ failures' = failures + 1
ToSave == [profile |-> profile, price |-> cache]

\* The task `who' awaits its save, which is over.
Begins(who) ==
    /\ Quiet /\ store = Nothing /\ ~backoff /\ (who = "refresh" \/ inStore # ToSave)
    /\ store' = [who |-> who, data |-> ToSave]
    /\ UNCHANGED <<settings, market, profile, cache, inStore, ready, backoff, waiting, sel,
                   refresh, calc, key, fresh, shown, classic, bounds>>
DoneLater(who) ==       \* mutant: a save is taken for done when it is only scheduled
    /\ Quiet /\ ready' = TRUE /\ UNCHANGED <<backoff, failures, inStore>>
    /\ \/ store = Nothing /\ ~backoff /\ UNCHANGED store
       \/ store # Nothing /\ store.who = who /\ store' = Nothing
Done(who) ==
    /\ Quiet /\ ready' = TRUE /\ UNCHANGED <<backoff, failures>>
    /\ \/ /\ store = Nothing /\ ~backoff /\ inStore = ToSave
          /\ UNCHANGED <<inStore, store>>
       \/ /\ store # Nothing /\ store.who = who
          /\ store' = Nothing /\ inStore' = store.data
Failed(who) ==
    /\ Quiet /\ UNCHANGED inStore
    /\ \/ store = Nothing /\ backoff /\ UNCHANGED <<ready, backoff, store, failures>>
       \/ /\ store # Nothing /\ store.who = who /\ Fails
          /\ store' = Nothing /\ ready' = FALSE /\ backoff' = TRUE
BackoffOver ==
    /\ Quiet /\ backoff /\ backoff' = FALSE
    /\ UNCHANGED <<settings, market, profile, cache, inStore, ready, store, waiting, sel, refresh,
                   calc, key, fresh, shown, classic, bounds>>

-----------------------------------------------------------------------------
(* DynamicPriceProfile and _select.                                        *)
ChangedTo(p, mode, operator) == [mode |-> mode, classic |-> operator, epoch |-> p.epoch + 1]
SelectClassic(p, operator) ==       \* select_purchase
    IF p.classic = operator THEN p ELSE ChangedTo(p, p.mode, operator)
SelectPstryk(p) ==
    IF p.mode = "pstryk" THEN p ELSE ChangedTo(p, "pstryk", p.classic)
SelectRce(p) ==
    IF p.classic = Nothing /\ buy # "Pstryk"
    THEN ChangedTo(p, "classic", buy)
    ELSE IF p.mode = "classic" THEN p
    ELSE ChangedTo(p, "classic", p.classic)

WantsRce(which) ==
    sale = "RCE" /\ (which = "sale" \/ (profile.mode = "pstryk" /\ profile.classic = Nothing))
\* classic_profile_required: there is no classic choice to go back to.
Refused(which) ==
    /\ WantsRce(which)
    /\ profile.mode = "pstryk" /\ profile.classic = Nothing /\ buy = "Pstryk"
Selected(which) ==
    IF WantsRce(which) THEN SelectRce(profile)
    ELSE IF "Pstryk" \in {sale, buy}
    THEN SelectPstryk(IF profile.mode = "classic" /\ buy # "Pstryk"
                      THEN SelectClassic(profile, buy) ELSE profile)
    ELSE IF profile.mode = "classic" THEN SelectClassic(profile, buy) ELSE profile

SelectRefused ==
    /\ Quiet /\ sel = Idle /\ waiting # <<>> /\ Refused(Head(waiting))
    /\ waiting' = Tail(waiting)
    /\ Invalidate
    /\ UNCHANGED <<settings, market, profile, cache, saving, sel, refresh, calc, fresh,
                   classic, bounds>>
Select ==
    /\ Quiet /\ sel = Idle /\ waiting # <<>> /\ ~Refused(Head(waiting))
    /\ waiting' = Tail(waiting) /\ sel' = [at |-> "save"]
    /\ profile' = Selected(Head(waiting))
    /\ IF profile' # profile THEN Invalidate /\ cache' = Nothing
       ELSE KeepPlan /\ UNCHANGED cache
    /\ UNCHANGED <<settings, market, saving, refresh, calc, fresh, classic, bounds>>

SelectSaved ==
    /\ sel.at = "save" /\ Done("select") /\ sel' = [at |-> "sale"]
    /\ UNCHANGED <<settings, market, profile, cache, waiting, refresh, calc, key, fresh,
                   shown, classic, acts>>
SelectNotSaved ==
    /\ sel.at = "save" /\ Failed("select") /\ sel' = Idle
    /\ Invalidate
    /\ UNCHANGED <<settings, market, profile, cache, waiting, refresh, calc, fresh, classic,
                   acts>>

\* The helpers are set to the profile, in a context of its own that is not heard.
SaleOf(p) == IF p.mode = "pstryk" THEN "Pstryk" ELSE "RCE"
BuyOf(p) == IF p.mode = "pstryk" THEN "Pstryk" ELSE p.classic
SetSale ==
    /\ Quiet /\ sel.at = "sale" /\ sel' = [at |-> "buy"]
    /\ sale' = SaleOf(profile)
    /\ UNCHANGED <<buy, options, market, profile, cache, saving, waiting, refresh, calc, key,
                   fresh, shown, classic, bounds>>
SetBuy ==
    /\ Quiet /\ sel.at = "buy" /\ sel' = Idle
    /\ buy' = IF BuyOf(profile) = Nothing THEN buy ELSE BuyOf(profile)
    /\ UNCHANGED <<sale, options, market, profile, cache, saving, waiting, refresh, calc,
                   fresh, bounds>>
    /\ IF buy' # buy THEN TariffHears ELSE KeepPlan /\ UNCHANGED classic

-----------------------------------------------------------------------------
(* _refresh, every thirty seconds while active, and _fetch_day.            *)
Refresh ==
    /\ Quiet /\ Active /\ refresh = Idle /\ refresh' = [at |-> "save"]
    /\ profile.mode = "pstryk" \/ (~ready /\ ~backoff)
    /\ UNCHANGED <<settings, market, profile, cache, saving, waiting, sel, calc, key, fresh,
                   shown, classic, bounds>>

\* Prices are due when there are none, and once a day for a correction; the pause
\* after a failed request is left out.
Refreshed ==
    /\ refresh.at = "save" /\ Done("refresh")
    /\ \/ profile.mode = "pstryk" /\ refresh' = [at |-> "mark", epoch |-> profile.epoch]
       \/ (cache # Nothing \/ profile.mode = "classic") /\ refresh' = Idle
    /\ UNCHANGED <<settings, market, profile, cache, waiting, sel, calc, key, fresh, shown,
                   classic, acts>>
\* Any save of the refresh that fails ends it.
NotRefreshed ==
    /\ refresh.at \in {"save", "mark", "keep"} /\ Failed("refresh") /\ refresh' = Idle
    /\ Invalidate
    /\ UNCHANGED <<settings, market, profile, cache, waiting, sel, calc, fresh, classic, acts>>

Outdated == refresh.epoch # profile.epoch
FetchMarked ==
    /\ refresh.at = "mark" /\ Done("refresh")
    /\ refresh' = IF Outdated THEN Idle ELSE [refresh EXCEPT !.at = "ask"]
    /\ UNCHANGED <<settings, market, profile, cache, waiting, sel, calc, key, fresh, shown,
                   classic, acts>>
Fetched ==
    /\ Quiet /\ refresh.at = "ask"
    /\ IF Outdated THEN refresh' = Idle /\ KeepPlan /\ UNCHANGED cache
       ELSE /\ refresh' = [refresh EXCEPT !.at = "keep"]
            /\ cache' = market
            /\ IF cache' # cache THEN Invalidate ELSE KeepPlan
    /\ UNCHANGED <<settings, market, profile, saving, waiting, sel, calc, fresh, classic, bounds>>
NotFetched ==
    /\ Quiet /\ refresh.at = "ask" /\ Fails
    /\ refresh' = IF Outdated THEN Idle ELSE [refresh EXCEPT !.at = "keep"]
    /\ UNCHANGED <<settings, market, profile, cache, saving, waiting, sel, calc, key, fresh,
                   shown, classic, acts>>
FetchKept ==
    /\ refresh.at = "keep" /\ Done("refresh") /\ refresh' = Idle
    /\ UNCHANGED <<settings, market, profile, cache, waiting, sel, calc, key, fresh, shown,
                   classic, acts>>

-----------------------------------------------------------------------------
(* _calculate.                                                             *)
InputReady == ready /\ profile.mode = "pstryk" /\ Bound /\ cache # Nothing
Source == [epoch |-> profile.epoch, price |-> cache, opts |-> options]

CalcLeaves == UNCHANGED <<settings, market, profile, cache, waiting, sel, refresh, classic, acts>>
GiveUp == calc' = Idle /\ Invalidate
Again(n) ==     \* from the top, where the input is taken again, or no more
    /\ Invalidate
    /\ calc' = IF n = 2 \/ ~InputReady THEN Idle ELSE [at |-> "save", try |-> n + 1]

Calculate ==
    /\ Quiet /\ Active /\ calc = Idle
    /\ IF InputReady THEN calc' = [at |-> "save", try |-> 1] /\ KeepPlan ELSE GiveUp
    /\ CalcLeaves /\ UNCHANGED <<saving, fresh, failures>>

\* The plan of last time does for a minute, unless an input has changed: whatever
\* else market_fingerprint compares has withdrawn the key when it changed.
StillGood == key /\ fresh
CalcSaved ==
    /\ calc.at = "save" /\ Done("calc") /\ CalcLeaves
    /\ IF ~InputReady' THEN GiveUp
       ELSE /\ KeepPlan
            /\ \/ calc.try = 1 /\ StillGood /\ calc' = Idle
               \/ calc' = [at |-> "solve", try |-> calc.try, src |-> Source]
    /\ UNCHANGED fresh
CalcNotSaved ==
    /\ calc.at = "save" /\ Failed("calc") /\ GiveUp
    /\ CalcLeaves /\ UNCHANGED fresh

\* The executor has answered: what the plan was made of may have changed.  A sale
\* that settles is put to the executor once more.
Abandoned == ~Active \/ calc.src.epoch # profile.epoch
MovedPrices == calc.src.price # cache   \* mutant: new options are not looked for
Moved == calc.src # Source
Solved ==
    /\ Quiet /\ calc.at = "solve"
    /\ IF Abandoned THEN calc' = Idle /\ KeepPlan
       ELSE IF ~InputReady THEN GiveUp
       ELSE IF Moved THEN Again(calc.try)
       ELSE calc' = [at |-> "settle", try |-> calc.try, src |-> calc.src] /\ KeepPlan
    /\ CalcLeaves /\ UNCHANGED <<saving, fresh, failures>>

NextPlan == 1 - shown["rce"].plan
PlanOf(src) == [by |-> "pstryk", src |-> src, plan |-> NextPlan, current |-> TRUE]
Answered ==
    /\ Quiet /\ calc.at = "settle"
    /\ IF Abandoned THEN calc' = Idle /\ KeepPlan /\ UNCHANGED fresh
       ELSE IF ~InputReady THEN GiveUp /\ UNCHANGED fresh
       ELSE IF Moved THEN Again(calc.try) /\ UNCHANGED fresh
       ELSE /\ key' = TRUE /\ fresh' = TRUE
            /\ \E s \in Sensors :
                  /\ shown' = [shown EXCEPT ![s] = PlanOf(calc.src)]
                  /\ calc' = [at |-> "second", sensor |-> Other(s), plan |-> PlanOf(calc.src)]
    /\ CalcLeaves /\ UNCHANGED <<saving, failures>>
PublishSecond ==
    /\ calc.at = "second" /\ calc' = Idle
    /\ shown' = [shown EXCEPT ![calc.sensor] = calc.plan]
    /\ CalcLeaves /\ UNCHANGED <<saving, key, fresh, failures>>
Age ==
    /\ Quiet /\ fresh /\ fresh' = FALSE
    /\ calc' = calc /\ KeepPlan /\ CalcLeaves /\ UNCHANGED <<saving, failures>>

-----------------------------------------------------------------------------
(* The classic planners, as far as they show their plans by the same       *)
(* sensors: one that was started before the switch may end after it.       *)
ClassicStart(s) ==
    /\ Quiet /\ ~Active /\ classic[s] = "idle"
    /\ classic' = [classic EXCEPT ![s] = "runs"]
    /\ UNCHANGED <<settings, market, profile, cache, saving, waiting, sel, refresh, calc, key,
                   fresh, shown, bounds>>
ClassicShown(s) ==
    /\ Quiet /\ classic[s] = "runs" /\ classic' = [classic EXCEPT ![s] = "idle"]
    /\ shown' = [shown EXCEPT ![s] = ClassicPlan]
    /\ UNCHANGED <<settings, market, profile, cache, saving, waiting, sel, refresh, calc, key,
                   fresh, bounds>>
\* Something else it watches has changed.
ClassicRejected(s) ==
    /\ Quiet /\ classic[s] # "idle" /\ classic' = [classic EXCEPT ![s] = "idle"]
    /\ IF Active THEN Invalidate
       ELSE UNCHANGED key /\ shown' = [shown EXCEPT ![s].current = FALSE]
    /\ UNCHANGED <<settings, market, profile, cache, saving, waiting, sel, refresh, calc,
                   fresh, bounds>>

-----------------------------------------------------------------------------
\* Home Assistant restarts; the Store may be unreadable.
PlanRestart ==
    /\ Quiet /\ Fails
    /\ \E stored \in {inStore, Nothing} \cup (IF store = Nothing THEN {} ELSE {store.data}) :
          /\ inStore' = stored
          /\ profile' = IF stored = Nothing THEN InitialProfile ELSE stored.profile
          /\ cache' = IF stored = Nothing THEN Nothing ELSE stored.price
          /\ ready' = (stored # Nothing \/ inStore = Nothing)
    /\ backoff' = FALSE /\ store' = Nothing
    /\ waiting' = <<"start">> /\ sel' = Idle /\ refresh' = Idle /\ calc' = Idle
    /\ key' = FALSE /\ fresh' = FALSE /\ shown' = [s \in Sensors |-> NoPlan]
    /\ classic' = [s \in Sensors |-> "idle"]
    /\ UNCHANGED <<settings, market, acts>>

SaveStarts ==
    \/ sel.at = "save" /\ Begins("select")
    \/ refresh.at \in {"save", "mark", "keep"} /\ Begins("refresh")
    \/ calc.at = "save" /\ Begins("calc")
Selection == SelectRefused \/ Select \/ SelectSaved \/ SelectNotSaved \/ SetSale \/ SetBuy
Refreshing ==
    \/ Refresh \/ Refreshed \/ NotRefreshed
    \/ FetchMarked \/ Fetched \/ NotFetched \/ FetchKept
Planning ==
    \/ Calculate \/ CalcSaved \/ CalcNotSaved \/ Solved \/ Answered \/ PublishSecond
    \/ Age
Outside == EditSale \/ EditBuy \/ EditOptions \/ Publish \/ PlanRestart
PlanNext ==
    \/ Outside \/ SaveStarts \/ BackoffOver \/ Selection \/ Refreshing \/ Planning
    \/ \E s \in Sensors : ClassicStart(s) \/ ClassicShown(s) \/ ClassicRejected(s)
PlanSpec == PlanInit /\ [][PlanNext]_planVars

\* Every await ends, locks are first come, first served, and timers fire.
Fairness ==
    /\ SF_planVars(sel.at = "save" /\ Begins("select"))
    /\ SF_planVars(refresh.at \in {"save", "mark", "keep"} /\ Begins("refresh"))
    /\ SF_planVars(calc.at = "save" /\ Begins("calc"))
    /\ WF_planVars(BackoffOver) /\ WF_planVars(Age)
    /\ SF_planVars(Selection) /\ SF_planVars(Refreshing) /\ SF_planVars(Planning)
    /\ \A s \in Sensors : WF_planVars(ClassicRejected(s))
FairSpec == PlanSpec /\ Fairness

-----------------------------------------------------------------------------
(* paired_plan_current, as the Supervisor asks it.                         *)
Involved == "Pstryk" \in {sale, buy} \/ \E s \in Sensors : shown[s].by = "pstryk"
GateOpen ==
    Involved =>
        /\ Bound
        /\ \A s \in Sensors : shown[s].by = "pstryk" /\ shown[s].current
        /\ shown["rce"].plan = shown["tariff"].plan
        /\ shown["rce"].src.epoch = shown["tariff"].src.epoch

\* What the Supervisor may act on is one plan made from the profile, the prices and
\* the options of this moment.
PairInForce ==
    GateOpen => \A s \in Sensors : shown[s].by = "pstryk" => shown[s].src = Source

\* A restart goes on with the profile of the plan in force.
ProfileSaved ==
    GateOpen /\ Involved => inStore # Nothing /\ inStore.profile = profile

\* The selectors are views of the profile: they come to show it and go on doing so.
Agree == sale = SaleOf(profile) /\ (profile.classic # Nothing => buy = BuyOf(profile))
SelectorsFollow == <>[](Agree \/ profile.classic = Nothing)
=============================================================================
