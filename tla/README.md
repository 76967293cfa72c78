# A formal model of the Hoymiles HIT-G3 energy manager

The repository is a Home Assistant integration (`src/custom_components/`), an
ESPHome firmware (`src/packages/`) and the tests and contracts around them. A
battery inverter is driven over Modbus by an ESP32; Home Assistant decides what
the inverter should do and asks the ESP32 to write it. This directory models
first the part where a mistake moves real power: who may force the inverter
into charging or discharging, for how long, and how it gets back; then the
services around it that keep the user's trust: what is pushed to the user, what
happens to the user's settings and files, and that what is acted on is one plan.

## 1. The system

| Part | Source | State it keeps | Operations |
| --- | --- | --- | --- |
| Control lease firmware | `packages/settings.yaml` | lease record, identity and terminal-proof sidecars in RAM and flash, soft expiry, hard deadline, renewal sequence, nonce | challenge, leased write (arm or retarget), renewal, one-second timer, FC03 reaction, boot |
| Write barrier and readings | `packages/settings.yaml` | readback generation, pending write, generation before it, first mismatch | queue FC16, complete or incomplete FC03 |
| Lease client | `supervisor_control_lease.py` | session, generation, handle, pending renewal, pending arm | prepare/accept arm, prepare/process renewal, uncertain renewal, expire, clear |
| Supervisor entity | `supervisor_sensor.py` | pending publication, arm and renewal tasks, proofs under verification | publish, arm, renewal loop, fail-close, master STOP |
| Transaction executor | `supervisor_executor.py` | one `ExecutorRecord`: transaction, barrier, attestation, predecessor, rollback | select, start, prepare, sent, readback, retarget, stop, restore, recover |
| Active controller | `supervisor_active_controller.py` | executor under a lock, persisted record | reconcile, commit then dispatch, STOP |
| Active bridge | `supervisor_active_bridge.py` | none: builds and verifies atomic writes | |
| Record codec | `supervisor_executor_codec.py` | the record on disk | encode, decode, migrate |
| Arbiter | `ems_supervisor.py` | none: a function of the policies' snapshots | choose an owner |
| Runtime, ledger, accounting | `supervisor_canonical_*.py`, `supervisor_accounting_*.py` | journal and energy attributed to transactions | append, attribute, close |
| Policies | `rce_*`, `tariff_*`, `rcm_*`, `optimizer_revision.py` | the plan shown and whether it is in force, the revision of its inputs, timers and debounces, a lock | calculate, publish, withdraw, retry; RCEm: live loop |
| Dynamic prices | `pstryk_runtime.py`, `dynamic_price_profile.py` | price profile, price cache, joint plan, two selectors | select, save, refresh, fetch, solve, publish, invalidate |
| Notifications | `ems_notifications.py` | queue of observations, active range, ledger of deliveries, push budget | observe, take, open/continue/end a range, deliver, restart |
| Defaults and migration of helpers | `ems_initial_defaults.py`, `ems_shared_input_migration.py` | two ledgers, the helpers | plan, save, call, read back, quarantine |
| Package installer | `assets.py` | package file, backup, artifact, metadata | capture, back up, replace, postflight, roll back, attest |
| Caches, histories | `*_cache.py`, `*_history.py` | bounded stores | replace |
| PV charge delay | `pv_charge_delay*.py` | hold of the PV charge | hold, release |

**How the parts talk.** A policy publishes an intent; the arbiter names an
owner; the controller starts a transaction in the executor, saves the record
and dispatches one write. A write of a forced mode passes through the lease:
the entity asks the ESP32 for a nonce, asks again whether the transaction is
still authorized, and sends an arm with the nonce, the identity and the time
left to the transaction's deadline. The ESP32 saves the lease, raises the write
barrier and queues FC16. FC03 readings come back every few seconds, drop the
barrier, confirm or refute the lease, and reach Home Assistant as sensor
states, from which the executor takes its evidence. Every 20 seconds the entity
renews. If it stops, the ESP32 restores the Self-Use block it had found.

**What is hard here.**
The two ends share no clock and no connection they can rely on: requests are
late, lost or repeated, and each end counts from its own anchor. A write that
was queued may still be waiting behind a read that was queued before it, so an
FC03 answer may be older than the write although it arrives later. Three flash
saves precede a write, and power may go between any two of them. Coroutines
yield between a check and the act it authorizes. The readings' generation
numbers wrap. The services around the control have the same hazards with other
partners: a queue that is full just when evidence comes, a Store that fails or is
unreadable, a file the user edits between a check and its replacement, a solver
whose inputs change while it runs, a set-up repeated while another one waits.

**What makes it correct**, by component:
- firmware: a forced block is never on the inverter without a record in flash
  that names it; a deadline is never pushed back; every lease ends; a terminal
  proof is of the lease that just ended;
- barrier: no decision is taken on a reading older than the last write; a write
  is given up only on evidence; the barrier does not stay;
- the two ends: Home Assistant's right ends no later than the firmware's lease,
  and that no later than the policy end and the deadline stated;
- executor and controller: as long as a forced write may act there is an owner
  that will restore the base, in RAM and in the Store; the base is the block the
  firmware falls back to; an abandoned retarget does not overtake the command
  that was resumed; restore writes are bounded; every stop ends;
- notifications: an END is true of the inverter and comes in the end; no event is
  pushed twice, not even across a restart; starts stay within their budget;
- helpers and files: no value or text of the user's is replaced unasked or lost; a
  decision made once is not made again; what was refused is undone;
- plans: a plan in force was made of the inputs of now, is replaced when it no longer is,
  and says of an emergency what is true now;
- dynamic prices: the Supervisor acts on one plan of the profile, prices and
  options of this moment, and the Store has that profile.

## 2. The modules

| Module | Models | EXTENDS / INSTANCE |
| --- | --- | --- |
| `ForcedWindow` | abstract promise: one window of forced control at a time, its deadline only ever nearer | |
| `EspLease` | the lease firmware with Modbus queue, inverter, flash, faults and power loss | INSTANCE `ForcedWindow` (refinement `Window`) |
| `ControlLease` | `EspLease` composed with the Home Assistant client, its tasks and the native API | `EspLease` |
| `ControlLeaseProofs` | theorems about `EspLease`, `WriteBarrier` and `ControlLease` | `ControlLease`, `WriteBarrier`, TLAPS |
| `WriteBarrier` | the barrier with the generation numbers and their wrap | |
| `OwnedTransaction` | abstract promise: a transaction written down before it forces, never forgotten while it may act, its stop never taken back | |
| `SupervisorExecutor` | the executor's record and its methods, as operators on the record and the last reading | |
| `SupervisorController` | the controller that drives it: lock, saves, dispatches, MASTER STOP, restart; a reduced firmware | `SupervisorExecutor`, INSTANCE `OwnedTransaction` (refinement `Transaction`) |
| `SupervisorControllerProofs` | theorems about both: records, requests, bounded restores | `SupervisorController`, TLAPS |
| `OwnershipProofs` | theorems about both: who owns a forced block, that an arm is alone, and the refinement of `OwnedTransaction` | `SupervisorControllerProofs` |
| `ExecutionRanges` | observations of the executor, their queue, the ranges made of them, the timer of a gap | |
| `PushLedger` | what becomes of the START and END of a range: ledger, budget, saves, provider, restart | |
| `NotificationProofs` | theorems about `PushLedger` and `ExecutionRanges` | `PushLedger`, `ExecutionRanges`, TLAPS |
| `SeedAndCopy` | the seeder of first values and the copy to the helper of a later release, each with its ledger | |
| `PackageInstall` | the transaction on the package file | |
| `SetupProofs` | theorems about `PackageInstall` and `SeedAndCopy` | `PackageInstall`, `SeedAndCopy`, TLAPS |
| `DynamicPlan` | price profile, selectors, refresh, solver, publication and the Supervisor's gate | |
| `DynamicPlanProofs` | theorems about `DynamicPlan` | `DynamicPlan`, TLAPS |
| `PlanPublication` | how the RCE and the tariff sensor calculate a plan and make it current | |
| `PlanPublicationProofs` | theorems about `PlanPublication` | `PlanPublication`, TLAPS |
| `RiskPlan` | the plan of RCEm and its live loop, two writers of one entity | |
| `RiskPlanProofs` | theorems about `RiskPlan` | `RiskPlan`, TLAPS |
| `MCEspLease`, `MCControlLease`, `MCSupervisorController` | symmetry sets and a constraint for TLC | the module they name |
| `MCServices` | safety of the services, of RCEm's plan and of the barrier, one at a time | EXTENDS `PushLedger`, `ExecutionRanges`, `SeedAndCopy`, `DynamicPlan`, `WriteBarrier`, `PackageInstall`, `RiskPlan` |
| `MCPlanPublication` | the plans of RCE and tariff, and liveness of RCEm's plan and of the lease, one at a time | EXTENDS `PlanPublication`; INSTANCE `RiskPlan`, `EspLease` |
| `MCLive` | liveness of the controller's stops and of the execution ranges, one at a time | EXTENDS `SupervisorController`, INSTANCE `ExecutionRanges` |

### EspLease
The variables follow the globals of `settings.yaml`: `st` is
`ems_control_lease_state`, `rec`, `ident` and `term` are the lease, identity
and terminal records in RAM, `durable`, `dIdent` and `dTerm` their copies in
flash, `nonce` and `prev` the challenge, `barrier` the expected acknowledgement
and whether a newer reading already contradicted it. `soft` and `hard` are the
time left to the two deadlines rather than instants of `millis()`; ages
saturate one above the largest age a guard compares with. A block of registers
4300-4306 is one value, of the class (Self-Use, forced, other) that the code
tells apart by the mode register. `OddBlocks` are those of them with a register out of
the ranges the firmware reads (a backup SOC below 60, say), which the user or another
master can set on the inverter. An FC03 answer therefore has the code's three outcomes for
the barrier (`BarrierAfter`): it matches and releases, it is complete and differs, or it
is out of range and leaves the barrier as it is. A reading without all registers is not
told apart from one out of range. The firmware refuses to write such a block
(`NeutralWrite`, `TimerRestores`), but the arm takes any reading of mode 0 as fall-back.
`RenewValid` takes the renewal's `authorization_current` and its generation check as one
choice of the request.

The plant is `bus`, the FIFO of the Modbus component, and `phys`, the block the
inverter holds. `PollDue` queues a read, `WriteApplied` serves a write,
`PollAnswered` (part of `PollQuiet`, `PollConfirms`, `PollReverts`,
`PollClears`) serves a read and runs the FC03 handler on its answer,
`CommandLost` drops a command. One handler is one action: an answered poll
updates the barrier and then the lease in the same step. Its outcomes are
actions of their own because they are the disjuncts of the code. The arm is
likewise `ArmAccepted`, `ArmStoreFailed`, `ArmRolledBack`, `ArmRollbackFailed`
and `PowerLossInArm`, one per way the lambda can end.

A failed flash save leaves the old value, the new value or an unreadable one
(`Junk`). A power loss may come at any instant, and inside an arm or a clearing
after any of its saves. `OutsideChange` stands for whoever else can write to the
inverter. These and the other faults are counted by `mishaps`.

Three variables are history: `driven` (the block on the inverter came from a
leased write), `last` (the lease that held the record last) and `mishaps`.

### ControlLease
`session`, `gen`, `handle`, `arming` and `renewing` are the fields of
`ControlLeaseClient` and the tasks of the entity. A request is a record in the
set `net`: it may be served late, lost, or served and stay (a repeat); a
response is in `replies` until taken. A response nobody awaits is dropped, as
the native API does with the result of a cancelled call. `TimePasses` ages both
ends by the same second. `limit` is history: the policy end stated in the last
accepted request, as it recedes.

### WriteBarrier
The generation arithmetic `EspLease` leaves out, with the wrap at `Top`
(16,000,000 in the code). `ahead` is history: the next answer was asked for
before the write was queued.

### SupervisorExecutor
`Records` and `Transactions` keep the fields of `ExecutorRecord` and
`TransactionRecord` the decisions read: `pre` is `prewrite_snapshot`, `rsnap`
`restore_snapshot`, `att` `restore_attempts`, `refused`
`restore_not_queued_count`, `sent` and `rsent` whether a command or restore was
marked sent, `ack` the confirmed readback, `lid` the lease identity. The code
compares generations and times of a snapshot with those of the current reading;
all it asks is whether the reading is newer. So a snapshot has an age relative
to the last reading Home Assistant received: `same`, `newer` (there is a newer
reading), or `lost` (the firmware restarted and counts from 1, so none compares
as newer). Each method is an operator that returns the record, or the set of
records where gates, freshness or a deadline may decide either way.
`Verdict` names the outcomes of `prepare_restore` in the order of its returns.

### SupervisorController
One action is what runs between two awaits of the coroutine that holds the lock,
with the save that ends it: `ha.at` and `ha.step` say where it stands. `saved`
is the record in the Store; `Commit` and `CommitStop` are the two ways to save
(the second goes on without). `SendArm` and `SendRestore` put a request in
`net`; the firmware accepts (`EspArms`, `EspRestores`), refuses or never sees
it, and Home Assistant takes the answer or gives up (`DispatchTimesOut`) while
the request travels on. A refusal for a stale snapshot is repeated once
(`StartAgain`, `RetargetAgain`). The firmware is reduced to the FIFO, the
barrier, the lease with its fall-back and the terminal proof; `EspLease` has the
rest. `driven`, `preserved`, `restores` and `arms` are history.

### ExecutionRanges
`tx`, `owner`, `phase` are the executor as its frames show it: one transaction at
a time, released by a confirmed restoration. `observations`, `last` and `timer` are
`_observation_queue`, `_last_observation` and the pending `_gap_cancel`; `active` and
`initialized` are the model's. `TakeNext` is the worker from taking an observation to
its first await, `Finish` the end of its saves and deliveries with `_sync_gap_timer`;
frames, the timer and a restart come between. Instants are ages in units of the
continuity period. `end` is history.

### PushLedger
What `TakeNext` leaves out. `recent` is `_deliveries`, `charged` the charges of
`_start_push_attempts` as ages, `at` the await the worker stands at, `disk` the
ledger in the Store. An event is reserved and charged, that is saved, then the
provider is called; the outcome is saved. A restart starts from the Store, from a
payload whose save was under way, or from nothing. A ledger that cannot be read is
charged with a full budget. `pushed` and `since` are history.

### SeedAndCopy
One pair of helpers stands for each field: the `source`, which the seeder gives a
first value, and the `target`, which is copied from it once. `stage[e]` is the await
the set-up of entry `e` stands at; one entry at a time holds a lock (`Free`).
`seedDisk` and `copyDisk` are the ledgers, `seed` and `copy` what the pass that holds
the lock has. A value has an origin (`org`): framework, user, seeder, copy or an
earlier release (`old`); the properties are about origins, the code decides from
contexts and restored states, and that these agree is what is checked.

### PackageInstall
`dest` is the file, `same` whether it still is the file that was captured (inode,
times and content), `backup` the fixed backup, `artifact` the transaction's own,
`meta` the hash in the Store. `step` names the file operation that comes next; the
user may edit before each, each may fail, and Home Assistant may die.

### DynamicPlan
`sale` and `buy` are the two selectors, `profile` what they are views of, `cache` the
prices, `inStore` and `store` the Store and the save under way, `sel`, `refresh` and
`calc` the three tasks and the await each stands at, `key` and `fresh` the joint key
and its minute, `shown` the plans the two sensors show, `classic` the classic planners'
tasks. A plan is what it was made of; `GateOpen` is `paired_plan_current`.

### PlanPublication
`policy` says which of the two sensors this is: they share the state machine and differ
in details that name it. Inputs are of four sorts. `user` counts changes with an event,
of which `mail` are not delivered yet; `quiet` counts those only the fingerprint of a
solved plan meets: the forecasts and sources of RCE, for the tariff the capabilities and
the transaction it may continue. `sampled` counts those the fingerprint lets move: the
tariff freezes state of charge, powers, energies and forecasts for one solver pass
(`tariff_sensor.py:318-336`, `1193-1203`), and RCE samples its numeric ones again and
revalidates the selection on them (`rce_sensor.py:355-382`, `3961-3977`: `Revalidated`).
`gcf` is what the three readbacks of GCF mean together, and `cohort`
that they are being collected (`_forecast_gcf_policy_evaluation_cancel`). `Guarded` is
what the fingerprint holds of a snapshot, and `Stale` compares just that.

`result` is
what the shown plan was made of, `current` its `result_current`; `retry`,
`dirty` and `recovering` are the handles and flags of the same purpose. `debounce` is
armed for seconds ("soon") or, by the tariff after a changed or late meaning of GCF, for
five minutes ("late"), which the 120-second timer always cancels before they pass: so
`DebounceFires` is for the first only. An event arms nothing over a delay that runs; the
return of missing inputs and of the load does (`Rearm`). `SharedReady` is the publication
of the shared inputs that asks for a plan at once, every other leaves a note. `batch` is the
call of `_recalculate_and_write` that holds `_optimizer_lock`, with its attempt, whether
its solver runs and whether the revision moved since; `turns` waits for the lock. One
action is what runs between two awaits: the solver is one, the tariff's evidence another
(`Starting`). `ended` is history.

### RiskPlan
The live loop (`Telemetry`, `InputLost`, `InputBack`, `ControlTimer`) and the full plan
(`Solve` to `Published`) hold the same lock. `high` is the voltage now, `run.high` the
one the solver was given, `run.moved` and `run.other` whether the revision or a
measurement without one moved under it. `public` is what is shown: of whom it is, and
what it says of the emergency. `plan` is the age of `_last_full_optimizer_result`,
`traced` whether it has a timeline, `reading` and `overdue` are the hourly read of the
recorder, without which the ten-minute timer plans nothing.

### MCServices, MCPlanPublication and MCLive
The components in them share no state, so their product would only multiply states
without meeting anything new. `part`, chosen in the initial state, names the one that
runs; the others stay as they start, in one state each. Every property of the run is
so checked of its own component with all its interleavings. `MCServices` extends the
modules whose theorems state one of its properties, so these share no name but those of
the standard modules: hence `SeedInit`, `PlanNext`, `BarrierSpec`, and `Missing`,
`Nothing`, `NoFile` or `Absent` for `None`. `MCPlanPublication` and `MCLive` state the fairness of each
component for the one that runs.

## 3. The runs

| Run | Question | Bounds |
| --- | --- | --- |
| `esp_safety` | `TypeOK`, `RecoverableForce`, `BarrierCovers`, `ProofOfLastTransaction`, refinement `WindowSpec` | 2 transactions, 2 command generations, 2 forced blocks, 1 Self-Use, 1 other block out of range, 3 nonces, 2 mishaps |
| `plan_publication` | RCE and tariff: `CurrentIsFresh`, `NotLeftWaiting`, `PublishedOnOneSnapshot`; these two and RCEm: `PlansComeBack` under fairness; lease: `LeaseEnds` under fairness | plans: 2 policies of GCF, 2 changes, 1 error, 1 waiting batch; RCEm: 1 event, 1 failure, 1 waiting task; lease: 2 generations, 1 forced block, 2 Self-Use of which 1 out of range, 1 mishap |
| `lease_renew` | `ClientWithinFirmware`, `WithinPolicy` over renewals, or with a restart, power loss or failed save of either end | 1 arm, 1 renewal with repeats, or 2 sessions and 1 mishap (`RenewalOrMishap`); 1 request in transit |
| `lease_retarget` | the same over two arms of one or two transactions | 2 generations, 2 transactions |
| `lease_abort` (violation) | `PredecessorSurvivesAbort` | 2 generations |
| `barrier_wrap` (violation) | `BarrierReleased` | `Top = 6` |
| `controller_safety` | `ForceOwned`, `ForceRecorded`, `FallbackAgrees`, `ExecutingAlone`, `RestoresBounded`, refinement `TransactionSpec` | 2 arms, 2 forced blocks, 1 mishap of any kind |
| `controller_stop` | `RestoresBounded`, refinement `TransactionSpec` with a MASTER STOP | 1 arm, 1 MASTER STOP, 1 restart or failed save |
| `controller_refused` (violation) | `MasterStopActs` under fairness | 1 arm, 1 MASTER STOP |
| `live` | `TypeOK`, `StopSettles`, `EndReported` under fairness | controller: 1 arm, 1 restart or failed save; ranges: 1 transaction, queue of 1, 1 restart or failed save |
| `services` | ranges: `EndsAreTrue`; pushes: `AtMostOnePush`, `WithinBudget`, `AllDecided`; helpers: `EditsKept`, `CopyIsMeant`, `DecidedOnce`; package: `UserTextKept`, `RefusalUndone`, `UntouchedIsManaged`; plan: `PairInForce`, `ProfileSaved`; RCEm: `EmergencyIsSeen`, `EmergencyIsPresent`; barrier: `GivenUpOnEvidence` | see below |
| `dynamic_switch` (violation) | `SelectorsFollow` under fairness | 1 edit, 1 failed save, request or restart |

**The properties.**
- `RecoverableForce`: a forced block the lease put on the inverter, and nobody
  changed, is named in flash (as active or predecessor block), or flash is
  unreadable and the boot goes to hold. This is what lets a restart at any
  instant tell its own block from the user's.
- `BarrierCovers`: with the barrier down, a write still queued only repeats what
  the last reading showed.
- `WindowSpec`: the firmware implements `ForcedWindow`.
- `ProofOfLastTransaction`: when the lease is reported as ended, the proof shown
  is of the transaction that held it last.
- `LeaseEnds`: every live lease reaches disarmed or hold, unless the inverter from some
  moment on shows nothing but a block out of range while the barrier is up (`Stuck`).
  Then the firmware waits for a reading it can compare, and an expired lease waits with
  it (`settings.yaml:1086-1088`, `1510-1512`).
- `ClientWithinFirmware`, `WithinPolicy`: see section 1.
- `GivenUpOnEvidence`: one stale answer is never enough to give up a write, around
  the wrap of the generation numbers too.
- `ForceOwned`, `ForceRecorded`: while a forced block is on the inverter, in the
  queue or in a request the firmware would still accept, the record in RAM, and
  the one in the Store, has an owner. Only Off-Grid releases it earlier: the
  user's mode is preserved and the firmware's lease covers what is in flight.
- `FallbackAgrees`: the block an armed lease falls back to is the base of the
  transaction.
- `ExecutingAlone`: in EXECUTING no other forced block is queued or acceptable.
- `RestoresBounded`: at most two restore writes reach the inverter per owner, two
  more after a MASTER STOP, which resets the attempts, and two more for every two
  mishaps. One mishap never buys a write: the attempt is saved before it leaves. Two
  do: during a MASTER STOP the controller goes on in RAM when the Store fails, and a
  restart then starts from a record that misses those attempts.
- `TransactionSpec`: the controller implements `OwnedTransaction`. A stop, once begun, is
  never taken back, by no timeout, cancelled retarget or restart from an older record; an
  owner keeps its base; what forces the inverter leaves only when RAM and Store say the
  same of its owner; after MASTER STOP nothing leaves until the user rearms.
- `StopSettles`: a stop ends released, with a rollback reported as failed, or
  held for the firmware's fall-back.
- `EndsAreTrue`: when an END is reported no transaction of the range runs any more,
  and unless it says "unconfirmed" every one was restored, whatever the queue had to
  drop. `EndReported`: a range whose restoration was confirmed is ended.
- `AtMostOnePush`: the provider is called once for an event, across restarts, failed
  saves and lost ledgers. `WithinBudget`: no more starts are pushed within the window
  than the budget has. `AllDecided`: when the worker rests, every event of the ledger
  is delivered, suppressed or marked as unconfirmed, none is left half sent.
- `EditsKept`: neither the seeder nor the copy replaces what the user chose, an
  untouched value the user restored or one equal to the default included.
  `CopyIsMeant`: what is copied somebody chose; the minimum Home Assistant gives a
  new helper is not copied. `DecidedOnce`: nothing is copied once the Store has a
  decision, whichever entry, restart or lost ledger comes in between.
- `UserTextKept`: a text of the user's that a transaction replaced is still somewhere
  the user was told of. `RefusalUndone`: a transaction refused after it wrote leaves
  the file as it was. `UntouchedIsManaged`: a package nobody else wrote is not taken
  for a modified one, which would stop updates for good.
- `CurrentIsFresh`: a plan marked current was made of every helper's value whose event
  was delivered and of GCF as it is, unless its readbacks are being collected.
  `PublishedOnOneSnapshot`: what is shown agrees with everything the fingerprint holds at
  that moment, the inputs without an event included, and what RCE shows was revalidated
  on the samples of that moment; the tariff's samples may be those of the solver's start.
  `NotLeftWaiting`: a tariff plan that gave way to the readbacks of GCF is calculated
  at once when they mean what they meant before. When their meaning changed, or they were
  late, the tariff arms five minutes and the plan waits for the 120-second timer: that is
  the property's exception, not part of its promise. `PlansComeBack`: no
  plan of the three sensors is withheld for ever while its inputs are there.
- `EmergencyIsPresent`, `EmergencyIsSeen`: whichever of RCEm's two writers publishes,
  the emergency is that of the voltage now; and no measurement of one is lost, though it
  came under the solver, without a plan in force or while other inputs were missing.
- `PairInForce`: behind an open gate both sensors show one plan of the profile, prices
  and options of this moment. `ProfileSaved`: and a restart goes on with that profile.

**Why the bounds suffice.** Two command generations are one retarget, the
deepest chain in which the record names two blocks; a third generation meets the
record with the shape the second left. Two forced blocks tell active from
predecessor. Three nonces are the current one, the client's and a new one
(`plan_publication` has two: its question is the end of a lease, not which request
renews it); nonces, and the firmware's forced blocks and transactions, are symmetric. `esp_safety` has a
block of another mode, over which no lease is armed, and it is out of range; a foreign
block in range is the second forced one. `plan_publication` has two Self-Use blocks, one
out of range, so that the fall-back can be one that is not written back. The runs of both
ends have neither, since a barrier that stays only delays what they ask about. Time
bounds of one to two units make each guard true before and false after a tick:
`TTL < MaxHard` lets both the soft and the hard deadline come first. Two mishaps
allow a fault while recovering from a fault. The queue needs no bound of its
own: a new write needs the barrier down, and one poll waits at a time. One
request in transit still gives the interleavings that matter, since a repeat
stays in `net` and a reply is in transit besides. `CHECK_DEADLOCK FALSE` is set
because nonces and generations run out.

In `SupervisorController`, two arms are an arm and its retarget, or two owners
in a row, the least that lets an answer or a write of the first meet the second.
Attempts and refusals are limited by the code itself, so transactions repeat
without a bound. One Self-Use block is enough because a base may also be a
forced block found on the inverter. A MASTER STOP is explored with one arm: it
takes over whatever the transaction holds, a retarget included, and clears it.
One mishap of each kind, since the code claims nothing of two failed saves in a
row. `StopSettles` excludes firmware reboots: see section 6.

In `services`, each component has the least that lets a thing meet another of its
kind. Pushes: three ranges, the first with a START and an END and the others with a
START only, a budget of one and a window of two ticks, so that a charge is still
counted, and no longer; two mishaps, so a restart meets a failed save. Ranges: two
transactions, of one policy or of two, and a queue of one, which is always full when
it matters; no mishaps, since a range model lost with the Store knows no ranges and
says nothing of them (`live` has the restarts). Helpers: two entries, one edit, one
mishap. Package: two releases, one of them known without metadata, two texts of the
user, two edits, one mishap. Plan: one operator, two options, two prices, and at most
three of edit, mishap and new prices together (`PlanMeetsTwo`): what invalidates a
plan, and one thing that comes while it is being dealt with. RCEm: two events and a
failure, so that a measurement meets a solver that then fails, and a queue of one.
Barrier: `Top = 6` leaves readings before, at and after the wrap.

In `PlanPublication`, two changes are one that withdraws a plan and one that meets the
batch made for it, and a waiting batch the third thing; the periodic timer that meets a
batch counts as a change, or it would keep the bounded queue full. Three attempts per
batch are the code's own bound.

**Fairness** (`Fairness` in `EspLease`): weak fairness of time and of the poll
being queued, since ESPHome's `update_interval` runs in the main loop whatever
Home Assistant does. Strong fairness of the timer's actions: it runs every
second, and a reading stays fresh for 15, so it cannot come too late every time.
Strong fairness of an answered poll and of an applied write: the Modbus
component may lose any command, but not all of them for ever. Without that, an
inverter that never answers keeps the lease for ever, for the firmware has
nothing to decide on. That an answer is complete and in range is not assumed: `LeaseEnds`
names the one case in which it would have to be (`Stuck`). No fairness is assumed of Home Assistant or of a save.

`FairSpec` in `SupervisorController` (stated for the controller in `MCLive`): weak fairness of polling, of the queue, of
readings reaching Home Assistant, of the lease timer, of an answer or a timeout
for a request, and of the reconciliation steps of a stop, which every reading
triggers (`async_reconcile`). Strong fairness of `SendRestore`: the restore is
rejected when a newer reading arrives between its save and its dispatch, which
are milliseconds apart while readings are seconds apart. None of the firmware
accepting anything, nor of gates being open.

`ExecutionRanges`: weak fairness of the worker (its saves and calls have timeouts)
and of the timer; strong fairness of frames, because the controller publishes one on
every reconciliation and a full queue loses some, not all; strong fairness of time,
which only the bound on the age of a queued observation holds back. None of the
executor doing anything, nor of a confirmation coming.

`PlanPublication`: weak fairness of the 120-second timer when the sensor is idle, of the
lock being handed on and of a batch going on (its waits have timeouts); strong fairness
of the deadline of GCF, five seconds against 120. None of the debounce, the retry or any
event: `PlansComeBack` rests on the timer alone. `RiskPlan`: weak fairness of the hourly
timer, of the lock and of the batch; strong fairness of the recorder's answer, which may
be a failure every time. None of the ten-minute timer, which an overdue history stops.

`DynamicPlan`, for `dynamic_switch`: every await ends, locks are first come first
served, timers fire; so the counterexample is not a system that merely stopped.

## 4. What is proved

`ControlLeaseProofs`, about `EspLease`, for any sets of blocks, sessions, transactions and nonces, any
bounds and any number of mishaps, from `BlocksAssumption`, `MarksAssumption` and
`BoundsAssumption`:

| Theorem | States |
| --- | --- |
| `TypeCorrect` | `Spec => []TypeOK` |
| `BarrierHolds` | `Spec => []BarrierCovers` |
| `ForceRecoverable` | `Spec => []RecoverableForce` |
| `WindowKept` | `Spec => WindowSpec` (initial states and steps of the refinement) |
| `ProofCurrent` | `Spec => []ProofOfLastTransaction` |

The inductive invariant is built in layers, each inductive relative to the ones
before it:
1. `Typed`: `TypeOK`, a live state has a record, a fresh reading is a block.
2. `BusInv`: one poll in the queue; behind it only the write the barrier waits
   for, and then the barrier has seen no mismatch; everything else repeats the
   last reading. This is the argument for two mismatches: the first answer may
   have been asked for before the write, the second cannot.
3. `WaitInv`: a forced write is waited for only while its lease is pending or
   has run out; otherwise a leased block is the one last read. `RecoverableForce`
   is not inductive without it: a boot or a retarget between queueing and
   answering would lose the owner of a block in flight.
4. `ForceInv`: every forced block on the inverter or in the queue is owned by the
   lease in flash and by the live record.
5. `DeadlineInv`: only an armed lease has time left, which makes every end of a
   lease a step of `ForcedWindow`.
6. `ProofInv`: a proof and a lease that flash holds together are of one
   transaction. The order of the saves (proof retired first) is what keeps it.

`GivenUpSound`, in the same module: `BarrierSpec => GivenUpOnEvidence` for every `Top`.

`ControlLeaseProofs`, about `ControlLease`, for any sessions, transactions and nonces, any lengths of time and
any number of messages in transit, from the assumptions of `EspLease` and
`ClientAssumption` (numbers are naturals, `None` is no pending renewal):

| Theorem | States |
| --- | --- |
| `RightsWithinFirmware` | `LeaseSpec => []ClientWithinFirmware` |
| `LeaseWithinPolicy` | `LeaseSpec => []WithinPolicy` |

Neither end sees the other's clock, so neither property is inductive. `LeaseInv` adds:
1. `PolicyInv`: a request under the nonce in force states its horizon from the receipt
   of the nonce, after the firmware drew it. What the firmware subtracts is at least what
   passed, so it grants no second beyond the end the request meant.
2. `IdentityInv` and `SpentInv`: the arm in hand has an identity that nothing else in
   transit or held has, and the nonce of a granted arm is never in force again: a
   request seen twice cannot grant a second lease under one identity.
3. `OfferInv` and `RightInv`: a response in transit offers, counted from when its request
   was first sent, no more than the firmware still grants; and no message of a lease
   is ahead of the sequence held by more than the renewal that is uncertain.

Every outcome of a request is first put into one of four forms (`Granted`, `Extended`,
`Repeated`, `Refused`; lemma `Outcomes`), every step of the firmware alone into one
(`Kept`), so the actions of `EspLease` are opened once.

`NotificationProofs`, about `PushLedger`, for any number of ranges and mishaps, any budget
and window, from `LedgerAssumption`:

| Theorem | States |
| --- | --- |
| `PushedOnce` | `Spec => []AtMostOnePush` |
| `BudgetHolds` | `Spec => []WithinBudget` |
| `EventsDecided` | `Spec => []AllDecided` |

An event that was pushed is never again "to be sent" in RAM, in the Store or in the
payload a save is writing; that, for each of the three, is what makes one push
inductive across a restart. The budget needs an injection from the pushes within the
window into the charges, in RAM and in each ledger a restart may take: cardinalities
are compared only at the end. `AllDecided` speaks of a resting worker; `DecidedInv` says
of a busy one that what is pending is still to do, that only the current event is being
sent, and that one whose outcome is being saved has come to its end.

In the same module `EndsStayTrue`, `RangesSpec => []EndsAreTrue`, for any number of
transactions and policies, any length of the queue, continuity period and lag, any
number of restarts and failed saves, from `RangesAssumption` (the queue holds at least
one observation). What an END says is true of transactions that cannot come back
(`Ended`, `Released`); the invariant carries that from the frame to the END:
1. `Faithful`: what an observation says of its transaction was true and stays so.
   `RangeSound`: a range in memory or in the Store has no transaction that failed, and a
   confirmed one has only released ones.
2. `InOrder` and `After`: executions are observed in the order of their transactions,
   after those the range has. `EndsLast`: the end of a transaction comes behind its
   executions.
3. `EndsCome`: the end of a transaction comes before the executions of the next, so all
   of the range is older, or it is what the timer of a gap repeated. A repetition may be
   late, behind executions of a later transaction; then it is of no transaction of the
   range, or the range was confirmed already (`DealtWith`, carried for the last
   observation by `LastInv`).

What a full queue gives up only takes observations away: `Within` says that what is left
keeps its order, whatever its age, and lemma `WithinKeeps` that all of the above holds of
any such queue. So neither the choice of what is given up nor the length of the queue
matters to what an END says.

`SetupProofs`, about `SeedAndCopy`, for any entries and values, any number of edits and mishaps, from
`SeedAssumption` (the constants are distinct: the first value the seeder writes is
none Home Assistant would give by itself):

| Theorem | States |
| --- | --- |
| `UserEditsKept` | `SeedSpec => EditsKept` |
| `MeantCopies` | `SeedSpec => CopyIsMeant` |
| `OneDecision` | `SeedSpec => DecidedOnce` |

The invariant says who may stand between a plan and its call (one entry, by its lock),
which origins each value and restored state may have, and that a decision the Store has
is in the ledger of every pass that may still call.

`DynamicPlanProofs`, for any operators, options and prices and any number of edits and
mishaps: `OnePlanInForce` (`PlanSpec => []PairInForce`) and `ProfileIsSaved` (`PlanSpec =>
[]ProfileSaved`), the latter from `PlanAssumption`. `PairInForce` is not inductive: while
the key is withdrawn the sensors show plans of anything. The invariant is
`ShownInv /\ CurrentInv /\ SecondInv`: only what was solved is shown as Pstryk's; a
plan still marked current under a key is of the present source; and between the two
publications of one plan no input moves, for there is no await.

`ProfileSaved` needs to know which of two payloads a Store holds: profiles carry an
epoch that every change raises, a profile in the Store or on its way there is an earlier
one or the present (`Behind`), the one on its way is never older than the one there, and
prices are asked for only under a profile that was saved (`RefreshInv`, `CacheInv`).

`PlanPublicationProofs`, for any policies of GCF and any bounds, from the two assumptions
of its module:

| Theorem | States |
| --- | --- |
| `AlwaysFresh` | `PublicationSpec => []CurrentIsFresh` |
| `OneSnapshot` | `PublicationSpec => PublishedOnOneSnapshot` |
| `NeverLeftWaiting` | `PublicationSpec => []NotLeftWaiting` |

Nothing a batch publishes is trusted for what it was when the solver started:
`KnowsInv` says that a solver whose revision did not move has captured the applied policy
of GCF, that this is the one the readbacks mean unless they are being collected, and that a
current result has seen every delivered event. `OneSnapshot` states what `Stale` secures
and no more: agreement in what the fingerprint holds, for RCE with the samples it was
revalidated on. `NotLeftWaiting` adds where a batch may
stand when the deadline is not armed (`WaitInv`) and no five-minute delay runs.

`RiskPlanProofs`, for any bounds: `EmergencySeen` (`RiskSpec => []EmergencyIsSeen`) and
`EmergencyPresent` (`RiskSpec => EmergencyIsPresent`). `EmergencyIsSeen` speaks of a free
lock. The invariant says of a held one that what is published is true or a measurement
that will correct it waits (`TrueOrComing`), and that a solver whose fingerprint did not
change was given the voltage of now (`CapturedNow`).

`SetupProofs`, about `PackageInstall`, for any releases and texts and any number of edits, failures and
deaths, from `PackageAssumption` (a user's text is none that was shipped):

| Theorem | States |
| --- | --- |
| `PackageTypesHold` | `PackageSpec => []PackageTypeOK` |
| `TextsKept` | `PackageSpec => []UserTextKept` |
| `RefusalsUndone` | `PackageSpec => []RefusalUndone` |
| `UntouchedManaged` | `PackageSpec => []UntouchedIsManaged` |

All three properties but the types speak of where a transaction ends; the invariants say
what the file is of what was captured at every step of it. `Recoverable`: before a write
the captured text is in the backup or was moved away with it, a file that is `same` still
is what the transaction saw last, and only an edit after the last check (`late`) can make
it another; before a roll-back removes anything, it is the release's text. `Reversible`
and `Attributable` follow the file and the metadata through the undisturbed transaction,
and through all those that transactions alone wrote: each outcome that is not torn leaves
a text the Store knows.

`SupervisorControllerProofs`, for any blocks, any kinds of mishaps and any number of
arms, MASTER STOPs and mishaps, from `ControllerBounds` and the assumptions of
`SupervisorExecutor`:

| Theorem | States |
| --- | --- |
| `TypesHold` | `Spec => []TypeOK` |
| `RestoresStayBounded` | `Spec => []RestoresBounded` |

Neither is inductive. What is needed first is which records exist at all. `Shape` says
who owns what in which state (`WellFormed`: while the block is wanted no restore was
attempted; a restore under way was sent; one prepared is counted). `Stands` ties the
record to the place of the coroutine: what is being dispatched is what the record says,
and an arm that may still leave has a number left. One lemma per method of the executor
states what it makes of a well-formed record (`Starts`, `Prepares`, `Sends`, ...,
`Restores`, `Stops`, `Recovers`), and in particular that it forgets no attempt
(`Follows`); `Saves` gives the outcomes of every save at once. The actions' steps are
then a few lines each.

`RestoresBounded` counts writes at the inverter, and needs three more things:
1. `Awaits`: one request at most is awaited, the one being dispatched, and it is gone
   once its answer is there. So an attempt may be given back only for a restore that did
   not leave.
2. `Paid(k)`: the restores written and those in flight (`Spent`) are covered by the
   attempts of the record in RAM that may have left (`Allowed`) and two for every MASTER
   STOP and for each of `k` times the Store forgot.
3. `Charged(k)`: the Store has those attempts too, so a restart forgets none. It is lost
   by one mishap, a failed save during a MASTER STOP, and needed by another, the restart
   that raises `k`: `Budget` therefore holds with `2 * k <= mishaps` while the Store is
   charged, and `2 * k + 1 <= mishaps` while it is not.

`OwnershipProofs`, for any blocks, any kinds of mishaps and any number of arms, MASTER
STOPs and mishaps, from the same assumptions, `PollIsNoWrite` (a poll is none of the
blocks) and `NoLeaseNoBarrier` (`None` is neither a lease nor a barrier):

| Theorem | States |
| --- | --- |
| `ForceStaysOwned` | `Spec => []ForceOwned` |
| `ForceStaysRecorded` | `Spec => []ForceRecorded` |
| `FallbacksAgree` | `Spec => []FallbackAgrees` |
| `ExecutesAlone` | `Spec => []ExecutingAlone` |
| `TransactionKept` | `Spec => TransactionSpec` (initial states and steps of the refinement) |
| `PromiseSuffices` | `Transaction!Spec => []Transaction!Recorded` |
| `OneBase` | `Spec => []Transaction!Recorded`: RAM and Store name one base while anything may act |

Home Assistant releases a transaction on a reading, and a reading may be older than the
write it is taken to answer. So the invariant, `OwnershipInvariant`, has to say what a
reading that looks like the end can have missed:
1. `FirmwareOk`, of the firmware alone: a forced block waits behind a poll only while the
   barrier waits for just that block; a reading of another block that ends the barrier
   ends the lease and finds nothing forced left.
2. `Linked`: what is being dispatched is what the record and the Store say, and the block
   in the request awaited is the record's.
3. `Secured`, while something forced may act (`Acting`): the records in RAM and in the
   Store are both owners, of one base (`Backed`). How much more each knows depends on how
   its own write stands to the last reading. `Unread`: no reading since the write, and
   the one on its way to Home Assistant cannot be taken for its acknowledgement unless it
   is. `ReadSince`: one was read, and a base read after the acknowledgement would be the
   end. `RestoreUnread`, `RestoringOk`: the same for a restore. The two records may
   stand differently, for a restart goes on from the older one.
4. While an arm is being dispatched and not taken, nothing but that arm acts (after a
   retarget: nothing but what the predecessor owns). So a refusal, a timeout and an arm
   accepted after its timeout all find an owner.

`preserved` is the one exception, as in the properties: Off-Grid releases at once.
The steps of the firmware are first reduced to what they do to the queue (`Appended` and
its like), to the requests (`Passing`) and to `FirmwareOk`; each method of the executor
has one lemma on the record it makes of an owner's (`Heir`).

`ExecutesAlone` holds after Off-Grid too, so it cannot lean on `Secured`, which is
stated outside `preserved`. `AloneInvariant` carries what it needs by itself:
1. `OnGrid`: the base of a start, and the reading an acceptable arm was sent on, are on
   the grid. So while an arm is on its way Off-Grid releases nobody.
2. `Abandoned`: an arm that nobody awaits binds its owner, in RAM and in the Store. Its
   record was never acknowledged, hence no match of the base releases it: it stays in
   the stop until a reading newer than its writes has retired the arm.
3. `TakenAlone`, `WatchedAlone`: when an arm is accepted the barrier is open, and by
   `FirmwareOk` nothing forced but its own block is behind a poll (`Sole`). The reading
   that ages the record has worked off the rest of the queue, so once the
   acknowledgement is older than the reading, nothing else is queued (`Lone`).
4. `PredAlone`: until a retarget is acknowledged only the predecessor's block is
   queued, so a cancelled retarget resumes the predecessor alone.

The refinement. `Stage` tells a record's phase from its state, its owner and the result of
its rollback; `Outline` adds the base and the latch; `TransactionSpec` reads RAM and Store
through it. Two things are missing from `OwnershipInvariant` for a step-by-step mapping,
and `PermitInvariant` adds them: an owner at work was not latched (`Permitted`), so a
command that leaves leaves under a permission; and a rollback that failed is in FAULT, with
no restore and no predecessor of a retarget beside it (`Unfailed`), so nothing revives it.
1. Each method of the executor is a move of the record: the transaction stays in its
   phase, goes on in the order of `Ways`, or is released (`Moves`, a lemma per method).
2. A step of Home Assistant that saves such a record, whatever becomes of the save, is a
   step of `OwnedTransaction` (`Steps`, `StepsTransaction`), provided that a release
   happens while nothing forced is live: `ForceOwned`, after the step, says so, unless
   Off-Grid waived it.
3. The others are mapped one by one: `Start` to `Open`, `SendArm` to `Force`, the
   firmware's steps to `Subside` or none, MASTER STOP, `Rearm` and `Restart` to theirs. A
   restart goes on with what the Store has; that this is the base of the transaction
   whose force may act is `OneBase`. It follows from the abstract steps alone
   (`PromiseSuffices`), so `OwnedTransaction` promises no less than `ForceOwned` and
   `ForceRecorded` together; `controller_stop` therefore checks only the refinement.

**Only model-checked**: liveness (`LeaseEnds`, `StopSettles`, `EndReported`,
`PlansComeBack`), which TLAPS does not reach under fairness. Every safety property of a
passing run has its theorem.

## 5. Findings

1. **Barrier across the wrap** (`barrier_wrap`). A write queued at generation
   15,999,999 whose first newer reading does not match is waited for through a
   whole lap. `settings.yaml:1504` and the contract test
   `tools/test_firmware_readback_contract.py:712` promise a release on the next
   complete generation. The consequence is refusal, not a wrong write: no block
   may be queued meanwhile, the local restore included.
2. **Predecessor after an aborted retarget** (`lease_abort`). The challenge for a
   retarget replaces the firmware's nonce. If the retarget is then not sent, the
   confirmed lease cannot be renewed and is restored at its soft expiry, where
   `supervisor_active_controller.py:1614-1620` counts on it staying valid.

3. **MASTER STOP after a refused restore** (`controller_refused`).
   `prepare_restore` retries a refused restore once a reading is newer than
   `restore_snapshot`. `request_master_stop` clears that snapshot and keeps the
   refusal count (`supervisor_executor.py:3737-3754`), so every later reading is
   answered with a wait, and after 30 seconds with a hold. Only the firmware's
   own fall-back remains, and an arm whose answer was lost has no lease identity
   to settle it with. `README.md:155-157` calls MASTER STOP the emergency
   transaction that restores verified settings.
4. **A selection whose save fails** (`dynamic_switch`). `_select` takes over the profile,
   awaits its save and only then sets the other selector. When the save fails, or falls
   into the five minutes after any failed save, nobody repeats the second half: one
   selector says Pstryk, the other does not, and neither the joint nor the classic
   planners run until the user touches a selector or Home Assistant restarts
   (`pstryk_runtime.py:212-235`, `337-339`). `dynamic_price_profile.py:5` says the two
   selectors are views of one profile.

## 6. Notes and plan

Done: the lease at both ends, the barrier, the executor and the controller for the
block 4300-4306; notifications, helpers, package file, the plans of the policies and
dynamic prices; the proofs of section 4.

Met while modelling, not claimed by a run.

Controller:
- A firmware reboot restarts the generations at 1. Home Assistant compares them
  serially, so a stop that waits for a generation newer than one from before the
  reboot waits until the count has caught up (`lost` in the model).
- A MASTER STOP with stale input in SELECTED leaves BLOCKED with a transaction
  that says SELECTED, a pair `_validate_record` refuses: it cannot be saved
  (`StopBlocked`, `Valid`, `CommitStop`).
- `async_master_stop` returns without latching while a manual write awaits its
  readback and the record is IDLE (`supervisor_active_controller.py:772-773`).

Firmware:
- An inverter that keeps showing a block out of range after an FC16 keeps the write
  barrier, and with it an expired lease, until somebody sets the register
  (`settings.yaml:1464-1470`, `1510-1512`, `1086-1088`). `SupervisorController`'s firmware
  has no such block; `WriteBarrier` models the incomplete reading.
- A Self-Use block with a register out of range is accepted as fall-back (`663-666`) but
  the write script refuses to queue it (`288-299`): its restoration ends in hold.

Notifications:
- A gap that outlasts the continuity period without a confirmation makes
  `_sync_gap_timer` set a delay of 0 and `_gap_elapsed` queue the observation again:
  the worker turns without rest until a confirmation comes.
- A confirmation that is lost, followed by another transaction, leaves the range open
  (`Belongs`); `_observations_equivalent` does not look at the transaction.
- `README.md:677` promises one push after the start and one after the confirmed end;
  for tariff and RCE the code pushes the start only (`StartOnly`).
- Assumed: a Store write that timed out does not land after a later one. Not modelled:
  steps of the clock, and the retention of 32 events.

Helpers:
- `ems_shared_input_migration.py:802-805` says a later start cannot mistake a quarantined
  ledger for a first run. A death or a failed save between the quarantine and its
  tombstone arms it again; `decided` excludes exactly that case.
- A copy that is confirmed while Home Assistant dies before its next dump of states is
  lost, and its ledger says copied. A failed write is not retried after an orderly
  restart, since the context of a baseline never matches again.
- The recheck before a service call and the call are one step, as no await is between.

Package:
- Every second update is refused until the user moves the fixed backup away.
- A death between the replacement and the postflight leaves the new package even when
  its helpers collide; one between the replacement and the save, with another release
  later, makes an untouched package look modified (`own` excludes it).
- What is written between the last check and the replacement is lost (`late`).

Dynamic prices:
- A classic solve in flight while the sale goes to Pstryk and back during an unfinished
  switch shows a classic plan, with the gate "not involved" although `active`
  (`pstryk_runtime.py:115`).
- A change of a selector during the save in `_select` is overwritten by the profile.
- New prices may be planned with before the fetch's own save has ended.

Plans:
- When GCF changes its meaning or is late, the tariff arms five minutes
  (`tariff_sensor.py:1707-1712`), which its 120-second timer cancels (`1808-1810`). While
  they run a helper the user edits arms nothing of its own (`1428`) and also waits for the
  timer, although its own delay is one second. Only a policy that was just enabled starts
  a refresh of its own (`1701-1704`).
- The tariff remembers that a recovery was armed for inputs that came back
  (`tariff_sensor.py:1951-1957`) until the debounce's batch ends; inputs that leave and
  come back in between arm nothing (`1465`) and wait for the 120-second timer.
- RCE has no counterpart of the tariff's `_schedule_forecast_gcf_recovery_if_pending`
  (`tariff_sensor.py:1652-1667`): readbacks that return to the policy they had leave a
  withdrawn RCE plan to the timer (`rce_sensor.py:3574-3612`). Nor does it keep its
  debounce when a result is taken while a note is open. Hence `Tariff` in
  `NotLeftWaiting`.
- RCEm commits a result of missing inputs or of an error as current while the last full
  plan may still be young; the next live refresh then publishes that plan with authority
  (`rcm_sensor.py:3570`, `1714-1722`), which `_retain_last_complete_plan` (4401) denies to
  a retained one.
- One failed hourly read of the recorder leaves RCEm's history overdue; the ten-minute
  plan is then skipped and the cache lapses after 630 seconds
  (`rcm_sensor.py:1363-1386`). `PlansComeBack` holds all the same, by the hourly timer.

Next, in order:
1. Manual writes; the export and charge limits as further register families.
2. Ledger and accounting: append once, close once, restart in the middle; the arbiter
   against its precedence table.

## 7. Not modelled, and why

The repository has about 128,000 lines of implementation; the greater part are release
tools with copies of earlier releases as fixtures, forecasts, optimizers, and sensor
entities that compute attributes. They have no protocol a model checker could say
anything about, so the map covers the stateful core and stays a small share of the
lines.

- Planning and forecasts: floating-point optimisation over prices; no protocol.
- Release tools: scripts that build and validate; no part of the running system.
- Dashboards, assets other than the package, localization, diagnostics: presentation.
- Register declarations in the other firmware packages: no behaviour.
- Arbiter: a function of the policies' snapshots without state, whose output the
  controller's model lets change at any step.
- Canonical runtime, ledger, accounting: planned (section 6). The controller's model does
  not depend on them. `OriginLedger.observe` has no caller in the integration.
- Caches and histories: bounded lists replaced as a whole; price caching is modelled
  where a plan depends on it (`DynamicPlan`).
- In the executor: the registers 259 and 306, a tariff action adopted without a
  write, the evidence behind each gate (a step may find any gate closed), the
  hold of a waiting transaction during a replan, the identity of the policies, manual
  writes.
- In the lease: hashes, CRCs and identifiers are collision free; the boot epoch
  does not wrap; the detail of each refusal code is left out, a refusal is one
  answer; the retry of an arm on an advanced snapshot generation is a new arm;
  writes of single registers by the user appear only as the neutral block write
  and as `OutsideChange`.
- In the services: message texts; the evidence of a fresh install and the decoding of
  the ledgers (inputs of `SeedAndCopy`); how colliding helpers are found (an input of
  `PackageInstall`); the solver, the commitments of active runs and the PV delay (an
  input of `DynamicPlan` or left out). Liveness is checked for ranges only: that pushes
  are decided is the invariant `AllDecided`, and of the joint plan only safety is
  claimed, since whether prices come is not in the code's hands.
- In the plans: what a plan contains; the slot deadline of a retained plan and the
  recorder's models (`PlanPublication`); a measurement that ages without an event and the
  readiness of the actuators (`RiskPlan`).
- The accounting's runtime hands the calculation no source of Grid-to-Battery energy
  (`supervisor_accounting_runtime.py:232-240` passes `None`), so no interval qualifies.
