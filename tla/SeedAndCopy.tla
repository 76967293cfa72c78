----------------------------- MODULE SeedAndCopy -----------------------------
(***************************************************************************)
(* How a helper of the user gets its first value.  A fresh install seeds    *)
(* the default of a legacy helper, the source (ems_initial_defaults.py);    *)
(* then the source is copied, once, to the shared helper that replaces it,  *)
(* the target (ems_shared_input_migration.py).  Each keeps a ledger that is *)
(* saved before and after its write.  The set-up of every config entry runs *)
(* the seeder and then the copy, each under a lock of its own, as long as   *)
(* Home Assistant is starting.  The user edits either helper meanwhile;     *)
(* saves and calls fail; a ledger may be unreadable; and Home Assistant may *)
(* die, which takes it back to the helpers' states as last dumped.          *)
(*                                                                         *)
(* One pair of helpers stands for each: the fields of a ledger are decided  *)
(* one by one.                                                              *)
(***************************************************************************)
EXTENDS Naturals, FiniteSets

CONSTANTS
    Missing,
    Entries,            \* config entries
    Unset,              \* what the target has when nobody gave it a value
    Fallback,           \* what Home Assistant gives the source: its minimum
    Default,            \* what the seeder gives it
    Chosen,             \* what else a user may choose
    MaxEdits,           \* bound: edits by the user
    MaxFaults           \* bound: restarts, saves and calls that fail, lost ledgers

Values == {Fallback, Default} \cup Chosen
\* Who a value comes from; "old" is the source's from before the target existed.
Origins == {"framework", "old", "seed", "user", "copy"}
States == [val : Values \cup {Unset}, org : Origins, touched : BOOLEAN]

ASSUME SeedAssumption ==
    /\ Missing \notin States /\ Missing \notin Values \cup {Unset}
    /\ Fallback # Default /\ Unset \notin Values

VARIABLES
    source, target,     \* the helpers: a value, who it comes from, and whether
                        \* it was touched since the start
    loaded,             \* the package with the target is loaded
    restored,           \* last_states: the helpers the start took from the dump
    dump,               \* the helpers' states in Home Assistant's restore state
    started,            \* hass.is_running
    stage,              \* the await each entry's set-up stands at
    trust,              \* what its seeder's pass tells the copy
    seedDisk, copyDisk, \* the ledgers in the Store,
    seed, copy,         \* and in the pass that holds the lock
    moved,              \* source or target changed since the copy was planned
    decided,            \* history: the copy was decided, and the Store knew
    edits, faults
helpers == <<source, target>>
boot == <<loaded, restored, started>>
ledgers == <<seedDisk, copyDisk, seed, copy>>
seedVars == <<helpers, boot, dump, stage, trust, ledgers, moved, decided, edits, faults>>

NoLedger == {"absent", "junk"}
SeedStatus == {"new", "retry", "seeded", "kept", "invalid"}
Seeds == [auth : BOOLEAN, status : SeedStatus \cup NoLedger, current : BOOLEAN]
CopyStatus == {"new", "retry", "copied", "kept"}
Copies == [status : CopyStatus \cup NoLedger, expected : Values \cup {Missing}]
SeedAt == {"seedTomb", "seedSave", "seedCall", "seedRead", "seedSettle"}
CopyAt == {"copyTomb", "copySave", "copyCall", "copyRead", "copySettle"}

SeedTypeOK ==
    /\ source \in States /\ target \in States /\ loaded \in BOOLEAN
    /\ restored \subseteq {"source", "target"} /\ started \in BOOLEAN
    /\ dump \in [{"source", "target"} -> States \cup {Missing}]
    /\ stage \in [Entries -> {"seed", "copy", "done"} \cup SeedAt \cup CopyAt]
    /\ trust \in [Entries -> {"blocked", "plain", "seeded"}]
    /\ seedDisk \in Seeds /\ seed \in Seeds \cup {Missing}
    /\ copyDisk \in Copies /\ copy \in Copies \cup {Missing}
    /\ moved \in BOOLEAN /\ decided \in BOOLEAN /\ faults \in 0..MaxFaults
    /\ edits \in 0..MaxEdits

State(val, org) == [val |-> val, org |-> org, touched |-> FALSE]
Seed(auth, status) == [auth |-> auth, status |-> status, current |-> FALSE]
Copy(status) == [status |-> status, expected |-> Missing]

\* What a start makes of the helpers.
Boots(stored) ==
    /\ source' = IF stored.source = Missing THEN State(Fallback, "framework") ELSE stored.source
    /\ target' = IF stored.target = Missing THEN State(Unset, "framework") ELSE stored.target
    /\ restored' = {h \in {"source", "target"} : stored[h] # Missing}
    /\ loaded' \in BOOLEAN
    /\ started' = FALSE /\ moved' = FALSE /\ seed' = Missing /\ copy' = Missing
    /\ stage' = [e \in Entries |-> "seed"] /\ trust' = [e \in Entries |-> "blocked"]

\* A fresh install is authorized to seed (async_authorize_fresh_install); an upgrade
\* is not, and has a source from before unless that is new too.
SeedInit ==
    /\ \/ seedDisk = Seed(TRUE, "new") /\ dump = [source |-> Missing, target |-> Missing]
       \/ /\ seedDisk \in {Seed(FALSE, "absent"), Seed(FALSE, "new")}
          /\ dump \in [source : {Missing} \cup {State(v, "old") : v \in Values}, target : {Missing}]
    /\ source = IF dump.source = Missing THEN State(Fallback, "framework") ELSE dump.source
    /\ target = State(Unset, "framework") /\ loaded \in BOOLEAN /\ started = FALSE
    /\ restored = {h \in {"source", "target"} : dump[h] # Missing}
    /\ copyDisk = Copy("absent") /\ seed = Missing /\ copy = Missing /\ moved = FALSE
    /\ stage = [e \in Entries |-> "seed"] /\ trust = [e \in Entries |-> "blocked"]
    /\ decided = FALSE /\ edits = 0 /\ faults = 0

-----------------------------------------------------------------------------
(* The user, Home Assistant and the disk.                                  *)
Fault == faults < MaxFaults /\ faults' = faults + 1 /\ UNCHANGED edits
Edit == edits < MaxEdits /\ edits' = edits + 1
EditSource ==
    /\ \E v \in Values : source' = [val |-> v, org |-> "user", touched |-> TRUE]
    /\ moved' = TRUE /\ Edit
    /\ UNCHANGED <<target, boot, dump, stage, trust, ledgers, decided, faults>>
EditTarget ==
    /\ loaded
    /\ \E v \in (Values \cup {Unset}) \ {target.val} :
          target' = [val |-> v, org |-> "user", touched |-> TRUE]
    /\ moved' = TRUE /\ Edit
    /\ UNCHANGED <<source, boot, dump, stage, trust, ledgers, decided, faults>>
Started ==
    /\ ~started /\ started' = TRUE
    /\ UNCHANGED <<helpers, loaded, restored, dump, stage, trust, ledgers, moved, decided,
                   edits, faults>>

\* The states are dumped now and then, and when Home Assistant stops in an orderly
\* way; a helper that is not loaded keeps what it had.
Dumped(s) == [s EXCEPT !.touched = FALSE]
Dump ==
    /\ dump' = [source |->
                  [Dumped(source) EXCEPT !.org = IF ~loaded /\ @ = "framework" THEN "old" ELSE @],
                target |-> IF loaded THEN Dumped(target) ELSE dump.target]
    /\ UNCHANGED <<helpers, boot, stage, trust, ledgers, moved, decided, edits, faults>>
\* Home Assistant stops and starts, orderly after a Dump.  A baseline of before it
\* has a context that no state has any more.
Reboot ==
    /\ Boots(dump)
    /\ seedDisk' = [seedDisk EXCEPT !.current = FALSE]
    /\ decided' = (decided /\ \A e \in Entries : stage[e] # "copyTomb")
    /\ Fault /\ UNCHANGED <<dump, copyDisk>>
Corrupt ==
    /\ \/ seedDisk.status # "absent" /\ seedDisk' = Seed(FALSE, "junk") /\ UNCHANGED copyDisk
       \/ copyDisk.status # "absent" /\ copyDisk' = Copy("junk") /\ UNCHANGED seedDisk
    /\ Fault /\ UNCHANGED <<helpers, boot, dump, stage, trust, seed, copy, moved, decided>>

\* The entry is set up again: reloaded by the user, or retried.
Reload(e) ==
    /\ stage[e] = "done" /\ stage' = [stage EXCEPT ![e] = "seed"]
    /\ UNCHANGED <<helpers, boot, dump, trust, ledgers, moved, decided, edits, faults>>

-----------------------------------------------------------------------------
(* EMSInitialDefaultSeeder.                                                *)
Goes(e, step) == stage' = [stage EXCEPT ![e] = step]
Free(steps) == \A e \in Entries : stage[e] \notin steps

\* blocked_shared_migration_targets and trusted_shared_migration_source_values.
TrustOf(s) ==
    IF s.status = "invalid" THEN "blocked"
    ELSE IF ~s.auth THEN "plain"
    ELSE IF s.status = "seeded" THEN "seeded"
    ELSE IF s.status = "kept" THEN "plain"
    ELSE "blocked"
SeedReturns(e, s) == Goes(e, "copy") /\ trust' = [trust EXCEPT ![e] = TrustOf(s)] /\ seed' = Missing
SeedRaises(e) == Goes(e, "copy") /\ trust' = [trust EXCEPT ![e] = "blocked"] /\ seed' = Missing

Pristine(s) == ~s.touched
SeedDecided(s) == s.status \in {"seeded", "kept", "invalid"}

\* plan_default_seeds.
SeedPlan(s) ==
    IF s.status = "retry" /\ source.val = Default THEN [s EXCEPT !.status = "seeded"]
    ELSE IF "source" \in restored THEN [s EXCEPT !.status = "kept"]
    ELSE IF s.status = "retry" THEN
        IF s.current /\ source.val = Fallback /\ Pristine(source) THEN s
        ELSE [s EXCEPT !.status = "kept"]
    ELSE IF Pristine(source) /\ source.val = Fallback
    THEN [s EXCEPT !.status = "retry", !.current = TRUE]
    ELSE [s EXCEPT !.status = "kept"]

\* An unreadable ledger was moved away; a tombstone takes its place.
SeedQuarantine(e) ==
    /\ stage[e] = "seed" /\ Free(SeedAt) /\ seedDisk.status = "junk"
    /\ seedDisk' = Seed(FALSE, "absent") /\ seed' = Seed(FALSE, "invalid")
    /\ Goes(e, "seedTomb")
    /\ UNCHANGED <<helpers, boot, dump, trust, copyDisk, copy, moved, decided, edits, faults>>

SeedLoad(e) ==
    /\ stage[e] = "seed" /\ Free(SeedAt) /\ seedDisk.status # "junk"
    /\ LET s == IF seedDisk.status = "absent" THEN Seed(FALSE, "new") ELSE seedDisk
       IN \/ SeedReturns(e, s)      \* not authorized, or not for what is installed now
          \/ /\ s.auth /\ ~started /\ ~SeedDecided(s)
             /\ seed' = SeedPlan(s) /\ Goes(e, "seedSave") /\ UNCHANGED trust
    /\ UNCHANGED <<helpers, boot, dump, seedDisk, copyDisk, copy, moved, decided, edits, faults>>

\* The ledger is saved, or an exception ends the pass.
SeedStep(e, step) ==
    /\ stage[e] = step
    /\ UNCHANGED <<target, boot, dump, copyDisk, copy, decided>>
SeedSaved(e) ==
    /\ SeedStep(e, "seedSave") /\ seedDisk' = seed
    /\ IF seed.status = "retry" THEN Goes(e, "seedCall") /\ UNCHANGED <<trust, seed>>
       ELSE SeedReturns(e, seed)
    /\ UNCHANGED <<source, moved, edits, faults>>
SeedFinal(e) ==
    /\ SeedStep(e, "seedTomb") \/ SeedStep(e, "seedSettle")
    /\ seedDisk' = seed /\ SeedReturns(e, seed) /\ UNCHANGED <<source, moved, edits, faults>>
SeedSaveFails(e) ==
    /\ \E step \in {"seedTomb", "seedSave", "seedSettle"} : SeedStep(e, step)
    /\ SeedRaises(e) /\ Fault /\ UNCHANGED <<source, seedDisk, moved>>

SeedCallsUnchecked(e) ==    \* mutant: the call is made as planned, without a recheck
    /\ SeedStep(e, "seedCall")
    /\ source' = State(Default, "seed") /\ moved' = TRUE /\ Goes(e, "seedRead")
    /\ UNCHANGED <<seed, trust, seedDisk, edits, faults>>
SeedCalls(e) ==
    /\ SeedStep(e, "seedCall")
    /\ IF Pristine(source) /\ source.val = Fallback /\ "source" \notin restored
       THEN /\ source' = State(Default, "seed") /\ moved' = TRUE
            /\ Goes(e, "seedRead") /\ UNCHANGED seed
       ELSE /\ seed' = [seed EXCEPT !.status = "kept"]
            /\ Goes(e, "seedSettle") /\ UNCHANGED <<source, moved>>
    /\ UNCHANGED <<trust, seedDisk, edits, faults>>
SeedCallFails(e) ==
    /\ SeedStep(e, "seedCall")
    /\ Goes(e, "seedSettle") /\ Fault
    /\ UNCHANGED <<source, trust, seedDisk, seed, moved>>
\* The readback counts if it has the context of the call.
SeedReads(e) ==
    /\ SeedStep(e, "seedRead") /\ Goes(e, "seedSettle")
    /\ seed' = [seed EXCEPT !.status = IF source.org = "seed" THEN "seeded" ELSE "retry"]
    /\ UNCHANGED <<source, trust, seedDisk, moved, edits, faults>>

-----------------------------------------------------------------------------
(* EMSSharedInputMigrationCoordinator.                                     *)
CopyDone(e) == Goes(e, "done") /\ copy' = Missing
CopyDecided(c) == c.status \in {"copied", "kept"}
Kept == Copy("kept")
ProvenanceAny(e) == TRUE    \* mutant: any value of the source will do
Provenance(e) ==
    "source" \in restored \/ (trust[e] = "seeded" /\ source.val = Default)

\* plan_copy_once.  A helper that is missing or unavailable leaves the decision open;
\* it forgets that a copy was pending.
CopyPlan(e, c) ==
    IF CopyDecided(c) THEN c
    ELSE IF trust[e] = "blocked" \/ ~loaded THEN [c EXCEPT !.status = "new"]
    ELSE IF "target" \in restored THEN Kept
    ELSE IF c.status = "retry" /\ target.val = c.expected THEN [c EXCEPT !.status = "copied"]
    ELSE IF target.val # Unset \/ ~Provenance(e) THEN Kept
    ELSE IF c.status = "retry" /\ source.val # c.expected THEN Kept
    ELSE [status |-> "retry", expected |-> source.val]

CopyQuarantineAnew(e) ==    \* mutant: an unreadable ledger is taken for a first run
    /\ stage[e] = "copy" /\ Free(CopyAt) /\ copyDisk.status = "junk"
    /\ copyDisk' = Copy("absent") /\ copy' = Copy("new") /\ Goes(e, "copyTomb")
    /\ UNCHANGED <<helpers, boot, dump, trust, seedDisk, seed, moved, decided, edits, faults>>
CopyQuarantine(e) ==
    /\ stage[e] = "copy" /\ Free(CopyAt) /\ copyDisk.status = "junk"
    /\ copyDisk' = Copy("absent") /\ copy' = Kept /\ Goes(e, "copyTomb")
    /\ UNCHANGED <<helpers, boot, dump, trust, seedDisk, seed, moved, decided, edits, faults>>

CopyLoad(e) ==
    /\ stage[e] = "copy" /\ Free(CopyAt) /\ copyDisk.status # "junk"
    /\ IF started THEN CopyDone(e) /\ UNCHANGED moved
       ELSE /\ copy' = CopyPlan(e, IF copyDisk.status = "absent" THEN Copy("new") ELSE copyDisk)
            /\ Goes(e, "copySave") /\ moved' = FALSE
    /\ UNCHANGED <<helpers, boot, dump, trust, seedDisk, seed, copyDisk, decided, edits, faults>>

CopyStep(e, step) ==
    /\ stage[e] = step
    /\ UNCHANGED <<source, boot, dump, trust, seedDisk, seed>>
CopySaved(e) ==
    /\ CopyStep(e, "copySave")
    /\ copyDisk' = copy /\ decided' = (decided \/ CopyDecided(copy))
    /\ IF copy.status = "retry" THEN Goes(e, "copyCall") /\ UNCHANGED copy ELSE CopyDone(e)
    /\ UNCHANGED <<target, moved, edits, faults>>
CopyFinal(e) ==
    /\ CopyStep(e, "copyTomb") \/ CopyStep(e, "copySettle")
    /\ copyDisk' = copy /\ decided' = (decided \/ CopyDecided(copy))
    /\ CopyDone(e) /\ UNCHANGED <<target, moved, edits, faults>>
CopySaveFails(e) ==
    /\ \E step \in {"copyTomb", "copySave", "copySettle"} : CopyStep(e, step)
    /\ CopyDone(e) /\ decided' = (decided /\ stage[e] # "copyTomb")
    /\ Fault /\ UNCHANGED <<target, copyDisk, moved>>

CopyCalls(e) ==
    /\ CopyStep(e, "copyCall")
    /\ IF ~moved /\ target.val = Unset /\ "target" \notin restored /\ Provenance(e)
       THEN /\ target' = State(copy.expected, "copy") /\ moved' = TRUE
            /\ Goes(e, "copyRead") /\ UNCHANGED copy
       ELSE /\ copy' = Kept /\ Goes(e, "copySettle") /\ UNCHANGED <<target, moved>>
    /\ UNCHANGED <<copyDisk, decided, edits, faults>>
CopyCallFails(e) ==
    /\ CopyStep(e, "copyCall") /\ Goes(e, "copySettle") /\ Fault
    /\ UNCHANGED <<target, copyDisk, copy, moved, decided>>
CopyReads(e) ==
    /\ CopyStep(e, "copyRead") /\ Goes(e, "copySettle")
    /\ copy' = [copy EXCEPT !.status = IF target.org = "copy" THEN "copied" ELSE "retry"]
    /\ UNCHANGED <<target, copyDisk, moved, decided, edits, faults>>

-----------------------------------------------------------------------------
Setup(e) ==
    \/ Reload(e)
    \/ SeedQuarantine(e) \/ SeedLoad(e) \/ SeedSaved(e) \/ SeedFinal(e) \/ SeedSaveFails(e)
    \/ SeedCalls(e) \/ SeedCallFails(e) \/ SeedReads(e)
    \/ CopyQuarantine(e) \/ CopyLoad(e) \/ CopySaved(e) \/ CopyFinal(e) \/ CopySaveFails(e)
    \/ CopyCalls(e) \/ CopyCallFails(e) \/ CopyReads(e)
SeedNext ==
    \/ EditSource \/ EditTarget \/ Started \/ Dump \/ Reboot \/ Corrupt
    \/ \E e \in Entries : Setup(e)
SeedSpec == SeedInit /\ [][SeedNext]_seedVars

-----------------------------------------------------------------------------
Seeding == source' # source /\ \E e \in Entries : SeedCalls(e)
Copying == target' # target /\ \E e \in Entries : CopyCalls(e)

\* What the user chose stays, the value the helper has anyway included, and whether
\* chosen in this run or restored from one before.  Only a target the user emptied
\* in this run is as good as new.
EditsKept ==
    [][/\ Seeding => source.org # "user"
       /\ Copying => target.org # "user" \/ (target.touched /\ target.val = Unset)]_seedVars

\* What is copied is what the source has, and somebody chose it: the user, the seeder,
\* or an earlier release.  The minimum Home Assistant gave the source is not copied.
CopyIsMeant ==
    [][Copying => target'.val = source.val /\ source.org # "framework"]_seedVars

\* Once the Store has a decision nothing is copied any more: not in another entry's
\* set-up, not after a restart, and not where that ledger was lost, unless its
\* tombstone was lost as well.
DecidedOnce == [][Copying => ~decided]_seedVars
=============================================================================
