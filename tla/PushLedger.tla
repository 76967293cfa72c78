------------------------------ MODULE PushLedger ------------------------------
(***************************************************************************)
(* How the energy manager pushes what it reports (ems_notifications.py).   *)
(* The START and the END of a range are recorded in a ledger, saved, and   *)
(* handed to the provider of push messages; before that call the message   *)
(* is marked as being sent and charged to a budget, and both are saved.    *)
(* Every await of the worker is a state of `at', so a restart, a save that *)
(* fails and the time that passes come in between.                         *)
(*                                                                         *)
(* Executions are numbered: the id of a range is a digest of the instant   *)
(* its execution was first verified.  ExecutionRanges has how a range      *)
(* follows the executor; here it opens, goes on and ends as it may.  Time  *)
(* is the age of a charge, saturated at Window, where it counts no longer. *)
(***************************************************************************)
EXTENDS Naturals, FiniteSets

CONSTANTS
    None,
    MaxRanges,      \* bound: executions
    StartOnly,      \* the ranges of _START_ONLY_POLICIES
    MaxStarts,      \* _MAX_START_PUSHES
    Window,         \* _START_PUSH_WINDOW
    MaxMishaps      \* bound: restarts, failed saves and unreadable ledgers

RangeIds == 1..MaxRanges
ASSUME LedgerAssumption ==
    /\ MaxRanges \in Nat /\ None \notin RangeIds /\ StartOnly \subseteq RangeIds
    /\ MaxStarts \in Nat \ {0} /\ Window \in Nat \ {0} /\ MaxMishaps \in Nat

VARIABLES
    exe,        \* the latest execution,
    running,    \* and whether it still runs
    rng,        \* _model.active
    seeded,     \* _model.initialized
    first,      \* _first_observation
    recent,     \* _deliveries: what became of each event
    charged,    \* _start_push_attempts, as ages
    at,         \* the await the worker stands at
    todo,       \* the events it still has to deliver
    disk,       \* the ledger in the Store
    pushed,     \* history: how often the provider was called for an event,
    since,      \* and the age of the charge of that call
    mishaps
model == <<exe, running, rng, seeded, first>>
history == <<pushed, since>>
vars == <<model, recent, charged, at, todo, disk, history, mishaps>>

Event(r, kind) == [range |-> r, kind |-> kind]
Events == [range : RangeIds, kind : {"start", "end"}]
Lost == [range : 1..MaxStarts, kind : {"lost"}]     \* what an unreadable ledger is charged
Charges == Events \cup Lost
\* "done" stands for delivered, suppressed and unconfirmed, which are never left.
DeliveryStates == {"none", "pending", "sending", "done"}
Saving == {"init", "accept", "reserve", "settle", "final"}
Ages == 0..Window
Ledgers == [rng : RangeIds \cup {None}, seeded : BOOLEAN,
            recent : [Events -> DeliveryStates], charged : [Charges -> Ages]]

TypeOK ==
    /\ exe \in 0..MaxRanges /\ running \in BOOLEAN /\ (running => exe \in RangeIds)
    /\ rng \in RangeIds \cup {None} /\ seeded \in BOOLEAN /\ first \in BOOLEAN
    /\ recent \in [Events -> DeliveryStates] /\ charged \in [Charges -> Ages]
    /\ at \in {"off", "idle", "deliver", "call"} \cup Saving /\ todo \subseteq Events
    /\ disk \in Ledgers
    /\ pushed \in [Events -> 0..2] /\ since \in [Events -> Ages] /\ mishaps \in 0..MaxMishaps

Payload == [rng |-> rng, seeded |-> seeded, recent |-> recent, charged |-> charged]
NoEvents == [ev \in Events |-> "none"]
NoCharges == [c \in Charges |-> Window]
Empty == [rng |-> None, seeded |-> FALSE, recent |-> NoEvents, charged |-> NoCharges]

Init ==
    /\ exe = 0 /\ running = FALSE /\ disk = Empty
    /\ at = "off" /\ todo = {} /\ first = TRUE
    /\ rng = None /\ seeded = FALSE /\ recent = NoEvents /\ charged = NoCharges
    /\ pushed = [ev \in Events |-> 0] /\ since = [ev \in Events |-> Window] /\ mishaps = 0

-----------------------------------------------------------------------------
Limited(ev) == ev.range \in StartOnly
Pushable(ev) == Limited(ev) => ev.kind = "start"

Spent(charges) == {c \in Charges : charges[c] < Window}
Marked(ev, state) == [recent EXCEPT ![ev] = state]
KeptAsFound(log) == log     \* mutant: what a restart interrupted is left as it was
GivenUp(log) == [ev \in Events |-> IF log[ev] = "none" THEN "none" ELSE "done"]

\* _safe_save reports that the ledger is in the Store, or that it failed: then the
\* Store has the ledger of before or, after a timeout, the new one.
Mishap == mishaps < MaxMishaps /\ mishaps' = mishaps + 1
SavedLater ==           \* mutant: a save is taken for done when it is only scheduled
    disk' \in {disk, Payload} /\ UNCHANGED mishaps
Saved == disk' = Payload /\ UNCHANGED mishaps
SaveFailed == disk' \in {disk, Payload} /\ Mishap

-----------------------------------------------------------------------------
(* async_initialize: nothing of before the start is sent again.            *)
Initialize ==
    /\ at = "off" /\ at' = "init"
    /\ rng' = disk.rng /\ seeded' = disk.seeded
    /\ recent' = GivenUp(disk.recent) /\ charged' = disk.charged
    /\ UNCHANGED <<exe, running, first, todo, disk, history, mishaps>>

UnreadableIsFree ==     \* mutant: a lost ledger has nothing charged
    /\ at = "off" /\ at' = "init" /\ Mishap
    /\ rng' = None /\ seeded' = FALSE /\ recent' = NoEvents /\ charged' = NoCharges
    /\ UNCHANGED <<exe, running, first, todo, disk, history>>
\* A ledger that cannot be read is replaced by an empty one, its budget all spent.
InitializeUnreadable ==
    /\ at = "off" /\ at' = "init" /\ Mishap
    /\ rng' = None /\ seeded' = FALSE /\ recent' = NoEvents
    /\ charged' = [c \in Charges |-> IF c \in Lost THEN 0 ELSE Window]
    /\ UNCHANGED <<exe, running, first, todo, disk, history>>

Initialized ==
    /\ at = "init" /\ at' = "idle"
    /\ Saved \/ SaveFailed
    /\ UNCHANGED <<model, recent, charged, todo, history>>

-----------------------------------------------------------------------------
(* An observation: the latest execution still runs, has ended, or is       *)
(* followed by another; and what that makes of the range.                  *)
Observed(e, on) ==
    \/ e = exe /\ (on => running)
    \/ e = exe + 1 /\ e \in RangeIds /\ on

Opens(e) ==     \* the first range after a start is not announced
    /\ rng = None /\ rng' = e
    /\ todo' = IF first THEN {} ELSE {Event(e, "start")}
GoesOn == UNCHANGED rng /\ todo' = {}
Replaced(e) ==
    /\ rng \notin {None, e} /\ rng' = e
    /\ todo' \in {{Event(rng, "end"), Event(e, "start")}}
                 \cup (IF first THEN {{Event(rng, "end")}} ELSE {})
Ends == rng # None /\ rng' = None /\ todo' = {Event(rng, "end")}
RangeFollows(e, on) ==
    IF ~seeded THEN rng' = (IF on THEN e ELSE rng) /\ todo' = {}
    ELSE IF on THEN Opens(e) \/ (rng # None /\ GoesOn) \/ (e > exe /\ Replaced(e))
    ELSE GoesOn \/ Ends

\* The worker takes an observation; what is new is recorded, to be delivered or not.
Take ==
    /\ at = "idle"
    /\ \E e \in {exe, exe + 1}, on \in BOOLEAN, configured \in BOOLEAN :
          /\ Observed(e, on) /\ exe' = e /\ running' = on
          /\ RangeFollows(e, on)
          /\ recent' = [ev \in Events |->
                IF ev \notin todo' \/ recent[ev] # "none" THEN recent[ev]
                ELSE IF configured /\ Pushable(ev) THEN "pending" ELSE "done"]
    /\ at' = IF todo' = {} THEN "final" ELSE "accept"
    /\ seeded' = TRUE /\ first' = FALSE
    /\ UNCHANGED <<charged, disk, history, mishaps>>

Accepted ==
    /\ at = "accept" /\ Saved
    /\ at' = "deliver" /\ todo' = {ev \in todo : recent[ev] = "pending"}
    /\ UNCHANGED <<model, recent, charged, history>>
AcceptFailed ==
    /\ at = "accept" /\ SaveFailed
    /\ at' = "final" /\ todo' = {}
    /\ recent' = [ev \in Events |-> IF ev \in todo THEN "done" ELSE recent[ev]]
    /\ UNCHANGED <<model, charged, history>>

-----------------------------------------------------------------------------
(* _async_deliver, an END before a START.                                  *)
Current == CHOOSE ev \in todo : (\E e \in todo : e.kind = "end") => ev.kind = "end"

\* Switched off, no target, or no budget.
Decline ==
    /\ at = "deliver" /\ todo # {} /\ at' = "settle"
    /\ recent' = Marked(Current, "done")
    /\ UNCHANGED <<model, charged, todo, disk, history, mishaps>>
Reserve ==
    /\ at = "deliver" /\ todo # {} /\ at' = "reserve"
    /\ Limited(Current) => Cardinality(Spent(charged)) < MaxStarts
    /\ recent' = Marked(Current, "sending")
    /\ charged' = IF Limited(Current) THEN [charged EXCEPT ![Current] = 0] ELSE charged
    /\ UNCHANGED <<model, todo, disk, history, mishaps>>

\* The reservation is in the Store: the provider is called.
Reserved ==
    /\ at = "reserve" /\ Saved /\ at' = "call"
    /\ pushed' = [pushed EXCEPT ![Current] = IF @ = 2 THEN 2 ELSE @ + 1]
    /\ since' = IF Limited(Current) THEN [since EXCEPT ![Current] = charged[Current]]
                ELSE since
    /\ UNCHANGED <<model, recent, charged, todo>>
NotReserved ==
    /\ at = "reserve" /\ SaveFailed /\ at' = "deliver"
    /\ recent' = Marked(Current, "done") /\ todo' = todo \ {Current}
    /\ UNCHANGED <<model, charged, history>>

\* The provider answers, fails or times out.
ProviderReturns ==
    /\ at = "call" /\ at' = "settle"
    /\ recent' = Marked(Current, "done")
    /\ UNCHANGED <<model, charged, todo, disk, history, mishaps>>
Settled ==
    /\ at = "settle" /\ at' = "deliver"
    /\ Saved \/ SaveFailed
    /\ todo' = todo \ {Current}
    /\ UNCHANGED <<model, recent, charged, history>>

Delivered ==
    /\ at = "deliver" /\ todo = {} /\ at' = "final"
    /\ UNCHANGED <<model, recent, charged, todo, disk, history, mishaps>>
Finished ==
    /\ at = "final" /\ at' = "idle"
    /\ Saved \/ SaveFailed
    /\ UNCHANGED <<model, recent, charged, todo, history>>

-----------------------------------------------------------------------------
\* Home Assistant stops, or the entry is unloaded (close); a save under way has
\* reached the Store or not.
Restart ==
    /\ at # "off" /\ Mishap
    /\ disk' \in {disk} \cup (IF at \in Saving THEN {Payload} ELSE {})
    /\ at' = "off" /\ todo' = {} /\ first' = TRUE
    /\ rng' = None /\ seeded' = FALSE /\ recent' = NoEvents /\ charged' = NoCharges
    /\ UNCHANGED <<exe, running, history>>

Older(ages) == [x \in DOMAIN ages |-> IF ages[x] < Window THEN ages[x] + 1 ELSE Window]
Tick ==
    /\ charged' = Older(charged) /\ disk' = [disk EXCEPT !.charged = Older(@)]
    /\ since' = Older(since)
    /\ UNCHANGED <<model, recent, at, todo, pushed, mishaps>>

Work ==
    \/ Initialize \/ InitializeUnreadable \/ Initialized
    \/ Take \/ Accepted \/ AcceptFailed
    \/ Decline \/ Reserve \/ Reserved \/ NotReserved \/ ProviderReturns \/ Settled
    \/ Delivered \/ Finished
Next == Work \/ Restart \/ Tick
Spec == Init /\ [][Next]_vars

-----------------------------------------------------------------------------
\* "Never replay a pre-restart provider attempt": the provider is called at most
\* once for a START or an END, through failed saves, ambiguous answers, restarts
\* and unreadable ledgers.
AtMostOnePush == \A ev \in Events : pushed[ev] <= 1

\* Of the policies that push their starts only, at most MaxStarts calls were
\* charged within any Window; a restart or a lost ledger gives nothing back.
Recently == {ev \in Events : since[ev] < Window}
WithinBudget == Cardinality(Recently) <= MaxStarts

\* No event is left undecided: when the worker waits for the next observation each
\* one it knows of has come to a final state, one left from before a restart, too.
AllDecided == at = "idle" => \A ev \in Events : recent[ev] \notin {"pending", "sending"}
=============================================================================
