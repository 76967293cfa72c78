--------------------------- MODULE ExecutionRanges ---------------------------
(***************************************************************************)
(* What the energy manager tells its user about (ems_notifications.py):    *)
(* every frame of the controller becomes an observation in a short queue,  *)
(* and one worker takes them in order and groups the executions of a       *)
(* policy into ranges.  A range opens with the first confirmed execution;  *)
(* a new transaction that follows a gap may continue it; it is ended once  *)
(* a restoration is confirmed or has failed, without an interruption after *)
(* a continuity period only.  Frames, the timer of a gap and a restart     *)
(* come while the worker saves or delivers; PushLedger has what happens    *)
(* then.                                                                   *)
(*                                                                         *)
(* Instants are ages in units of the continuity period, each saturated one *)
(* comparison above the largest it meets.                                  *)
(***************************************************************************)
EXTENDS Naturals, Sequences, SequencesExt

CONSTANTS
    Policies,       \* _SUPPORTED_POLICIES
    Absent,
    MaxQueued,      \* _MAX_QUEUED_OBSERVATIONS
    Continuity,     \* _CONTINUITY_SECONDS
    MaxTx,          \* bound: transactions of the executor
    Owners,         \* bound: the policies each of them may be of
    MaxLag,         \* bound: age of an observation not yet dealt with
    MaxSetbacks     \* bound: restarts and failed saves

VARIABLES
    tx,             \* the executor: its current or last transaction, ...
    owner,          \* ... the policy it is of,
    phase,          \* ... how far it is,
    told,           \* ... and whether a frame has shown it since it was released
    observations,   \* _observation_queue
    last,           \* _last_observation
    timer,          \* time left of _gap_cancel, or Absent
    active,         \* _model.active
    initialized,    \* _model.initialized
    busy,           \* the worker awaits a save or the provider
    rangeStore,     \* what the Store has of the range model
    end,            \* history: the last END, with what the model knew, or Absent
    setbacks
executor == <<tx, owner, phase, told>>
rangeModel == <<active, initialized>>
worker == <<last, busy>>
rangeVars == <<executor, rangeModel, worker, observations, timer, rangeStore, end, setbacks>>

Txs == 1..MaxTx
Cap == Continuity + MaxLag
Phases == {"none", "held", "executing", "stopping", "unknown", "failed", "restored"}
Observations ==
    [tx : 0..MaxTx, pol : Policies \cup {Absent}, exec : BOOLEAN, conf : BOOLEAN,
     fail : BOOLEAN, intr : BOOLEAN, unk : BOOLEAN, age : 0..MaxLag]
Ranges == [id : Txs, pol : Policies, txs : SUBSET Txs, gap : (0..Cap) \cup {Absent},
           intr : BOOLEAN, fail : BOOLEAN, conf : BOOLEAN, unk : 0..MaxTx]
Outcomes == {"unconfirmed", "interrupted", "completed"}
EndReports == [range : Txs, txs : SUBSET Txs, outcome : Outcomes]
ASSUME RangesAssumption ==
    /\ MaxQueued \in Nat \ {0} /\ MaxTx \in Nat /\ MaxSetbacks \in Nat
    /\ Continuity \in Nat /\ MaxLag \in Nat
    /\ Owners \in [Txs -> SUBSET Policies]
    /\ Absent \notin Nat \cup Policies \cup Observations \cup Ranges \cup EndReports

RangesTypeOK ==
    /\ tx \in 0..MaxTx /\ owner \in Policies \cup {Absent} /\ phase \in Phases
    /\ told \in BOOLEAN
    /\ observations \in Seq(Observations) /\ Len(observations) <= MaxQueued
    /\ last \in Observations \cup {Absent} /\ busy \in BOOLEAN
    /\ timer \in (0..Continuity) \cup {Absent}
    /\ active \in Ranges \cup {Absent} /\ initialized \in BOOLEAN
    /\ rangeStore \in [active : Ranges \cup {Absent}, initialized : BOOLEAN]
    /\ end \in EndReports \cup {Absent} /\ setbacks \in 0..MaxSetbacks

RangePayload == [active |-> active, initialized |-> initialized]
NoRanges == [active |-> Absent, initialized |-> FALSE]

RangesInit ==
    /\ tx = 0 /\ owner = Absent /\ phase = "none" /\ told = TRUE
    /\ observations = <<>> /\ last = Absent /\ timer = Absent /\ busy = FALSE
    /\ active = Absent /\ initialized = FALSE /\ rangeStore = NoRanges
    /\ end = Absent /\ setbacks = 0

-----------------------------------------------------------------------------
(* The executor, as far as its frames show it: one transaction at a time,  *)
(* released by a confirmed restoration only.  "held" is selected or        *)
(* changing its target; a failed restoration keeps its owner until a       *)
(* MASTER STOP restores it after all.                                      *)
SelectTransaction ==
    /\ phase \in {"none", "restored"} /\ told /\ tx < MaxTx
    /\ tx' = tx + 1 /\ phase' = "held" /\ owner' \in Owners[tx + 1]
    /\ UNCHANGED <<told, rangeModel, worker, observations, timer, rangeStore, end, setbacks>>

Moves == [none |-> {}, restored |-> {},
          held |-> {"executing", "stopping", "unknown", "restored"},
          executing |-> {"held", "stopping", "unknown"},
          stopping |-> {"failed", "restored"},
          unknown |-> {"executing", "failed", "restored"},
          failed |-> {"stopping"}]
Move ==
    /\ phase' \in Moves[phase]
    /\ told' = (phase' # "restored")
    /\ UNCHANGED <<tx, owner, rangeModel, worker, observations, timer, rangeStore, end, setbacks>>

\* What a frame says of the executor.  The interruption has causes of its own
\* (a pause, a policy switched off), so it may be seen at any time; a range that
\* executes does not look at it.
FrameOf(interrupted) ==
    [tx |-> tx, pol |-> IF phase = "executing" THEN owner ELSE Absent,
     exec |-> phase = "executing", conf |-> phase = "restored", fail |-> phase = "failed",
     intr |-> interrupted /\ phase # "executing", unk |-> phase = "unknown", age |-> 0]

-----------------------------------------------------------------------------
(* The queue.                                                              *)
Terminal(o) == ~o.exec /\ (o.conf \/ o.fail \/ o.intr)
Shape(o) == <<o.pol, o.exec, o.conf, o.fail, o.intr>>
Equivalent(o, p) == Shape(o) = Shape(p)

\* What a full queue gives up for terminal evidence: the newer of the latest two
\* equivalent neighbours, else the latest observation that is not terminal.
Coalesced == {i \in 2..Len(observations) : Equivalent(observations[i - 1], observations[i])}
Dispensable == {i \in 1..Len(observations) : ~Terminal(observations[i])}
Latest(S) == CHOOSE i \in S : \A j \in S : j <= i
Enqueued(o) ==
    IF Len(observations) < MaxQueued THEN Append(observations, o)
    ELSE IF Equivalent(observations[Len(observations)], o) \/ ~Terminal(o) THEN observations
    ELSE IF Coalesced # {} THEN Append(RemoveAt(observations, Latest(Coalesced)), o)
    ELSE IF Dispensable # {} THEN Append(RemoveAt(observations, Latest(Dispensable)), o)
    ELSE observations

Frame(interrupted) ==
    /\ observations' = Enqueued(FrameOf(interrupted))
    /\ told' = TRUE
    /\ UNCHANGED <<tx, owner, phase, rangeModel, worker, timer, rangeStore, end, setbacks>>

\* The timer of a gap repeats the last observation with a new time, behind
\* whatever is queued.
GapElapsed ==
    /\ timer = 0 /\ timer' = Absent
    /\ observations' = IF last = Absent \/ last.exec THEN observations
                       ELSE Enqueued([last EXCEPT !.pol = Absent, !.age = 0])
    /\ UNCHANGED <<executor, rangeModel, worker, rangeStore, end, setbacks>>

-----------------------------------------------------------------------------
(* RangeNotificationModel: executions of one policy are one range, whatever *)
(* transactions they are made of, until a restoration is confirmed.        *)
Opened(o) == [id |-> o.tx, pol |-> o.pol, txs |-> {o.tx}, gap |-> Absent,
              intr |-> FALSE, fail |-> FALSE, conf |-> FALSE, unk |-> 0]

EndEvent(r, confirmed) ==
    [range |-> r.id, txs |-> r.txs,
     outcome |-> IF r.fail \/ r.unk # 0 \/ ~confirmed THEN "unconfirmed"
                 ELSE IF r.intr THEN "interrupted" ELSE "completed"]

Resumed(r, o) ==
    [r EXCEPT !.txs = @ \cup {o.tx}, !.gap = Absent, !.intr = FALSE, !.fail = FALSE,
              !.conf = FALSE, !.unk = IF @ = o.tx THEN 0 ELSE @]

Belongs(r, o) == o.tx \in r.txs \cup {0}
GapRestarts(r, o) ==    \* mutant: every observation of a gap begins it anew
    LET own == Belongs(r, o)
    IN [r EXCEPT !.unk = IF own /\ o.unk THEN o.tx ELSE @,
                 !.intr = @ \/ (own /\ o.intr), !.fail = @ \/ (own /\ o.fail),
                 !.conf = @ \/ (own /\ o.conf), !.gap = o.age]
Interrupted(r, o) ==
    LET own == Belongs(r, o)
    IN [r EXCEPT !.unk = IF own /\ o.unk THEN o.tx ELSE @,
                 !.intr = @ \/ (own /\ o.intr), !.fail = @ \/ (own /\ o.fail),
                 !.conf = @ \/ (own /\ o.conf), !.gap = IF @ = Absent THEN o.age ELSE @]
ClosesAfterGap(r, o) ==     \* mutant: a gap ends a range that nobody restored
    r.intr \/ r.fail \/ r.gap >= o.age + Continuity
Closes(r, o) ==
    /\ r.conf \/ r.fail
    /\ r.intr \/ r.fail \/ r.gap >= o.age + Continuity

\* The range after an observation, and the last END.
SeedsRange(o) == [active |-> IF o.exec THEN Opened(o) ELSE active, end |-> end]
Executes(o) ==
    IF active = Absent THEN [active |-> Opened(o), end |-> end]
    ELSE IF /\ active.pol = o.pol
            /\ ~(active.gap # Absent /\ active.conf /\ o.tx \notin active.txs)
    THEN [active |-> Resumed(active, o), end |-> end]
    ELSE [active |-> Opened(o), end |-> EndEvent(active, TRUE)]
Rests(o) ==
    IF active = Absent THEN [active |-> Absent, end |-> end]
    ELSE LET r == Interrupted(active, o)
         IN IF Closes(r, o) THEN [active |-> Absent, end |-> EndEvent(r, r.conf)]
            ELSE [active |-> r, end |-> end]
Observe(o) ==
    IF ~initialized THEN SeedsRange(o) ELSE IF o.exec THEN Executes(o) ELSE Rests(o)

\* _sync_gap_timer.
GapTimer(r, o) ==
    IF r = Absent \/ o.exec \/ r.gap = Absent THEN Absent
    ELSE IF r.gap >= o.age + Continuity THEN 0 ELSE Continuity + o.age - r.gap

-----------------------------------------------------------------------------
(* The worker: it takes an observation, saves and delivers what came of it, *)
(* sets the timer and takes the next.                                      *)
TakeNext ==
    /\ ~busy /\ observations # <<>>
    /\ LET o == Head(observations)
           step == Observe(o)
       IN /\ observations' = Tail(observations) /\ last' = o
          /\ active' = step.active /\ end' = step.end
    /\ initialized' = TRUE /\ busy' = TRUE
    /\ UNCHANGED <<executor, timer, rangeStore, setbacks>>

Setback == setbacks < MaxSetbacks /\ setbacks' = setbacks + 1

\* The saves of the observation may have failed.  `last' is kept for the timer.
Finish ==
    /\ busy /\ busy' = FALSE
    /\ timer' = GapTimer(active, last)
    /\ last' = IF timer' = Absent THEN Absent ELSE [last EXCEPT !.age = 0]
    /\ \/ rangeStore' = RangePayload /\ UNCHANGED setbacks
       \/ rangeStore' = rangeStore /\ Setback
    /\ UNCHANGED <<executor, rangeModel, observations, end>>

\* Home Assistant stops and starts again from the Store, or from nothing where
\* that cannot be read; the executor goes on with its own record.
RestartFromStore ==
    /\ Setback
    /\ \E found \in {rangeStore, NoRanges} \cup (IF busy THEN {RangePayload} ELSE {}) :
          /\ active' = found.active /\ initialized' = found.initialized /\ rangeStore' = found
    /\ observations' = <<>> /\ last' = Absent /\ timer' = Absent /\ busy' = FALSE
    /\ told' = TRUE
    /\ UNCHANGED <<tx, owner, phase, end>>

Aged(r) ==
    IF r = Absent \/ r.gap = Absent \/ r.gap = Cap THEN r ELSE [r EXCEPT !.gap = @ + 1]
TimeGoesOn ==
    /\ \A i \in DOMAIN observations : observations[i].age < MaxLag
    /\ busy => last.age < MaxLag
    /\ observations' =
          [i \in DOMAIN observations |-> [observations[i] EXCEPT !.age = @ + 1]]
    /\ last' = IF busy THEN [last EXCEPT !.age = @ + 1] ELSE last
    /\ timer' = IF timer = Absent \/ timer = 0 THEN timer ELSE timer - 1
    /\ active' = Aged(active) /\ rangeStore' = [rangeStore EXCEPT !.active = Aged(@)]
    /\ UNCHANGED <<executor, initialized, busy, end, setbacks>>

RangesNext ==
    \/ SelectTransaction \/ Move
    \/ \E interrupted \in BOOLEAN : Frame(interrupted)
    \/ GapElapsed \/ TakeNext \/ Finish \/ RestartFromStore \/ TimeGoesOn
RangesSpec == RangesInit /\ [][RangesNext]_rangeVars

\* Frames keep coming, and now and then one finds the queue with room before the
\* timer does; an await ends (each has a timeout); timers fire; and time passes,
\* however often the bound on the lag holds it back.
RangesFairness ==
    /\ SF_rangeVars(\E interrupted \in BOOLEAN : Frame(interrupted))
    /\ WF_rangeVars(TakeNext) /\ WF_rangeVars(Finish) /\ WF_rangeVars(GapElapsed)
    /\ SF_rangeVars(TimeGoesOn)
FairRangesSpec == RangesSpec /\ RangesFairness

-----------------------------------------------------------------------------
\* An END tells what became of the inverter: no transaction of the range runs any
\* more, and unless the END says "unconfirmed" every one of them was restored.
EndsAreTrue ==
    end # Absent =>
        /\ phase = "executing" => tx \notin end.txs
        /\ end.outcome # "unconfirmed" => \A t \in end.txs : t < tx \/ phase = "restored"

\* A range is ended once the transaction it covers is released, whatever is
\* dropped, late or lost between the frame and the range model.
Covers(t) == active # Absent /\ t \in IF active = Absent THEN {} ELSE active.txs
EndReported ==
    \A t \in Txs : (phase = "restored" /\ tx = t /\ Covers(t)) ~> ~(tx = t /\ Covers(t))
=============================================================================
