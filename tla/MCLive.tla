------------------------------- MODULE MCLive -------------------------------
(***************************************************************************)
(* What must happen in the end, for two components that share no state: a   *)
(* stop of the active controller and the end of an execution range.  The    *)
(* initial state says which of them runs; the other stays as it starts.     *)
(***************************************************************************)
EXTENDS SupervisorController

VARIABLES
    part,
    \* ExecutionRanges
    tx, owner, phase, told, observations, last, timer, active, initialized, busy, rangeStore, end,
    setbacks
rangeVars == <<tx, owner, phase, told, observations, last, timer, active, initialized, busy,
               rangeStore, end, setbacks>>

Ranges == INSTANCE ExecutionRanges
    WITH Policies <- {"rce"}, Owners <- <<{"rce"}>>, MaxTx <- 1, MaxQueued <- 1,
         Continuity <- 1, MaxLag <- 1, MaxSetbacks <- 1, Absent <- None

LiveInit ==
    /\ part \in {"controller", "ranges"}
    /\ Init /\ Ranges!RangesInit
    /\ part # "controller" => phys = OffGrid

\* A step of the component that runs.
Step(stop, ranges) ==
    \/ part = "controller" /\ stop /\ UNCHANGED <<part, rangeVars>>
    \/ part = "ranges" /\ ranges /\ UNCHANGED <<part, vars>>
all == <<part, vars, rangeVars>>

\* The fairness of either component, for the one that runs.
LiveSpec ==
    /\ LiveInit /\ [][Step(Next, Ranges!RangesNext)]_all
    /\ WF_all(Step(PollDue, Ranges!TakeNext))
    /\ WF_all(Step(WriteApplied \/ WriteLost, Ranges!Finish))
    /\ WF_all(Step(Reading, Ranges!GapElapsed))
    /\ WF_all(Step(ReadingReceived(FALSE), FALSE))
    /\ WF_all(Step(LeaseTimer, FALSE))
    /\ WF_all(Step(StartAnswered \/ RetargetAnswered \/ RestoreAnswered \/ DispatchTimesOut,
                   FALSE))
    /\ WF_all(Step(PrepareRestore, FALSE))
    /\ WF_all(Step(Settle, FALSE))
    /\ WF_all(Step(ObserveRestored, FALSE))
    /\ WF_all(Step(RestoreRejected, FALSE))
    /\ SF_all(Step(SendRestore, Ranges!TimeGoesOn))
    /\ SF_all(Step(FALSE, \E interrupted \in BOOLEAN : Ranges!Frame(interrupted)))

\* Every range that was restored is ended (see ExecutionRanges).
EndReported == Ranges!EndReported
=============================================================================
