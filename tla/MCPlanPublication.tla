-------------------------- MODULE MCPlanPublication --------------------------
(***************************************************************************)
(* The plans of RCE and the tariff, that of RCEm, and the end of every      *)
(* lease of the firmware, which share no state.  The initial state says     *)
(* which of them runs; the others stay as they start.                       *)
(***************************************************************************)
EXTENDS PlanPublication

CONSTANTS
    \* RiskPlan
    MaxQueue, MaxEvents, MaxTrouble,
    \* EspLease
    SelfUseBlocks, ForcedBlocks, OtherBlocks, OddBlocks, NoBlock, Clear, Junk, Poll,
    Sessions, Txs, MaxGen, MaxSeq, Nonces, TTL, MaxHard, ArmNonceAge, RenewNonceAge, Fresh, MaxMishaps

VARIABLES
    part,
    \* RiskPlan
    high, lacking, inForce, public, gap, plan, traced, armed, retryArmed, awaited, queue, run,
    reading, overdue, events, trouble,
    \* EspLease
    st, rec, ident, term, soft, hard, seq, nonce, prev, durable, dIdent, dTerm, barrier,
    seen, readAge, bus, phys, driven, last, mishaps
riskVars == <<high, lacking, inForce, public, gap, plan, traced, armed, retryArmed, awaited,
              queue, run, reading, overdue, events, trouble>>
leaseVars == <<st, rec, ident, term, soft, hard, seq, nonce, prev, durable, dIdent, dTerm,
               barrier, seen, readAge, bus, phys, driven, last, mishaps>>

Lease == INSTANCE EspLease
Risk == INSTANCE RiskPlan

Pick(S) == CHOOSE x \in S : TRUE
Init ==
    /\ part \in {"plan", "risk", "lease"}
    /\ PublicationInit /\ Risk!RiskInit /\ Lease!Init
    /\ part # "lease" => phys = Pick(SelfUseBlocks) /\ nonce.val = Pick(Nonces)
    /\ part # "risk" => ~high /\ lacking
    /\ part # "plan" => policy = "rce" /\ ~valid
    /\ gcf = Pick(Whole)        \* which is which does not matter

\* A step of the component that runs.
Step(ofPlan, ofRisk, ofLease) ==
    \/ part = "plan" /\ ofPlan /\ UNCHANGED <<part, riskVars, leaseVars>>
    \/ part = "risk" /\ ofRisk /\ UNCHANGED <<part, publicationVars, leaseVars>>
    \/ part = "lease" /\ ofLease /\ UNCHANGED <<part, publicationVars, riskVars>>
all == <<part, publicationVars, riskVars, leaseVars>>

\* The fairness of each component, for the one that runs.  Where it is strong here and
\* weak there, the step, once enabled, stays so until it is taken.
FairSpec ==
    /\ Init /\ [][Step(PublicationNext, Risk!RiskNext, Lease!Next)]_all
    /\ WF_all(Step(Timer, Risk!HistoryTimer, Lease!Tick))
    /\ WF_all(Step(NextTurn, Risk!NextTurn, Lease!PollDue))
    /\ SF_all(Step(GcfDeadline, FALSE, Lease!Timer))
    /\ SF_all(Step(BatchStep, Risk!BatchStep,
                   Lease!PollQuiet \/ Lease!PollConfirms \/ Lease!PollReverts
                   \/ Lease!PollClears))
    /\ SF_all(Step(FALSE, Risk!HistoryRead, Lease!WriteApplied))

(* No plan of RCE, of the tariff or of RCEm is withheld for ever:           *)
(* PlanComesBack and PlanRenewed, each for the sensor that runs.  The       *)
(* others have no inputs.                                                   *)
PlansComeBack == []<>~(Withheld \/ Risk!Withheld)

\* The property of the firmware (see EspLease).
LeaseEnds == Lease!LeaseEnds
=============================================================================
