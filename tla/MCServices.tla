----------------------------- MODULE MCServices -----------------------------
(***************************************************************************)
(* The safety of seven components that share no state and are small enough  *)
(* to be checked in one run.  The initial state says which of them runs;    *)
(* the others stay as they start, in one state each.                        *)
(***************************************************************************)
EXTENDS PushLedger, ExecutionRanges, SeedAndCopy, PackageInstall, DynamicPlan, WriteBarrier,
        RiskPlan, TLC

VARIABLE part

\* The first transaction is of one policy, the second of either.
FirstOfOne == <<{"rce"}, {"rce", "rcm"}>>

Pick(S) == CHOOSE x \in S : TRUE
ServicesInit ==
    /\ part \in {"push", "ranges", "seeds", "package", "plan", "risk", "barrier"}
    /\ Init /\ RangesInit /\ SeedInit /\ PackageInit /\ PlanInit /\ BarrierInit
    /\ RiskInit
    /\ part # "seeds" => seedDisk = Seed(TRUE, "new") /\ loaded
    /\ part # "package" => dest = NoFile /\ release = Pick(Releases)
    /\ part # "risk" => ~high /\ ~lacking
    /\ part # "plan" => buy = Pick(Operators) /\ options = Pick(Options)

ServicesNext ==
    \/ part = "push" /\ Next
       /\ UNCHANGED <<part, rangeVars, seedVars, packageVars, planVars, barrierVars, riskVars>>
    \/ part = "ranges" /\ RangesNext
       /\ UNCHANGED <<part, vars, seedVars, packageVars, planVars, barrierVars, riskVars>>
    \/ part = "seeds" /\ SeedNext
       /\ UNCHANGED <<part, vars, rangeVars, packageVars, planVars, barrierVars, riskVars>>
    \/ part = "package" /\ PackageNext
       /\ UNCHANGED <<part, vars, rangeVars, seedVars, planVars, barrierVars, riskVars>>
    \/ part = "plan" /\ PlanNext
       /\ UNCHANGED <<part, vars, rangeVars, seedVars, packageVars, barrierVars, riskVars>>
    \/ part = "barrier" /\ BarrierNext
       /\ UNCHANGED <<part, vars, rangeVars, seedVars, packageVars, planVars, riskVars>>
    \/ part = "risk" /\ RiskNext
       /\ UNCHANGED <<part, vars, rangeVars, seedVars, packageVars, planVars, barrierVars>>
ServicesSpec ==
    ServicesInit /\ [][ServicesNext]_<<part, vars, rangeVars, seedVars, packageVars, planVars,
                                       barrierVars, riskVars>>

\* A plan meets two acts, or an act and a failure or new prices.
PlanMeetsTwo == acts + failures + market <= 3

Symmetry == Permutations(Entries) \cup Permutations(UserTexts) \cup Permutations(Options)
=============================================================================
