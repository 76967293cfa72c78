----------------------------- MODULE WriteBarrier -----------------------------
(***************************************************************************)
(* The acknowledgement barrier of the firmware (packages/settings.yaml):    *)
(* after a block is queued for the inverter no other block may be queued    *)
(* until a complete FC03 reading, newer than the write, shows the block, or *)
(* two such readings in a row fail to.                                      *)
(*                                                                         *)
(* EspLease takes "newer" for granted.  Here readings carry the generation  *)
(* numbers of the code, which run from 1 to Top and start again at 1, and a *)
(* reading may be incomplete.                                               *)
(***************************************************************************)
EXTENDS Naturals

CONSTANT Top    \* 16000000, the last generation before the numbers restart

VARIABLES
    generation,     \* ems_control_readback_generation, 0: no reading since boot
    pending,        \* ems_control_write_pending
    before,         \* ems_control_write_generation_before
    mismatch,       \* ems_control_write_mismatch_generation, 0: not reported
    ahead           \* the next reading was asked for before the write was queued

barrierVars == <<generation, pending, before, mismatch, ahead>>

BarrierInit ==
    /\ generation = 0 /\ pending = FALSE
    /\ before = 0 /\ mismatch = 0 /\ ahead = FALSE

\* The script, past its guards: a block is queued on the current snapshot,
\* perhaps behind a read request that is waiting already.
Write ==
    /\ ~pending /\ generation # 0
    /\ pending' = TRUE /\ before' = generation /\ mismatch' = 0
    /\ ahead' \in BOOLEAN
    /\ UNCHANGED generation

NextGeneration == IF generation < Top THEN generation + 1 ELSE 1
Newer(g, h) == g > h \/ (h >= Top /\ g = 1)

\* The barrier reacts to readings that are newer than the write.
Answers == pending /\ Newer(NextGeneration, before)

\* It is given up on the second complete reading of another block.
GivenUpAtOnce == TRUE
GivesUp == mismatch # 0 /\ Newer(NextGeneration, mismatch)

Reading == generation' = NextGeneration /\ ahead' = FALSE /\ UNCHANGED before
Released == pending' = FALSE /\ mismatch' = 0

ReadingMatches ==
    /\ Reading
    /\ IF Answers THEN Released ELSE UNCHANGED <<pending, mismatch>>

ReadingDiffers ==
    /\ Reading
    /\ \/ Answers /\ GivesUp /\ Released
       \/ Answers /\ ~GivesUp /\ UNCHANGED pending
          /\ mismatch' = IF mismatch = 0 THEN NextGeneration ELSE mismatch
       \/ ~Answers /\ UNCHANGED <<pending, mismatch>>

ReadingIncomplete ==
    Reading /\ UNCHANGED <<pending, mismatch>>

BarrierBoot ==
    /\ generation' = 0 /\ pending' = FALSE
    /\ before' = 0 /\ mismatch' = 0 /\ ahead' = FALSE

BarrierNext == Write \/ ReadingMatches \/ ReadingDiffers \/ ReadingIncomplete \/ BarrierBoot
BarrierSpec == BarrierInit /\ [][BarrierNext]_barrierVars

\* The best case: the firmware stays up and every reading is complete.
CompleteNext == Write \/ ReadingMatches \/ ReadingDiffers
CompleteSpec ==
    BarrierInit /\ [][CompleteNext]_barrierVars /\ WF_barrierVars(ReadingMatches \/ ReadingDiffers)

-----------------------------------------------------------------------------
(* Correctness. *)

\* A block is given up for lost only on a reading the inverter made after it
\* was asked to write the block: one stale answer is never enough.
GivenUpOnEvidence ==
    [][ ReadingDiffers /\ pending /\ ~pending' => ~ahead ]_barrierVars

\* The barrier does not stay for ever: the message of the code on a reading of
\* another block promises its release on the next complete generation.
BarrierReleased == pending ~> ~pending
=============================================================================
