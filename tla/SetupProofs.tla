------------------------------ MODULE SetupProofs ------------------------------
(***************************************************************************)
(* Theorems about what happens before the energy manager runs: the package  *)
(* is installed (PackageInstall) and the shared inputs get their first      *)
(* values (SeedAndCopy).  For every set of releases, texts of users, entries *)
(* and values, and every bound on edits and accidents.                      *)
(*                                                                         *)
(* PackageInstall: each invariant follows from an inductive one that says,  *)
(* step by step of a transaction, what the file is of what was captured:    *)
(* Recoverable for the texts of users, Reversible for a refusal,            *)
(* Attributable for the metadata.  SeedAndCopy: OriginInv.                  *)
(***************************************************************************)
EXTENDS SeedAndCopy, PackageInstall, TLAPS

Before == {"backup", "stage", "check", "replace"}   \* nothing is written yet
Undoing == {"rollback", "recheck", "undo"}

\* A captured text is in the backup, or was moved away with it, before it is replaced,
\* and a file no one else wrote is still what the transaction saw last.
Recoverable ==
    /\ displaced \subseteq {backup} \cup taken
    /\ step \in {"stage", "check", "replace"} => install.before \in {NoFile, backup} \cup taken
    /\ step \in Before => install.action = "none" /\ (same => dest = install.before)
    /\ step = "postflight" /\ same /\ Written => dest = install.after
    /\ step \in Undoing /\ same => dest = install.after
    /\ step \in {"recheck", "undo"} => install.after = install.source
    /\ step \in Gaps => late \/ same

\* With no edit and no accident: how the file stands to the capture, step by step.
Quiet == ~edited /\ accidents = 0
Reversible ==
    /\ step # "idle" /\ ~edited => same
    /\ Quiet =>
        /\ step \in Before =>
            dest = install.before /\ install.action = "none" /\ ~install.denied
        /\ step = "verify" => dest = install.source /\ ~install.denied
        /\ step = "postflight" =>
            /\ install.action # "failed"
            /\ install.action \in {"none", "current"} => dest = install.before
            /\ install.action = "replaced" =>
                dest = install.source /\ install.after = install.source /\ ~install.denied
        /\ step \in Undoing => dest = install.source /\ install.after = install.source
        /\ step = "attest" => ~install.denied
        /\ step = "undone" => dest = install.before
        /\ step \in {"save", "clean"} /\ install.denied => dest = install.before

\* With the file written by transactions alone, none of them torn: the metadata knows it,
\* or the running transaction will tell.
Known(text, hash) == text = NoFile \/ Managed(text, hash)
Unwritten == install.action \in {"none", "current"}
Attributable ==
    own =>
        /\ step = "idle" => Known(dest, meta)
        /\ step # "idle" => same /\ Known(install.before, install.was)
        /\ step \notin {"idle", "clean"} => meta = install.was
        /\ step \in Before =>
            /\ dest = install.before /\ install.action = "none" /\ ~install.denied
            /\ install.rollback = "none" /\ ~install.verified
        /\ step = "verify" =>
            /\ dest = install.source /\ ~install.denied
            /\ install.rollback = "none" /\ ~install.verified
        /\ step \in {"postflight", "attest"} \cup Undoing =>
            install.rollback = "none" /\ ~install.verified
        /\ step = "postflight" =>
            /\ Unwritten => dest = install.before
            /\ install.action = "current" => dest = install.source
            /\ install.action = "replaced" =>
                dest = install.source /\ install.after = install.source /\ ~install.denied
        /\ step \in Undoing \cup {"undone"} => Written /\ ~install.verified
        /\ step \in Undoing /\ install.action = "replaced" =>
            dest = install.source /\ install.after = install.source
        /\ step = "undone" => dest = install.before
        /\ step = "attest" =>
            /\ Candidate /\ dest = install.source /\ ~install.denied
            /\ Unwritten => dest = install.before
        /\ step = "save" =>
            /\ Unwritten => dest = install.before
            /\ \/ install.action = "failed"
               \/ install.verified /\ ~install.denied /\ dest = install.source
               \/ ~install.verified /\ dest = install.before
        /\ step = "clean" /\ install.action # "failed" => Known(dest, meta)

-----------------------------------------------------------------------------
\* What a transaction captured and how far it came, whichever step it stands at.
LEMMA InTransaction ==
    ASSUME PackageTypeOK, step # "idle"
    PROVE  /\ install \in Transactions /\ install.source \in Releases
           /\ install.before \in File /\ install.after \in File
           /\ install.was \in Releases \cup {NoFile} /\ install.action \in Actions
           /\ install.denied \in BOOLEAN /\ install.verified \in BOOLEAN
BY DEF PackageTypeOK, Transactions

\* A mark leaves the rest of the transaction.
LEMMA Marked ==
    ASSUME NEW t \in Transactions, NEW b \in BOOLEAN, NEW r \in {"none", "restored", "failed"},
           NEW a \in Actions, NEW f \in File
    PROVE  /\ [t EXCEPT !.denied = b] \in Transactions
           /\ [t EXCEPT !.verified = b] \in Transactions
           /\ [t EXCEPT !.rollback = r] \in Transactions
           /\ [t EXCEPT !.action = a, !.after = f] \in Transactions
BY DEF Transactions

\* Verify captures what it finds; it calls it replaced if it is what it wrote.
LEMMA VerifyMarks ==
    ASSUME PackageTypeOK, Verify
    PROVE  /\ step = "verify" /\ step' = "postflight" /\ same' = TRUE /\ dest' = dest
           /\ install' \in Transactions /\ install.source' = install.source
           /\ install.before' = install.before /\ install.was' = install.was
           /\ install.denied' = install.denied /\ install.rollback' = install.rollback
           /\ install.verified' = install.verified /\ install.after' = dest
           /\ install.action' \in {"replaced", "failed"}
           /\ install.action' = "replaced" => dest = install.source
           /\ install.action' = "failed" => dest # install.source \/ accidents' > 0
<1>1. install \in Transactions /\ dest \in File
  BY InTransaction DEF Verify, Stands, PackageTypeOK
<1>2. PICK a \in {"replaced", "failed"} :
        /\ install' = [install EXCEPT !.action = a, !.after = dest]
        /\ a = "replaced" => dest = install.source
        /\ a = "failed" => dest # install.source \/ accidents' = accidents + 1
  BY DEF Verify, Accident, Smooth
<1>3. accidents \in Nat
  BY PackageAssumption DEF PackageTypeOK
<1>4. install' \in Transactions
  BY <1>1, <1>2, Marked DEF Actions
<1> QED
  BY <1>1, <1>2, <1>3, <1>4 DEF Verify, Stands, Proceeds, Transactions

-----------------------------------------------------------------------------
\* Every step keeps the types.

LEMMA TypeStep ==
    PackageTypeOK /\ [PackageNext]_packageVars => PackageTypeOK'
<1> SUFFICES ASSUME PackageTypeOK, [PackageNext]_packageVars PROVE PackageTypeOK'
    OBVIOUS
<1> USE PackageAssumption DEF PackageTypeOK, File, Texts, Steps, Actions, Transactions,
            Proceeds, Stands, Smooth, Accident, files, past
<1>1. ASSUME NEW overwrite \in BOOLEAN, NEW collision \in BOOLEAN, Begin(overwrite, collision)
      PROVE PackageTypeOK'
  <2>1. install' \in Transactions
    <3>1. \E a \in {"none", "current"} :
            install' = [overwrite |-> overwrite, source |-> release, before |-> dest,
                        was |-> meta, action |-> a, after |-> dest, denied |-> collision,
                        rollback |-> "none", verified |-> FALSE]
      BY <1>1 DEF Begin
    <3> QED
      BY <1>1, <3>1
  <2>2. step' \in Steps
    BY <1>1 DEF Begin
  <2>3. same' = TRUE /\ late' = FALSE /\ edited' = FALSE
        /\ UNCHANGED <<dest, backup, artifact, leftovers, release, meta, displaced, taken, own,
                       fileEdits, accidents>>
    BY <1>1 DEF Begin
  <2> HIDE DEF Transactions, Actions, Steps
  <2> QED
    <3>1. step' # "idle" /\ step' \in Steps \cup {"idle"}
      BY <2>2 DEF Steps
    <3> QED
      BY <2>1, <2>3, <3>1
<1>2. CASE Backup
    BY <1>2 DEF Backup, Aborted
<1>3. CASE Stage
    BY <1>3 DEF Stage, Aborted
<1>4. CASE Check
    BY <1>4 DEF Check, Aborted, ArtifactRemoved
<1>5. CASE Replace
  <2>1. install \in Transactions /\ install.source \in Releases /\ install.before \in File
    BY <1>5 DEF Replace
  <2>2. displaced' \subseteq UserTexts
    BY <1>5 DEF Replace, Displaces
  <2> HIDE DEF Transactions
  <2>3. dest' \in File /\ UNCHANGED <<release, fileEdits, install>>
    BY <1>5, <2>1 DEF Replace
  <2>4. UNCHANGED <<backup, artifact, leftovers, meta, taken, edited, own, accidents>>
    BY <1>5 DEF Replace
  <2>5. same' = TRUE /\ late' = FALSE /\ step' \in Steps
    BY <1>5 DEF Replace
  <2> QED
    BY <1>5, <2>1, <2>2, <2>3, <2>4, <2>5
<1>6. CASE ReplaceFails
    BY <1>6 DEF ReplaceFails, Aborted
<1>7. CASE Verify
  <2>1. install' \in Transactions /\ step' = "postflight" /\ same' = TRUE
    BY <1>7, VerifyMarks
  <2> HIDE DEF Transactions, Actions
  <2> QED
    BY <1>7, <2>1 DEF Verify
<1>8. ASSUME NEW collision \in BOOLEAN, Postflight(collision)
      PROVE PackageTypeOK'
    BY <1>8 DEF Postflight, Marks
<1>9. CASE Rollback
    BY <1>9 DEF Rollback, RollbackFails, Marks
<1>10. CASE Recheck
    BY <1>10 DEF Recheck, RollbackFails, Marks
<1>11. CASE Undo
  <2>1. install \in Transactions /\ install.source \in Releases /\ install.before \in File
    BY <1>11 DEF Undo
  <2>2. displaced' \subseteq UserTexts
    BY <1>11 DEF Undo, Displaces
  <2> HIDE DEF Transactions
  <2>3. dest' \in File /\ UNCHANGED <<release, fileEdits, install>>
    BY <1>11, <2>1 DEF Undo
  <2>4. UNCHANGED <<backup, artifact, leftovers, meta, taken, edited, own, accidents>>
    BY <1>11 DEF Undo
  <2>5. same' = TRUE /\ late' = FALSE /\ step' \in Steps
    BY <1>11 DEF Undo
  <2> QED
    BY <1>11, <2>1, <2>2, <2>3, <2>4, <2>5
<1>12. CASE UndoVerified
    BY <1>12 DEF UndoVerified, Marks
<1>13. CASE RollbackCannot
  <2>1. install \in Transactions /\ step' = "save"
    BY <1>13 DEF RollbackCannot, RollbackFails
  <2>2. install' \in Transactions
    BY <1>13, <2>1 DEF RollbackCannot, RollbackFails, Marks
  <2>3. accidents' \in 0..MaxAccidents /\ own' = FALSE
    BY <1>13 DEF RollbackCannot
  <2>4. UNCHANGED <<dest, same, backup, artifact, leftovers, release, meta, displaced, taken,
                    late, edited, fileEdits>>
    BY <1>13 DEF RollbackCannot
  <2> HIDE DEF Transactions, Actions, Steps
  <2>5. step' \in Steps \cup {"idle"} /\ step' # "idle"
    BY <2>1 DEF Steps
  <2> QED
    BY <2>2, <2>3, <2>4, <2>5
<1>14. CASE Attest
    BY <1>14 DEF Attest, Marks
<1>15. CASE Save
    BY <1>15 DEF Save, NextMeta
<1>16. CASE SaveFails
    BY <1>16 DEF SaveFails, Ended, ArtifactLeft
<1>17. CASE Clean
    BY <1>17 DEF Clean, Ended, ArtifactRemoved, ArtifactLeft
<1>18. ASSUME NEW text \in File, EditFile(text)
      PROVE PackageTypeOK'
  <2>1. late' \in BOOLEAN
    BY <1>18 DEF EditFile
  <2>2. fileEdits' \in 0..MaxFileEdits /\ dest' \in File
    BY <1>18 DEF EditFile
  <2>3. same' = FALSE /\ edited' = TRUE /\ own' = FALSE
    BY <1>18 DEF EditFile
  <2>4. UNCHANGED <<backup, artifact, leftovers, release, meta, step, install, displaced,
                    taken, accidents>>
    BY <1>18 DEF EditFile
  <2> HIDE DEF Transactions, Actions, Steps
  <2> QED
    BY <2>1, <2>2, <2>3, <2>4
<1>19. CASE MoveBackup
    BY <1>19 DEF MoveBackup
<1>20. CASE Update
    BY <1>20 DEF Update
<1>21. CASE Die
    BY <1>21 DEF Die, Ended, ArtifactLeft
<1>22. CASE UNCHANGED packageVars
    BY <1>22 DEF packageVars
<1> QED
    BY <1>1, <1>2, <1>3, <1>4, <1>5, <1>6, <1>7, <1>8, <1>9, <1>10, <1>11,
       <1>12, <1>13, <1>14, <1>15, <1>16, <1>17, <1>18, <1>19, <1>20, <1>21, <1>22
    DEF PackageNext, Transact

\* No step makes a captured text unrecoverable.
LEMMA RecoverableStep ==
    PackageTypeOK /\ Recoverable /\ [PackageNext]_packageVars => Recoverable'
<1> SUFFICES ASSUME PackageTypeOK, Recoverable, [PackageNext]_packageVars PROVE Recoverable'
    OBVIOUS
<1> USE PackageAssumption DEF PackageTypeOK, File, Texts, Transactions, Recoverable, Before,
            Undoing, Gaps, Written,
            Proceeds, Stands, Smooth, Accident, files, past
<1>1. ASSUME NEW overwrite \in BOOLEAN, NEW collision \in BOOLEAN, Begin(overwrite, collision)
      PROVE Recoverable'
    BY <1>1 DEF Begin, Proceeds
<1>2. CASE Backup
    BY <1>2 DEF Backup, Aborted
<1>3. CASE Stage
    BY <1>3 DEF Stage, Aborted
<1>4. CASE Check
    BY <1>4 DEF Check, Aborted, ArtifactRemoved
<1>5. CASE Replace
    BY <1>5 DEF Replace, Displaces
<1>6. CASE ReplaceFails
    BY <1>6 DEF ReplaceFails, Aborted
<1>7. CASE Verify
    BY <1>7 DEF Verify
<1>8. ASSUME NEW collision \in BOOLEAN, Postflight(collision)
      PROVE Recoverable'
    BY <1>8 DEF Postflight, Marks
<1>9. CASE Rollback
    BY <1>9 DEF Rollback, RollbackFails, Marks
<1>10. CASE Recheck
    BY <1>10 DEF Recheck, RollbackFails, Marks
<1>11. CASE Undo
    BY <1>11 DEF Undo, Displaces
<1>12. CASE UndoVerified
    BY <1>12 DEF UndoVerified, Marks
<1>13. CASE RollbackCannot
    BY <1>13 DEF RollbackCannot, RollbackFails, Marks
<1>14. CASE Attest
    BY <1>14 DEF Attest, Marks
<1>15. CASE Save
    BY <1>15 DEF Save, NextMeta
<1>16. CASE SaveFails
    BY <1>16 DEF SaveFails, Ended, ArtifactLeft
<1>17. CASE Clean
    BY <1>17 DEF Clean, Ended, ArtifactRemoved, ArtifactLeft
<1>18. ASSUME NEW text \in File, EditFile(text)
      PROVE Recoverable'
    BY <1>18 DEF EditFile
<1>19. CASE MoveBackup
    BY <1>19 DEF MoveBackup
<1>20. CASE Update
    BY <1>20 DEF Update
<1>21. CASE Die
    BY <1>21 DEF Die, Ended, ArtifactLeft
<1>22. CASE UNCHANGED packageVars
    BY <1>22 DEF packageVars
<1> QED
    BY <1>1, <1>2, <1>3, <1>4, <1>5, <1>6, <1>7, <1>8, <1>9, <1>10, <1>11,
       <1>12, <1>13, <1>14, <1>15, <1>16, <1>17, <1>18, <1>19, <1>20, <1>21, <1>22
    DEF PackageNext, Transact

\* Undisturbed, each step keeps what the next ones take for granted of the file.
LEMMA ReversibleStep ==
    PackageTypeOK /\ Reversible /\ [PackageNext]_packageVars => Reversible'
<1> SUFFICES ASSUME PackageTypeOK, Reversible, [PackageNext]_packageVars PROVE Reversible'
    OBVIOUS
<1> USE PackageAssumption DEF PackageTypeOK, File, Texts, Transactions, Reversible, Quiet,
            Before, Undoing, Candidate, Written, Actions,
            Proceeds, Stands, Smooth, Accident, files, past
<1>1. ASSUME NEW overwrite \in BOOLEAN, NEW collision \in BOOLEAN, Begin(overwrite, collision)
      PROVE Reversible'
    BY <1>1 DEF Begin, Proceeds
<1>2. CASE Backup
    BY <1>2 DEF Backup, Aborted
<1>3. CASE Stage
    BY <1>3 DEF Stage, Aborted
<1>4. CASE Check
    BY <1>4 DEF Check, Aborted, ArtifactRemoved
<1>5. CASE Replace
    BY <1>5 DEF Replace, Displaces
<1>6. CASE ReplaceFails
    BY <1>6 DEF ReplaceFails, Aborted
<1>7. CASE Verify
  <2>1. UNCHANGED edited
    BY <1>7 DEF Verify
  <2>2. Quiet' => Quiet
    BY <1>7 DEF Verify
  <2>3. step = "verify" /\ step' = "postflight" /\ same' = TRUE /\ dest' = dest
    BY <1>7, VerifyMarks
  <2>4. /\ install.action' \in {"replaced", "failed"}
        /\ install.action' = "replaced" => dest = install.source
        /\ install.action' = "failed" => dest # install.source \/ accidents' > 0
    BY <1>7, VerifyMarks
  <2>5. install.source' = install.source /\ install.after' = dest
        /\ install.denied' = install.denied
    BY <1>7, VerifyMarks
  <2>6. Quiet => dest = install.source /\ ~install.denied
    BY <2>3
  <2> HIDE DEF PackageTypeOK, Transactions, Quiet
  <2>7. Quiet' => install.action' # "failed"
    BY <2>2, <2>4, <2>6 DEF Quiet
  <2> QED
    BY <2>2, <2>3, <2>4, <2>5, <2>6, <2>7
<1>8. ASSUME NEW collision \in BOOLEAN, Postflight(collision)
      PROVE Reversible'
    BY <1>8 DEF Postflight, Marks
<1>9. CASE Rollback
    BY <1>9 DEF Rollback, RollbackFails, Marks
<1>10. CASE Recheck
    BY <1>10 DEF Recheck, RollbackFails, Marks
<1>11. CASE Undo
  <2>1. step = "undo" /\ step' = "undone" /\ dest' = install.before /\ same' = TRUE
    BY <1>11 DEF Undo
  <2>2. UNCHANGED <<install, edited, accidents>>
    BY <1>11 DEF Undo
  <2> QED
    BY <2>1, <2>2
<1>12. CASE UndoVerified
    BY <1>12 DEF UndoVerified, Marks
<1>13. CASE RollbackCannot
    BY <1>13 DEF RollbackCannot, RollbackFails, Marks
<1>14. CASE Attest
    BY <1>14 DEF Attest, Marks
<1>15. CASE Save
    BY <1>15 DEF Save, NextMeta
<1>16. CASE SaveFails
    BY <1>16 DEF SaveFails, Ended, ArtifactLeft
<1>17. CASE Clean
    BY <1>17 DEF Clean, Ended, ArtifactRemoved, ArtifactLeft
<1>18. ASSUME NEW text \in File, EditFile(text)
      PROVE Reversible'
    BY <1>18 DEF EditFile
<1>19. CASE MoveBackup
    BY <1>19 DEF MoveBackup
<1>20. CASE Update
    BY <1>20 DEF Update
<1>21. CASE Die
    BY <1>21 DEF Die, Ended, ArtifactLeft
<1>22. CASE UNCHANGED packageVars
    BY <1>22 DEF packageVars
<1> QED
    BY <1>1, <1>2, <1>3, <1>4, <1>5, <1>6, <1>7, <1>8, <1>9, <1>10, <1>11,
       <1>12, <1>13, <1>14, <1>15, <1>16, <1>17, <1>18, <1>19, <1>20, <1>21, <1>22
    DEF PackageNext, Transact

\* While transactions alone write the file, the metadata or the transaction knows it.
LEMMA AttributableStep ==
    PackageTypeOK /\ Attributable /\ [PackageNext]_packageVars => Attributable'
<1> SUFFICES ASSUME PackageTypeOK, Attributable, [PackageNext]_packageVars PROVE Attributable'
    OBVIOUS
<1> USE PackageAssumption DEF PackageTypeOK, File, Texts, Transactions, Attributable, Known,
            Managed, Unwritten, Torn, Before, Undoing, Candidate, Written, Actions,
            Proceeds, Stands, Smooth, Accident, files, past
<1>1. ASSUME NEW overwrite \in BOOLEAN, NEW collision \in BOOLEAN, Begin(overwrite, collision)
      PROVE Attributable'
    BY <1>1 DEF Begin, Proceeds
<1>2. CASE Backup
    BY <1>2 DEF Backup, Aborted
<1>3. CASE Stage
    BY <1>3 DEF Stage, Aborted
<1>4. CASE Check
    BY <1>4 DEF Check, Aborted, ArtifactRemoved
<1>5. CASE Replace
    BY <1>5 DEF Replace, Displaces
<1>6. CASE ReplaceFails
    BY <1>6 DEF ReplaceFails, Aborted
<1>7. CASE Verify
  <2>1. UNCHANGED <<own, meta>>
    BY <1>7 DEF Verify
  <2> HIDE DEF Transactions
  <2> QED
    BY <1>7, VerifyMarks, <2>1
<1>8. ASSUME NEW collision \in BOOLEAN, Postflight(collision)
      PROVE Attributable'
    BY <1>8 DEF Postflight, Marks
<1>9. CASE Rollback
    BY <1>9 DEF Rollback, RollbackFails, Marks
<1>10. CASE Recheck
    BY <1>10 DEF Recheck, RollbackFails, Marks
<1>11. CASE Undo
    BY <1>11 DEF Undo, Displaces
<1>12. CASE UndoVerified
    BY <1>12 DEF UndoVerified, Marks
<1>13. CASE RollbackCannot
    BY <1>13 DEF RollbackCannot, RollbackFails, Marks
<1>14. CASE Attest
    BY <1>14 DEF Attest, Marks
<1>15. CASE Save
    BY <1>15 DEF Save, NextMeta
<1>16. CASE SaveFails
    BY <1>16 DEF SaveFails, Ended, ArtifactLeft
<1>17. CASE Clean
    BY <1>17 DEF Clean, Ended, ArtifactRemoved, ArtifactLeft
<1>18. ASSUME NEW text \in File, EditFile(text)
      PROVE Attributable'
    BY <1>18 DEF EditFile
<1>19. CASE MoveBackup
    BY <1>19 DEF MoveBackup
<1>20. CASE Update
    BY <1>20 DEF Update
<1>21. CASE Die
  <2>1. step # "idle" /\ step' = "idle" /\ own' = (own /\ ~Torn) /\ UNCHANGED <<dest, meta>>
    BY <1>21 DEF Die, Ended
  <2>2. install.action \in Actions
    BY <2>1, InTransaction
  <2> SUFFICES ASSUME own, ~Torn PROVE Known(dest, meta)
    BY <2>1
  <2>3. step # "verify" /\ install.action # "failed"
    BY DEF Torn
  <2>4. CASE step = "clean"
    BY <2>3, <2>4
  <2>5. CASE step # "clean"
    <3>1. Unwritten
      BY <2>2, <2>3, <2>5 DEF Torn
    <3>2. dest = install.before /\ meta = install.was
      BY <2>1, <2>3, <2>5, <3>1 DEF Steps
    <3> QED
      BY <2>1, <3>2
  <2> QED
    BY <2>4, <2>5
<1>22. CASE UNCHANGED packageVars
    BY <1>22 DEF packageVars
<1> QED
    BY <1>1, <1>2, <1>3, <1>4, <1>5, <1>6, <1>7, <1>8, <1>9, <1>10, <1>11,
       <1>12, <1>13, <1>14, <1>15, <1>16, <1>17, <1>18, <1>19, <1>20, <1>21, <1>22
    DEF PackageNext, Transact

-----------------------------------------------------------------------------
\* The transactions of the installer keep their types.
THEOREM PackageTypesHold == PackageSpec => []PackageTypeOK
<1>1. PackageInit => PackageTypeOK
  <2> SUFFICES ASSUME PackageInit PROVE PackageTypeOK
    OBVIOUS
  <2>1. dest \in File /\ meta \in Releases \cup {NoFile} /\ release \in Releases
    BY PackageAssumption DEF PackageInit, File, Texts
  <2>2. fileEdits \in 0..MaxFileEdits /\ accidents \in 0..MaxAccidents
    BY PackageAssumption DEF PackageInit
  <2>3. /\ same = FALSE /\ late = FALSE /\ edited = FALSE /\ own = TRUE
        /\ backup = NoFile /\ artifact = NoFile /\ install = NoFile /\ step = "idle"
        /\ leftovers = {} /\ displaced = {} /\ taken = {}
    BY DEF PackageInit
  <2> QED
    BY <2>1, <2>2, <2>3 DEF PackageTypeOK, File
<1> QED
  BY <1>1, TypeStep, PTL DEF PackageSpec

\* A user's text that a transaction overwrote is still to be had: in the file, the
\* backup or an artifact, or where the user moved a backup to; whatever failed or died.
THEOREM TextsKept == PackageSpec => []UserTextKept
<1>1. PackageInit => Recoverable
  BY DEF PackageInit, Recoverable, Before, Undoing, Gaps
<1>2. Recoverable => UserTextKept
  BY DEF Recoverable, UserTextKept
<1> QED
  BY <1>1, <1>2, PackageTypesHold, RecoverableStep, PTL DEF PackageSpec

\* A transaction refused after it wrote leaves the file as it found it, unless the user
\* wrote it meanwhile or an operation failed.
THEOREM RefusalsUndone == PackageSpec => []RefusalUndone
<1>1. PackageInit => Reversible
  BY DEF PackageInit, Reversible, Before, Undoing
<1>2. Reversible => RefusalUndone
  BY DEF Reversible, Quiet, RefusalUndone
<1> QED
  BY <1>1, <1>2, PackageTypesHold, ReversibleStep, PTL DEF PackageSpec

\* A package only complete transactions wrote is known to the metadata: the next release
\* replaces it without being told to.
THEOREM UntouchedManaged == PackageSpec => []UntouchedIsManaged
<1>1. PackageInit => Attributable
  BY DEF PackageInit, Attributable, Known, Managed, Before, Undoing
<1>2. Attributable => UntouchedIsManaged
  BY DEF Attributable, Known, UntouchedIsManaged
<1> QED
  BY <1>1, <1>2, PackageTypesHold, AttributableStep, PTL DEF PackageSpec

-----------------------------------------------------------------------------
(* SeedAndCopy *)

\* Where a value comes from shows in what the start took from the dump.
Explained(s) == s.org = "framework" => s.val = Fallback
OriginInv ==
    /\ source \in States /\ target \in States /\ restored \subseteq {"source", "target"}
    /\ DOMAIN dump = {"source", "target"}
    /\ dump["source"] \in States \cup {Missing} /\ dump["target"] \in States \cup {Missing}
    /\ Explained(source)
    /\ source.org = "framework" /\ "source" \in restored => "target" \in restored
    /\ source.org = "user" /\ ~source.touched => "source" \in restored
    /\ target.org = "user" /\ ~target.touched => "target" \in restored
    /\ dump["source"] # Missing =>
          /\ Explained(dump["source"])
          /\ dump["source"].org = "framework" => dump["target"] # Missing

\* One set-up at a time is in the copy, and it goes on only with an open decision.
LockInv ==
    /\ stage \in [Entries -> {"seed", "copy", "done"} \cup SeedAt \cup CopyAt]
    /\ \A e, f \in Entries : stage[e] \in CopyAt /\ stage[f] \in CopyAt => e = f
    /\ \A e \in Entries : stage[e] = "copyTomb" => copy.status = "kept"
    /\ \A e \in Entries : stage[e] = "copySave" /\ decided => CopyDecided(copy)
    /\ \A e \in Entries : stage[e] \in {"copyCall", "copyRead", "copySettle"} => ~decided
    /\ decided => \/ CopyDecided(copyDisk) \/ copyDisk.status = "junk"
                  \/ \E e \in Entries : stage[e] = "copyTomb"

\* What is about to be copied is what the source has.
ExpectedInv ==
    \A e \in Entries :
       /\ stage[e] = "copySave" /\ copy.status = "retry" /\ ~moved => copy.expected = source.val
       /\ stage[e] = "copyCall" /\ ~moved => copy.expected = source.val

IInv == OriginInv /\ LockInv /\ ExpectedInv

-----------------------------------------------------------------------------
LEMMA InitInv == SeedInit => IInv
<1> SUFFICES ASSUME SeedInit PROVE IInv
  OBVIOUS
<1> USE SeedAssumption DEF SeedInit
<1>1. OriginInv
  <2>1. /\ DOMAIN dump = {"source", "target"} /\ dump["target"] = Missing
        /\ \/ dump["source"] = Missing
           \/ \E v \in Values : dump["source"] = State(v, "old")
    <3>1. CASE dump = [source |-> Missing, target |-> Missing]
      BY <3>1
    <3>2. CASE dump \in [source : {Missing} \cup {State(v, "old") : v \in Values}, target : {Missing}]
      BY <3>2
    <3> QED
      BY <3>1, <3>2
  <2>2. \A v \in Values \cup {Unset}, o \in Origins :
          State(v, o) \in States /\ State(v, o).org = o /\ State(v, o).val = v
    BY DEF State, States
  <2>3. /\ target = State(Unset, "framework") /\ "target" \notin restored
        /\ restored \subseteq {"source", "target"}
        /\ "source" \in restored <=> dump["source"] # Missing
    BY <2>1
  <2>4. CASE dump["source"] = Missing
    <3>1. source = State(Fallback, "framework")
      BY <2>4
    <3> QED
      BY <2>1, <2>2, <2>3, <2>4, <3>1 DEF OriginInv, Explained, Origins, Values
  <2>5. CASE \E v \in Values : dump["source"] = State(v, "old")
    <3>1. PICK v \in Values : dump["source"] = State(v, "old")
      BY <2>5
    <3>2. State(v, "old") \in States /\ State(v, "old").org = "old"
      BY <2>2 DEF Origins
    <3>3. source = State(v, "old")
      BY <3>1, <3>2
    <3> QED
      BY <2>1, <2>2, <2>3, <3>1, <3>2, <3>3 DEF OriginInv, Explained, Origins
  <2> QED
    BY <2>1, <2>4, <2>5
<1>2. LockInv /\ ExpectedInv
  BY DEF LockInv, ExpectedInv, SeedAt, CopyAt
<1> QED
  BY <1>1, <1>2 DEF IInv

LEMMA OriginStep == OriginInv /\ ExpectedInv /\ [SeedNext]_seedVars => OriginInv'
<1> SUFFICES ASSUME OriginInv, ExpectedInv, [SeedNext]_seedVars PROVE OriginInv'
  OBVIOUS
<1> USE SeedAssumption DEF OriginInv, Explained, States, Origins, Values, helpers, boot, ledgers
<1>1. CASE EditSource
  BY <1>1 DEF EditSource, Edit
<1>2. CASE EditTarget
  BY <1>2 DEF EditTarget, Edit
<1>3. CASE Started
  BY <1>3 DEF Started
<1>4. CASE Dump
  <2>1. source.org \in Origins /\ source.val \in Values \cup {Unset}
    OBVIOUS
  <2>2. /\ DOMAIN dump' = {"source", "target"}
        /\ dump'["source"] \in States /\ dump'["source"].val = source.val
        /\ dump'["source"].org = "framework" => loaded /\ source.org = "framework"
        /\ dump'["target"] = IF loaded THEN Dumped(target) ELSE dump["target"]
    BY <1>4, <2>1 DEF Dump, Dumped
  <2>3. Dumped(target) \in States
    BY DEF Dumped
  <2> QED
    BY <1>4, <2>2, <2>3 DEF Dump
<1>5. CASE Reboot
  BY <1>5 DEF Reboot, Boots, State, Fault
<1>6. CASE Corrupt
  BY <1>6 DEF Corrupt, Fault, Copy, Seed
<1>7. ASSUME NEW e \in Entries, Setup(e) PROVE OriginInv'
  <2>1. CASE Reload(e)
    BY <2>1 DEF Reload
  <2>2. CASE SeedQuarantine(e)
    BY <2>2 DEF SeedQuarantine, Seed
  <2>3. CASE SeedLoad(e)
    BY <2>3 DEF SeedLoad, SeedReturns
  <2>4. CASE SeedSaved(e)
    BY <2>4 DEF SeedSaved, SeedStep, SeedReturns
  <2>5. CASE SeedFinal(e)
    BY <2>5 DEF SeedFinal, SeedStep, SeedReturns
  <2>6. CASE SeedSaveFails(e)
    BY <2>6 DEF SeedSaveFails, SeedStep, SeedRaises, Fault
  <2>7. CASE SeedCalls(e)
    <3>1. /\ source' \in {source, State(Default, "seed")}
          /\ UNCHANGED <<target, restored, dump>>
      BY <2>7 DEF SeedCalls, SeedStep
    <3>2. /\ State(Default, "seed") \in States
          /\ State(Default, "seed").org = "seed" /\ Explained(State(Default, "seed"))
      BY DEF State
    <3> QED
      BY <3>1, <3>2
  <2>8. CASE SeedCallFails(e)
    BY <2>8 DEF SeedCallFails, SeedStep, Fault
  <2>9. CASE SeedReads(e)
    BY <2>9 DEF SeedReads, SeedStep
  <2>10. CASE CopyQuarantine(e)
    BY <2>10 DEF CopyQuarantine, Kept, Copy
  <2>11. CASE CopyLoad(e)
    BY <2>11 DEF CopyLoad, CopyDone
  <2>12. CASE CopySaved(e)
    BY <2>12 DEF CopySaved, CopyStep, CopyDone
  <2>13. CASE CopyFinal(e)
    BY <2>13 DEF CopyFinal, CopyStep, CopyDone
  <2>14. CASE CopySaveFails(e)
    BY <2>14 DEF CopySaveFails, CopyStep, CopyDone, Fault
  <2>15. CASE CopyCalls(e)
    <3>1. /\ \/ target' = target
             \/ target' = State(copy.expected, "copy") /\ copy.expected = source.val
          /\ UNCHANGED <<source, restored, dump>>
      BY <2>15 DEF CopyCalls, CopyStep, ExpectedInv
    <3>2. State(source.val, "copy") \in States /\ State(source.val, "copy").org = "copy"
      BY DEF State
    <3> QED
      BY <3>1, <3>2
  <2>16. CASE CopyCallFails(e)
    BY <2>16 DEF CopyCallFails, CopyStep, Fault
  <2>17. CASE CopyReads(e)
    BY <2>17 DEF CopyReads, CopyStep
  <2> QED
    BY <1>7, <2>1, <2>2, <2>3, <2>4, <2>5, <2>6, <2>7, <2>8, <2>9, <2>10, <2>11, <2>12, <2>13, <2>14, <2>15, <2>16, <2>17 DEF Setup
<1>8. CASE UNCHANGED seedVars
  BY <1>8 DEF seedVars
<1> QED
  BY <1>1, <1>2, <1>3, <1>4, <1>5, <1>6, <1>7, <1>8 DEF SeedNext

LEMMA PlanKeeps ==
  ASSUME NEW e, NEW c, CopyDecided(c)
  PROVE  CopyPlan(e, c) = c
BY DEF CopyPlan

LEMMA PlanExpects ==
  ASSUME NEW e, NEW c, CopyPlan(e, c).status = "retry"
  PROVE  CopyPlan(e, c).expected = source.val
<1>1. Copy("kept").status = "kept"
  BY DEF Copy
<1>2. CASE CopyDecided(c)
  BY <1>2 DEF CopyPlan, CopyDecided
<1>3. CASE ~CopyDecided(c)
  BY <1>1, <1>3 DEF CopyPlan, Kept
<1> QED
  BY <1>2, <1>3

LEMMA LockStep == LockInv /\ [SeedNext]_seedVars => LockInv'
<1> SUFFICES ASSUME LockInv, [SeedNext]_seedVars PROVE LockInv'
  OBVIOUS
<1> USE SeedAssumption DEF LockInv, CopyDecided, SeedAt, CopyAt, Goes, Free, helpers, boot, ledgers
<1>1. CASE EditSource
  BY <1>1 DEF EditSource, Edit
<1>2. CASE EditTarget
  BY <1>2 DEF EditTarget, Edit
<1>3. CASE Started
  BY <1>3 DEF Started
<1>4. CASE Dump
  BY <1>4 DEF Dump, Dumped
<1>5. CASE Reboot
  BY <1>5 DEF Reboot, Boots, State, Fault
<1>6. CASE Corrupt
  BY <1>6 DEF Corrupt, Fault, Copy, Seed
<1>7. ASSUME NEW e \in Entries, Setup(e) PROVE LockInv'
  <2>1. CASE Reload(e)
    BY <2>1 DEF Reload
  <2>2. CASE SeedQuarantine(e)
    BY <2>2 DEF SeedQuarantine, Seed
  <2>3. CASE SeedLoad(e)
    <3>1. /\ \/ stage' = [stage EXCEPT ![e] = "copy"]
             \/ stage' = [stage EXCEPT ![e] = "seedSave"]
          /\ stage[e] = "seed" /\ UNCHANGED <<copy, copyDisk, decided>>
      BY <2>3 DEF SeedLoad, SeedReturns
    <3> QED
      BY <3>1
  <2>4. CASE SeedSaved(e)
    BY <2>4 DEF SeedSaved, SeedStep, SeedReturns
  <2>5. CASE SeedFinal(e)
    BY <2>5 DEF SeedFinal, SeedStep, SeedReturns
  <2>6. CASE SeedSaveFails(e)
    BY <2>6 DEF SeedSaveFails, SeedStep, SeedRaises, Fault
  <2>7. CASE SeedCalls(e)
    BY <2>7 DEF SeedCalls, SeedStep, Pristine, State
  <2>8. CASE SeedCallFails(e)
    BY <2>8 DEF SeedCallFails, SeedStep, Fault
  <2>9. CASE SeedReads(e)
    BY <2>9 DEF SeedReads, SeedStep
  <2>10. CASE CopyQuarantine(e)
    BY <2>10 DEF CopyQuarantine, Kept, Copy
  <2>11. CASE CopyLoad(e)
    <3>1. CASE started
      BY <2>11, <3>1 DEF CopyLoad, CopyDone
    <3>2. CASE ~started
      <4> DEFINE c == IF copyDisk.status = "absent" THEN Copy("new") ELSE copyDisk
      <4>1. /\ stage[e] = "copy" /\ \A f \in Entries : stage[f] \notin CopyAt
            /\ copy' = CopyPlan(e, c) /\ stage' = [stage EXCEPT ![e] = "copySave"]
            /\ UNCHANGED <<copyDisk, decided>> /\ copyDisk.status # "junk"
        BY <2>11, <3>2 DEF CopyLoad
      <4>2. decided => CopyDecided(copyDisk) /\ c = copyDisk
        BY <4>1
      <4>3. decided => CopyDecided(copy')
        BY <4>1, <4>2, PlanKeeps
      <4> QED
        BY <4>1, <4>2, <4>3
    <3> QED
      BY <3>1, <3>2
  <2>12. CASE CopySaved(e)
    <3>1. /\ stage[e] = "copySave" /\ copyDisk' = copy /\ copy' \in {copy, Missing}
          /\ decided' = (decided \/ CopyDecided(copy))
          /\ \/ stage' = [stage EXCEPT ![e] = "done"]
             \/ /\ stage' = [stage EXCEPT ![e] = "copyCall"] /\ copy.status = "retry"
      BY <2>12 DEF CopySaved, CopyStep, CopyDone
    <3>2. \A f \in Entries : f # e => stage[f] \notin CopyAt
      BY <3>1
    <3>3. decided' => CopyDecided(copyDisk')
      BY <3>1
    <3>4. copy.status = "retry" => ~decided'
      BY <3>1
    <3> QED
      BY <3>1, <3>2, <3>3, <3>4
  <2>13. CASE CopyFinal(e)
    <3>1. /\ stage[e] \in {"copyTomb", "copySettle"} /\ stage' = [stage EXCEPT ![e] = "done"]
          /\ copyDisk' = copy /\ decided' = (decided \/ CopyDecided(copy))
      BY <2>13 DEF CopyFinal, CopyStep, CopyDone
    <3>2. \A f \in Entries : f # e => stage[f] \notin CopyAt
      BY <3>1
    <3>3. decided' => CopyDecided(copyDisk')
      BY <3>1
    <3> QED
      BY <3>1, <3>2, <3>3
  <2>14. CASE CopySaveFails(e)
    BY <2>14 DEF CopySaveFails, CopyStep, CopyDone, Fault
  <2>15. CASE CopyCalls(e)
    BY <2>15 DEF CopyCalls, CopyStep, Kept, Copy, State
  <2>16. CASE CopyCallFails(e)
    BY <2>16 DEF CopyCallFails, CopyStep, Fault
  <2>17. CASE CopyReads(e)
    BY <2>17 DEF CopyReads, CopyStep
  <2> QED
    BY <1>7, <2>1, <2>2, <2>3, <2>4, <2>5, <2>6, <2>7, <2>8, <2>9, <2>10, <2>11, <2>12, <2>13, <2>14, <2>15, <2>16, <2>17 DEF Setup
<1>8. CASE UNCHANGED seedVars
  BY <1>8 DEF seedVars
<1> QED
  BY <1>1, <1>2, <1>3, <1>4, <1>5, <1>6, <1>7, <1>8 DEF SeedNext

LEMMA ExpectedStep == LockInv /\ ExpectedInv /\ [SeedNext]_seedVars => ExpectedInv'
<1> SUFFICES ASSUME LockInv /\ ExpectedInv, [SeedNext]_seedVars PROVE ExpectedInv'
  OBVIOUS
<1> USE SeedAssumption DEF LockInv, ExpectedInv, CopyDecided, SeedAt, CopyAt, Goes, Free, helpers, boot, ledgers
<1>1. CASE EditSource
  BY <1>1 DEF EditSource, Edit
<1>2. CASE EditTarget
  BY <1>2 DEF EditTarget, Edit
<1>3. CASE Started
  BY <1>3 DEF Started
<1>4. CASE Dump
  BY <1>4 DEF Dump, Dumped
<1>5. CASE Reboot
  BY <1>5 DEF Reboot, Boots, State, Fault
<1>6. CASE Corrupt
  BY <1>6 DEF Corrupt, Fault, Copy, Seed
<1>7. ASSUME NEW e \in Entries, Setup(e) PROVE ExpectedInv'
  <2>1. CASE Reload(e)
    BY <2>1 DEF Reload
  <2>2. CASE SeedQuarantine(e)
    BY <2>2 DEF SeedQuarantine, Seed
  <2>3. CASE SeedLoad(e)
    BY <2>3 DEF SeedLoad, SeedReturns
  <2>4. CASE SeedSaved(e)
    BY <2>4 DEF SeedSaved, SeedStep, SeedReturns
  <2>5. CASE SeedFinal(e)
    BY <2>5 DEF SeedFinal, SeedStep, SeedReturns
  <2>6. CASE SeedSaveFails(e)
    BY <2>6 DEF SeedSaveFails, SeedStep, SeedRaises, Fault
  <2>7. CASE SeedCalls(e)
    BY <2>7 DEF SeedCalls, SeedStep, Pristine, State
  <2>8. CASE SeedCallFails(e)
    BY <2>8 DEF SeedCallFails, SeedStep, Fault
  <2>9. CASE SeedReads(e)
    BY <2>9 DEF SeedReads, SeedStep
  <2>10. CASE CopyQuarantine(e)
    BY <2>10 DEF CopyQuarantine, Kept, Copy
  <2>11. CASE CopyLoad(e)
    <3>1. CASE started
      BY <2>11, <3>1 DEF CopyLoad, CopyDone
    <3>2. CASE ~started
      <4>1. /\ \E c : copy' = CopyPlan(e, c)
            /\ \A f \in Entries : stage[f] \notin CopyAt
            /\ stage' = [stage EXCEPT ![e] = "copySave"] /\ source' = source
        BY <2>11, <3>2 DEF CopyLoad
      <4>2. copy'.status = "retry" => copy'.expected = source.val
        BY <4>1, PlanExpects
      <4> QED
        BY <4>1, <4>2
    <3> QED
      BY <3>1, <3>2
  <2>12. CASE CopySaved(e)
    BY <2>12 DEF CopySaved, CopyStep, CopyDone
  <2>13. CASE CopyFinal(e)
    BY <2>13 DEF CopyFinal, CopyStep, CopyDone
  <2>14. CASE CopySaveFails(e)
    BY <2>14 DEF CopySaveFails, CopyStep, CopyDone, Fault
  <2>15. CASE CopyCalls(e)
    BY <2>15 DEF CopyCalls, CopyStep, Kept, Copy, State
  <2>16. CASE CopyCallFails(e)
    BY <2>16 DEF CopyCallFails, CopyStep, Fault
  <2>17. CASE CopyReads(e)
    BY <2>17 DEF CopyReads, CopyStep
  <2> QED
    BY <1>7, <2>1, <2>2, <2>3, <2>4, <2>5, <2>6, <2>7, <2>8, <2>9, <2>10, <2>11, <2>12, <2>13, <2>14, <2>15, <2>16, <2>17 DEF Setup
<1>8. CASE UNCHANGED seedVars
  BY <1>8 DEF seedVars
<1> QED
  BY <1>1, <1>2, <1>3, <1>4, <1>5, <1>6, <1>7, <1>8 DEF SeedNext

-----------------------------------------------------------------------------
LEMMA Invariant == SeedSpec => []IInv
<1>1. IInv /\ [SeedNext]_seedVars => IInv'
  BY OriginStep, LockStep, ExpectedStep DEF IInv
<1> QED
  BY InitInv, <1>1, PTL DEF SeedSpec

\* Neither helper's value is replaced where the user chose it, in this run or in one
\* before (the rechecks before the service calls of both passes).
THEOREM UserEditsKept == SeedSpec => EditsKept
<1>1. IInv /\ [SeedNext]_seedVars =>
        [/\ Seeding => source.org # "user"
         /\ Copying => target.org # "user" \/ (target.touched /\ target.val = Unset)]_seedVars
  BY DEF IInv, OriginInv, Seeding, Copying, SeedCalls, SeedStep, Pristine, CopyCalls, CopyStep, States
<1> QED
  BY Invariant, <1>1, PTL DEF SeedSpec, EditsKept

\* A copy is of the source as it is, and never of the minimum Home Assistant gave it.
THEOREM MeantCopies == SeedSpec => CopyIsMeant
<1>1. IInv /\ [SeedNext]_seedVars =>
        [Copying => target'.val = source.val /\ source.org # "framework"]_seedVars
  BY SeedAssumption DEF IInv, OriginInv, ExpectedInv, Explained, Copying, CopyCalls, CopyStep, Provenance, State
<1> QED
  BY Invariant, <1>1, PTL DEF SeedSpec, CopyIsMeant

\* A decision in the Store is the last one.
THEOREM OneDecision == SeedSpec => DecidedOnce
<1>1. IInv /\ [SeedNext]_seedVars => [Copying => ~decided]_seedVars
  BY DEF IInv, LockInv, Copying, CopyCalls, CopyStep
<1> QED
  BY Invariant, <1>1, PTL DEF SeedSpec, DecidedOnce
=============================================================================
