---------------------------- MODULE PackageInstall ----------------------------
(***************************************************************************)
(* How a set-up or the service "install assets" puts the EMS package of    *)
(* the integration into the user's configuration (assets.py).  The package *)
(* is a file the user may have edited: one transaction at a time captures  *)
(* it, keeps its text in a fixed backup and in an artifact of its own,     *)
(* replaces it, looks again for helpers that collide, and takes itself     *)
(* back if there are any.  The user edits the file between any two steps,  *)
(* each file operation may fail and Home Assistant may die.                *)
(*                                                                         *)
(* A file is its text.  Its identity (inode, times) is abstracted to       *)
(* `same': nobody else wrote the file since the transaction captured it.   *)
(***************************************************************************)
EXTENDS Naturals, FiniteSets

CONSTANTS
    NoFile,
    Releases,       \* texts the integration ships, by release and language
    Legacy,         \* LEGACY_MANAGED_HASHES: those it knows without metadata
    UserTexts,      \* what a user makes of them
    MaxFileEdits,   \* bound: edits by the user
    MaxAccidents    \* bound: failed file operations and saves, deaths

Texts == Releases \cup UserTexts

VARIABLES
    dest,       \* the package file, NoFile if absent
    same,       \* nobody else wrote it since it was captured
    backup,     \* the fixed backup
    release,    \* what the installed integration ships, in the language set
    meta,       \* the hash of the package in the Store
    step,       \* the step the transaction stands at
    install,    \* its request, what it captured and how far it came
    artifact,   \* its rollback artifact
    leftovers,  \* artifacts no transaction owns any more
    displaced,  \* history: texts of the user a transaction replaced,
    taken,      \* those the user moved away with a backup,
    late,       \* whether the last edit fell between a check and its replacement,
    edited,     \* whether the user wrote the file since this one was captured,
    own,        \* and whether transactions alone wrote it and none was torn
    fileEdits, accidents
files == <<dest, same, backup, artifact, leftovers>>
past == <<displaced, taken, late, edited, own>>
packageVars == <<files, release, meta, step, install, past, fileEdits, accidents>>

File == Texts \cup {NoFile}
Steps == {"backup", "stage", "check", "replace", "verify", "postflight", "rollback",
          "recheck", "undo", "undone", "attest", "save", "clean"}
Actions == {"none", "current", "replaced", "failed"}
Transactions == [overwrite : BOOLEAN, source : Releases, before : File,
                 was : Releases \cup {NoFile}, action : Actions, after : File,
                 denied : BOOLEAN, rollback : {"none", "restored", "failed"},
                 verified : BOOLEAN]
\* A user's text is none that was ever shipped; None is no text and no transaction.
ASSUME PackageAssumption ==
    /\ Legacy \subseteq Releases /\ Releases \cap UserTexts = {}
    /\ NoFile \notin Texts /\ NoFile \notin Transactions
    /\ MaxFileEdits \in Nat /\ MaxAccidents \in Nat

PackageTypeOK ==
    /\ dest \in File /\ same \in BOOLEAN /\ backup \in File /\ release \in Releases
    /\ meta \in Releases \cup {NoFile} /\ step \in Steps \cup {"idle"}
    /\ install \in Transactions \cup {NoFile} /\ (install = NoFile <=> step = "idle")
    /\ artifact \in File /\ leftovers \subseteq Texts
    /\ displaced \subseteq UserTexts /\ taken \subseteq Texts
    /\ late \in BOOLEAN /\ edited \in BOOLEAN /\ own \in BOOLEAN
    /\ fileEdits \in 0..MaxFileEdits /\ accidents \in 0..MaxAccidents

\* A first install, or one that was managed so far.
PackageInit ==
    /\ release \in Releases
    /\ \/ dest = NoFile /\ meta = NoFile
       \/ dest \in Legacy /\ meta \in {NoFile, dest}
       \/ dest \in Releases /\ meta = dest
    /\ same = FALSE /\ backup = NoFile /\ step = "idle" /\ install = NoFile
    /\ artifact = NoFile /\ leftovers = {} /\ displaced = {} /\ taken = {}
    /\ late = FALSE /\ edited = FALSE /\ own = TRUE /\ fileEdits = 0 /\ accidents = 0

Proceeds(s) == step' = s
Stands(s) == step = s /\ UNCHANGED <<release, fileEdits>>
Marks(field, value) == install' = [install EXCEPT ![field] = value]
Accident == accidents < MaxAccidents /\ accidents' = accidents + 1
Smooth == UNCHANGED accidents

-----------------------------------------------------------------------------
(* _sync_ems_scheduler.                                                    *)
Managed(text, hash) == text = hash \/ text \in Legacy

\* The metadata and the helpers that would collide are read, then the file is
\* captured.  What is current or kept, and what is refused, changes no file.
Begin(overwrite, collision) ==
    /\ step = "idle"
    /\ LET t == [overwrite |-> overwrite, source |-> release, before |-> dest, was |-> meta,
                 action |-> "none", after |-> dest, denied |-> collision,
                 rollback |-> "none", verified |-> FALSE]
       IN IF collision THEN install' = t /\ Proceeds("postflight")
          ELSE IF dest = release
          THEN install' = [t EXCEPT !.action = "current"] /\ Proceeds("postflight")
          ELSE IF dest # NoFile /\ ~overwrite /\ ~Managed(dest, meta)
          THEN install' = t /\ Proceeds("postflight")
          ELSE install' = t /\ Proceeds(IF dest = NoFile THEN "stage" ELSE "backup")
    /\ same' = TRUE /\ late' = FALSE /\ edited' = FALSE
    /\ UNCHANGED <<dest, backup, artifact, leftovers, release, meta, displaced, taken, own,
                   fileEdits, accidents>>

\* Before anything was replaced a failure removes the artifact; unless that fails too.
Aborted == Proceeds("postflight") /\ UNCHANGED install
ArtifactRemoved ==
    /\ artifact' = NoFile
    /\ \/ Smooth /\ UNCHANGED leftovers
       \/ artifact # NoFile /\ Accident /\ leftovers' = leftovers \cup {artifact}
ArtifactLeft ==
    artifact' = NoFile /\ leftovers' = leftovers \cup ({artifact} \ {NoFile})

\* _ensure_fixed_backup: an existing backup has to be of this very text.
Backup ==
    /\ Stands("backup")
    /\ \/ backup = NoFile /\ backup' = install.before /\ Smooth /\ Proceeds("stage")
          /\ UNCHANGED install
       \/ backup = install.before /\ Smooth /\ Proceeds("stage") /\ UNCHANGED <<backup, install>>
       \/ backup \notin {NoFile, install.before} /\ Smooth /\ Aborted /\ UNCHANGED backup
       \/ backup = NoFile /\ backup' \in {NoFile, install.before} /\ Accident /\ Aborted
    /\ UNCHANGED <<dest, same, artifact, leftovers, meta, past>>

Stage ==
    /\ Stands("stage")
    /\ \/ artifact' = install.before /\ Smooth /\ Proceeds("check")
          /\ UNCHANGED <<install, leftovers>>
       \/ Accident /\ Aborted /\ UNCHANGED <<artifact, leftovers>>
       \/ /\ Accident /\ Aborted /\ UNCHANGED artifact
          /\ leftovers' = leftovers \cup ({install.before} \ {NoFile})
    /\ UNCHANGED <<dest, same, backup, meta, past>>

\* _revalidate_destination.
Unchecked ==        \* mutant: the file is not compared with the capture again
    /\ Stands("check") /\ Proceeds("replace") /\ Smooth
    /\ UNCHANGED <<install, artifact, leftovers, dest, same, backup, meta, past>>
Check ==
    /\ Stands("check")
    /\ IF same THEN Proceeds("replace") /\ Smooth /\ UNCHANGED <<install, artifact, leftovers>>
       ELSE Aborted /\ ArtifactRemoved
    /\ UNCHANGED <<dest, same, backup, meta, past>>

\* What the user put there between the check and the replacement is lost.
Displaces == displaced' = displaced \cup ({dest} \cap IF late THEN {} ELSE UserTexts)
Replace ==
    /\ Stands("replace") /\ Proceeds("verify") /\ Smooth
    /\ dest' = install.source /\ same' = TRUE /\ Displaces /\ late' = FALSE
    /\ UNCHANGED <<backup, artifact, leftovers, meta, install, taken, edited, own>>
ReplaceFails ==
    /\ Stands("replace") /\ Aborted
    /\ Accident /\ artifact' = NoFile
    /\ leftovers' \in {leftovers, leftovers \cup ({artifact} \ {NoFile})}
    /\ UNCHANGED <<dest, same, backup, meta, past>>

\* The replaced file is captured; it is not what was written, or the directory
\* cannot be synchronized.
Verify ==
    /\ Stands("verify") /\ Proceeds("postflight")
    /\ \/ Smooth /\ install' = [install EXCEPT
                                   !.action = IF dest = install.source THEN "replaced"
                                              ELSE "failed",
                                   !.after = dest]
       \/ Accident /\ install' = [install EXCEPT !.action = "failed", !.after = dest]
    /\ same' = TRUE
    /\ UNCHANGED <<dest, backup, artifact, leftovers, meta, past>>

-----------------------------------------------------------------------------
(* async_install_assets after the file phase.                              *)
Written == install.action \in {"replaced", "failed"}
Candidate == install.action \in {"current", "replaced"}
PostflightOnly(collision) ==    \* mutant: a collision found late is reported, not undone
    /\ Stands("postflight")
    /\ Marks("denied", install.denied \/ collision)
    /\ Proceeds(IF ~install.denied /\ ~collision /\ Candidate THEN "attest" ELSE "save")
    /\ UNCHANGED <<files, meta, past, accidents>>
Postflight(collision) ==
    /\ Stands("postflight")
    /\ Marks("denied", install.denied \/ collision)
    /\ Proceeds(IF collision /\ Written THEN "rollback"
            ELSE IF ~install.denied /\ ~collision /\ Candidate THEN "attest" ELSE "save")
    /\ UNCHANGED <<files, meta, past, accidents>>

\* _rollback_scheduler: only what this transaction put there is taken back.
RollbackFails == Marks("rollback", "failed") /\ Proceeds("save")
Rollback ==
    /\ Stands("rollback")
    /\ IF same /\ install.after = install.source
       THEN Proceeds(IF install.before = NoFile THEN "undo" ELSE "recheck") /\ UNCHANGED install
       ELSE RollbackFails
    /\ UNCHANGED <<files, meta, past, accidents>>
Recheck ==
    /\ Stands("recheck")
    /\ IF same THEN Proceeds("undo") /\ UNCHANGED install ELSE RollbackFails
    /\ UNCHANGED <<files, meta, past, accidents>>
Undo ==
    /\ Stands("undo") /\ Proceeds("undone") /\ Smooth
    /\ dest' = install.before /\ same' = TRUE /\ Displaces /\ late' = FALSE
    /\ UNCHANGED <<backup, artifact, leftovers, meta, install, taken, edited, own>>
UndoVerified ==
    /\ Stands("undone") /\ Proceeds("save")
    /\ Marks("rollback", IF dest = install.before THEN "restored" ELSE "failed")
    /\ UNCHANGED <<files, meta, past, accidents>>
RollbackCannot ==
    /\ \E s \in {"rollback", "recheck", "undo", "undone"} : Stands(s)
    /\ Accident /\ RollbackFails
    /\ UNCHANGED <<files, meta, displaced, taken, late, edited>> /\ own' = FALSE

\* _attest_scheduler_destination.
Attest ==
    /\ Stands("attest") /\ Proceeds("save")
    /\ Marks("verified", same)
    /\ UNCHANGED <<files, meta, past, accidents>>

\* _scheduler_metadata_after_transaction.
NextMetaForgets ==  \* mutant: a rollback forgets the hash in any case
    IF ~install.denied /\ install.verified THEN install.source
    ELSE IF install.rollback = "restored" THEN NoFile
    ELSE install.was
NextMeta ==
    IF ~install.denied /\ install.verified THEN install.source
    ELSE IF install.rollback = "restored"
    THEN IF install.was = install.before THEN install.was ELSE NoFile
    ELSE install.was
Save ==
    /\ Stands("save") /\ Proceeds("clean") /\ Smooth
    /\ meta' = NextMeta
    /\ UNCHANGED <<files, install, past>>

Ended == Proceeds("idle") /\ install' = NoFile
\* The file was written and the metadata of that write is not in the Store.
Torn ==
    \/ step = "verify" \/ install.action = "failed"
    \/ install.action = "replaced" /\ step # "clean"
\* An exception ends the transaction; the artifact stays.
SaveFails ==
    /\ Stands("save") /\ Ended /\ Accident /\ ArtifactLeft
    /\ own' = (own /\ ~Torn)
    /\ UNCHANGED <<dest, same, backup, meta, displaced, taken, late, edited>>

Resolved == (~install.denied /\ install.action = "replaced") \/ install.rollback = "restored"
Clean ==
    /\ Stands("clean") /\ Ended
    /\ IF Resolved THEN ArtifactRemoved ELSE ArtifactLeft /\ Smooth
    /\ own' = (own /\ ~Torn)
    /\ UNCHANGED <<dest, same, backup, meta, displaced, taken, late, edited>>

-----------------------------------------------------------------------------
(* The user and Home Assistant.                                            *)
Gaps == {"replace", "undo"}
EditFile(text) ==
    /\ fileEdits < MaxFileEdits /\ fileEdits' = fileEdits + 1
    /\ text # dest /\ dest' = text /\ same' = FALSE
    /\ late' = (step \in Gaps) /\ edited' = TRUE /\ own' = FALSE
    /\ UNCHANGED <<backup, artifact, leftovers, release, meta, step, install, displaced,
                   taken, accidents>>
\* As the message of an unsafe backup tells the user to: what it held is theirs.
MoveBackup ==
    /\ backup # NoFile /\ backup' = NoFile
    /\ fileEdits < MaxFileEdits /\ fileEdits' = fileEdits + 1
    /\ taken' = taken \cup {backup}
    /\ UNCHANGED <<dest, same, artifact, leftovers, release, meta, step, install, displaced, late,
                   edited, own, accidents>>
\* Another release or language, from the next start on.
Update ==
    /\ step = "idle" /\ release' \in Releases
    /\ UNCHANGED <<files, meta, step, install, past, fileEdits, accidents>>
Die ==
    /\ step # "idle" /\ Ended /\ Accident /\ ArtifactLeft
    /\ own' = (own /\ ~Torn)
    /\ UNCHANGED <<dest, same, backup, release, meta, displaced, taken, late, edited, fileEdits>>

Transact ==
    \/ \E overwrite, collision \in BOOLEAN : Begin(overwrite, collision)
    \/ Backup \/ Stage \/ Check \/ Replace \/ ReplaceFails \/ Verify
    \/ \E collision \in BOOLEAN : Postflight(collision)
    \/ Rollback \/ Recheck \/ Undo \/ UndoVerified \/ RollbackCannot
    \/ Attest \/ Save \/ SaveFails \/ Clean
PackageNext ==
    \/ Transact \/ (\E text \in File : EditFile(text)) \/ MoveBackup \/ Update \/ Die
PackageSpec == PackageInit /\ [][PackageNext]_packageVars

-----------------------------------------------------------------------------
\* A text of the user's that a transaction replaced or removed can be had back, from
\* the backup if from nowhere else, whatever failed or died, unless moved away;
\* only what was written between the last check and the replacement is lost.
UserTextKept == displaced \subseteq {dest, backup, artifact} \cup leftovers \cup taken

\* A transaction that is refused after it wrote leaves the file as it was, unless the
\* user wrote it meanwhile or the rollback itself failed.
RefusalUndone ==
    step \in {"save", "clean"} /\ install.denied /\ ~edited /\ accidents = 0 =>
        dest = install.before

\* A package that only complete transactions wrote is not taken for one the user
\* modified: the next release may replace it without being told to.
UntouchedIsManaged ==
    step = "idle" /\ own => dest = NoFile \/ Managed(dest, meta)
=============================================================================
