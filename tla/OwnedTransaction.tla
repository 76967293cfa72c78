--------------------------- MODULE OwnedTransaction ---------------------------
(***************************************************************************)
(* What the supervisor promises of a transaction, whatever fails: it has    *)
(* written down whom to stop and what to restore before it forces the       *)
(* inverter, forgets neither while anything forced may still act, and takes *)
(* no stop back.  A transaction is known by its phase and by the block it   *)
(* will restore, once in RAM and once in the Store; MASTER STOP latches it  *)
(* until the user rearms.                                                   *)
(***************************************************************************)
CONSTANTS
    Bases,     \* the blocks an owner may restore
    None

VARIABLES
    own,       \* the transaction in RAM
    stored,    \* the one a restart will find
    live,      \* a forced block is on the inverter, queued, or would be accepted
    waived     \* the user went off the grid: nothing is restored

Nobody(latched) == [phase |-> "idle", base |-> None, latched |-> latched]
Records ==
    {Nobody(latched) : latched \in BOOLEAN} \cup
    [phase : {"opening", "driving", "closing", "failed"}, base : Bases, latched : BOOLEAN]

TypeOK == own \in Records /\ stored \in Records /\ live \in BOOLEAN /\ waived \in BOOLEAN

Init == own = Nobody(FALSE) /\ stored = own /\ live = FALSE /\ waived = FALSE

\* A step of RAM, which the Store may miss.
Becomes(o) == own' = o /\ stored' \in {stored, o}
Enters(phase) == Becomes([own EXCEPT !.phase = phase]) /\ UNCHANGED <<live, waived>>
Waives == waived' \in {waived, TRUE}

Open ==
    /\ own.phase = "idle" /\ ~own.latched
    /\ \E b \in Bases : Becomes([own EXCEPT !.phase = "opening", !.base = b])
    /\ UNCHANGED <<live, waived>>
\* Nothing forced leaves before the Store knows its owner, nor once stopped.
Force ==
    /\ own.phase \in {"opening", "driving"} /\ ~own.latched /\ stored = own
    /\ live' = TRUE /\ UNCHANGED <<own, stored, waived>>
Subside == live' = FALSE /\ UNCHANGED <<own, stored, waived>>
Drive == own.phase = "opening" /\ Enters("driving")
Close == own.phase \in {"opening", "driving"} /\ Enters("closing")
GiveUp == own.phase = "closing" /\ Enters("failed")
Release ==
    /\ own.phase \in {"opening", "closing"} /\ Becomes(Nobody(own.latched))
    /\ Waives /\ (live => waived') /\ UNCHANGED live

\* MASTER STOP takes over what there is; at rest it makes sure of the mode of
\* the block read, or finds nothing to do.
MasterStop ==
    /\ IF own.phase = "idle"
       THEN \/ Becomes(Nobody(TRUE)) /\ Waives
            \/ /\ \E b \in Bases : Becomes([phase |-> "closing", base |-> b, latched |-> TRUE])
               /\ UNCHANGED waived
       ELSE /\ \E phase \in {"closing", own.phase} \cap {"closing", "failed"} :
                  Becomes([own EXCEPT !.phase = phase, !.latched = TRUE])
            /\ UNCHANGED waived
    /\ UNCHANGED live
Rearm == own.phase = "idle" /\ Becomes(Nobody(FALSE)) /\ UNCHANGED <<live, waived>>

Save == stored' = own /\ UNCHANGED <<own, live, waived>>
Restart ==
    /\ own' = IF stored.phase = "idle" THEN stored ELSE [stored EXCEPT !.phase = "closing"]
    /\ stored' = own' /\ UNCHANGED <<live, waived>>

Next ==
    \/ Open \/ Force \/ Subside \/ Drive \/ Close \/ GiveUp \/ Release
    \/ MasterStop \/ Rearm \/ Save \/ Restart
Spec == Init /\ [][Next]_<<own, stored, live, waived>>

\* While anything forced may act, RAM and Store have an owner, and of one base.
Recorded ==
    live /\ ~waived =>
        own.phase # "idle" /\ stored.phase # "idle" /\ own.base = stored.base
=============================================================================
