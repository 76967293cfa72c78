----------------------------- MODULE ForcedWindow -----------------------------
(***************************************************************************)
(* What the lease firmware promises about the window in which Home          *)
(* Assistant may force the inverter: a window is opened only from "free",   *)
(* with a deadline that time or a retarget may bring nearer and nothing     *)
(* pushes back; once it has ended it is never granted again without having  *)
(* been released; and a window that cannot be closed properly is held until *)
(* the device restarts.                                                     *)
(***************************************************************************)
EXTENDS Naturals

CONSTANT MaxLeft    \* the longest window

VARIABLES phase, left

Phases == {"free", "granted", "recovering", "held"}
TypeOK == phase \in Phases /\ left \in 0..MaxLeft

Init == phase = "free" /\ left = 0

Grant == phase = "free" /\ phase' = "granted" /\ left' \in 1..MaxLeft
Retarget == phase = "granted" /\ left > 0 /\ phase' = "granted" /\ left' \in 1..left
Elapse == phase = "granted" /\ left > 0 /\ phase' = "granted" /\ left' = left - 1
End == phase = "granted" /\ phase' = "recovering" /\ left' = 0
Release == phase \in {"granted", "recovering"} /\ phase' = "free" /\ left' = 0
Hold == phase' = "held" /\ left' = 0
\* a power loss while an arm is being stored, or out of a hold
Restart == phase \in {"free", "held"} /\ phase' \in {"free", "recovering"} /\ left' = 0

Next == Grant \/ Retarget \/ Elapse \/ End \/ Release \/ Hold \/ Restart
Spec == Init /\ [][Next]_<<phase, left>>
=============================================================================
