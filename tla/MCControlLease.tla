--------------------------- MODULE MCControlLease ---------------------------
(* The composed lease on small instances. *)
EXTENDS ControlLease, TLC

Perms == Permutations(Nonces)

\* Bound of a run: a lease that was renewed meets no mishap, and after a mishap
\* no lease is renewed.
Renewing ==
    \/ seq > 0 \/ (handle # None /\ (handle.seq > 0 \/ handle.pend # None))
    \/ renewing # None \/ \E m \in net \cup replies : m.kind = "renew"
RenewalOrMishap == mishaps = 0 \/ ~Renewing
=============================================================================
