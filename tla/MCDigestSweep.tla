--------------------------- MODULE MCDigestSweep ---------------------------
(* Values for the constants of DigestSweep under TLC. *)
EXTENDS DigestSweep, TLC

\* A calendar compressed so that every cadence comes due within a few days: it
\* keeps what the sweep relies on, that each rung is strictly later than today
\* and that a slower rung is not sooner.
CompressedAdvance(p, t) == CASE p = "daily"     -> t + 1
                             [] p = "weekly"    -> t + 2
                             [] p = "monthly"   -> t + 3
                             [] p = "quarterly" -> t + 4

Interchangeable == Permutations(Users) \cup Permutations(Sweepers)

\* A run that says nothing of the mails need not tell states apart by them: no
\* guard reads the history `queued`.
ExceptQueued == <<day, dbVars, sweep, ran, manual, faults, edits, starts, claims, lost>>
=============================================================================
