-------------------------- MODULE MCDigestSchedule --------------------------
(* Values for the constants of DigestSchedule under TLC, and a bound on the   *)
(* batches that are lost, which the abstract specification does not have.     *)
EXTENDS DigestSchedule

\* The compressed calendar of MCDigestSweep.
CompressedAdvance(p, t) == CASE p = "daily"     -> t + 1
                             [] p = "weekly"    -> t + 2
                             [] p = "monthly"   -> t + 3
                             [] p = "quarterly" -> t + 4

CONSTANT MaxLost
FewLost == \A d \in Digests, t \in Days : lost[d][t] <= MaxLost
=============================================================================
