-------------------------- MODULE MCDigestDeliver --------------------------
(* One person in one company or none, who is staff and no editor; a tip for   *)
(* editors, one for staff and one for everyone; one KPI of each fence and one *)
(* the registry no longer knows.                                              *)
EXTENDS DigestDeliver

CONSTANTS ann, acme, messages, connected, pinned, drifted, editors, staff

MCGate(t)     == CASE t = 1 -> editors [] t = 2 -> staff [] OTHER -> NoGate
MCGroupsOf(u) == {staff}
MCFence(k)    == CASE k = messages  -> "shared"
                   [] k = connected -> "company"
                   [] k = pinned    -> acme
                   [] OTHER         -> "unregistered"
============================================================================
