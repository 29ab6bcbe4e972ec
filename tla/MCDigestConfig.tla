--------------------------- MODULE MCDigestConfig ---------------------------
(* Hosts that add a KPI, add two under one name, forget the prefix, or claim *)
(* a name of the base pair; without a secret, without a base URL, and with   *)
(* all that a link needs.                                                    *)
EXTENDS DigestConfig

CONSTANTS connected, leads, unprefixed, ours, theirs, rival

Def(n, c) == [name |-> n, computer |-> c]

MCBase  == <<Def(connected, ours)>>
MCHosts == {<<>>, <<Def(leads, theirs)>>,
            <<Def(leads, theirs), Def(leads, rival)>>,
            <<Def(leads, theirs), Def(unprefixed, theirs)>>,
            <<Def(connected, rival)>>}
\* An empty secret sends as a set one does: only MailHasWayOut tells them apart.
MCSettings      == {<<"none", TRUE>>, <<"set", FALSE>>, <<"set", TRUE>>}
MCEmptySettings == MCSettings \cup {<<"empty", TRUE>>}
MCStep  == [p \in {"daily", "weekly"} |-> IF p = "daily" THEN 1 ELSE 2]
MCNextRung(p) == "weekly"
==========================================================================
