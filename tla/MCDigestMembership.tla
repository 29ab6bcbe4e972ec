------------------------ MODULE MCDigestMembership ------------------------
(* One person, internal or not; an event about ann and one whose payload does *)
(* not parse.                                                                 *)
EXTENDS DigestMembership

CONSTANTS ann, hired, garbled

MCAddressee(e) == IF e = hired THEN ann ELSE NoUser
===========================================================================
