---------------------------- MODULE MCDigestKpis ----------------------------
(* Three interchangeable people and spans of one, two and three ticks, so     *)
(* that every current window, and the previous ones of the shorter columns,   *)
(* fall into the past that is enumerated.                                     *)
EXTENDS DigestKpis, TLC

MCSpans == <<1, 2, 3>>

Symmetry == Permutations(Users) \cup Permutations(Messages)
=============================================================================
