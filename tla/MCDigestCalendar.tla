------------------------- MODULE MCDigestCalendar -------------------------
(* Two starts: before February 29 of a leap year, and before the February of *)
(* a century year that is not one.                                           *)
EXTENDS DigestCalendar

MCStarts == {Date(2027, 11, 28), Date(2099, 11, 28)}
===========================================================================
