------------------------- MODULE VerifyFailureBook -------------------------
(***************************************************************************)
(* The verdict on an unsubscribe link and the in-memory book of failed     *)
(* verifications: a count and the moment of the latest failure per         *)
(* (digest, user), and one bucket for links that do not parse.  The book   *)
(* is written by verify and read by locked, which verify never asks.       *)
(***************************************************************************)
EXTENDS Naturals, Sequences

CONSTANTS
  Keys,             \* (digest, user) pairs that links name
  NilKey,           \* the bucket of malformed links
  MaxFailures,      \* VERIFY_MAX_FAILURES
  Window,           \* VERIFY_LOCK_SECONDS, in ticks
  MaxTime,          \* BOUND: the last tick
  MaxRequests       \* BOUND: failures recorded over a run

ASSUME BookNat == /\ MaxFailures \in Nat \ {0} /\ Window \in Nat \ {0}
                  /\ MaxTime \in Nat /\ MaxRequests \in Nat
ASSUME NilIsNoKey == NilKey \notin Keys

VARIABLES
  clock,
  secret,   \* is the HMAC secret non-empty
  book,     \* per key: the failure count and the moment of the latest one
  past,     \* history: the failures of each key since its last reset
  answer    \* history: the latest link judged and its verdict

vars == <<clock, secret, book, past, answer>>

Buckets == Keys \cup {NilKey}
Token   == [key : Keys, mac : BOOLEAN, live : BOOLEAN]  \* live: now <= exp
Verdicts == {"valid", "expired", "refused"}
NoEntry == [n |-> 0, at |-> 0]          \* no failure is recorded
NoLink  == [mac |-> FALSE, live |-> FALSE, verdict |-> "refused"]

TypeOK ==
  /\ clock \in 0 .. MaxTime
  /\ secret \in BOOLEAN
  /\ book \in [Buckets -> [n : 0 .. MaxRequests, at : 0 .. MaxTime]]
  /\ past \in [Buckets -> Seq(0 .. MaxTime)]
  /\ answer \in [mac : BOOLEAN, live : BOOLEAN, verdict : Verdicts]

Elapsed(k) == clock - book[k].at

-----------------------------------------------------------------------------
(* The book *)

\* Variant: a failure does not renew the moment.
CountedFromFirst(k) ==
  IF book[k].n = 0 \/ Elapsed(k) >= Window THEN [n |-> 1, at |-> clock]
                                           ELSE [book[k] EXCEPT !.n = @ + 1]

\* The entry after a failure: a lapsed count starts again.
Counted(k) == [n |-> (IF Elapsed(k) >= Window THEN 0 ELSE book[k].n) + 1, at |-> clock]

register_failure(k) ==
  /\ Len(past[k]) < MaxRequests
  /\ book' = [book EXCEPT ![k] = Counted(k)]
  /\ past' = [past EXCEPT ![k] = Append(@, clock)]

\* reset removes the entry.
reset(k) ==
  /\ book' = [book EXCEPT ![k] = NoEntry]
  /\ past' = [past EXCEPT ![k] = <<>>]

\* The answer of locked, which also drops an entry whose window has passed.
Locked(k) == book[k].n > 0 /\ Elapsed(k) < Window /\ book[k].n >= MaxFailures

AskLocked(k) ==
  /\ book[k].n > 0 /\ Elapsed(k) >= Window
  /\ book' = [book EXCEPT ![k] = NoEntry]
  /\ UNCHANGED <<clock, secret, past, answer>>

-----------------------------------------------------------------------------
(* The verdict *)

\* Variant: the lock is asked before the MAC is looked at.
VerdictUnlocked(t) ==
  IF ~secret \/ ~t.mac \/ Locked(t.key) THEN "refused"
  ELSE IF t.live THEN "valid" ELSE "expired"

Verdict(t) ==
  IF ~secret \/ ~t.mac THEN "refused"
  ELSE IF t.live THEN "valid" ELSE "expired"

\* A valid token clears its pair, an expired one touches nothing, and a wrong
\* MAC is counted; with no secret nothing is.
verify(t) ==
  /\ answer' = [mac |-> t.mac, live |-> t.live, verdict |-> Verdict(t)]
  /\ CASE Verdict(t) = "valid" -> reset(t.key)
       [] secret /\ ~t.mac     -> register_failure(t.key)
       [] OTHER                -> UNCHANGED <<book, past>>
  /\ UNCHANGED <<clock, secret>>

\* A link that does not parse is refused and counted in the nil bucket.
CheckMalformed ==
  /\ register_failure(NilKey)
  /\ answer' = NoLink
  /\ UNCHANGED <<clock, secret>>

Tick == clock < MaxTime /\ clock' = clock + 1 /\ UNCHANGED <<secret, book, past, answer>>

Init ==
  /\ clock = 0
  /\ secret \in BOOLEAN
  /\ book = [k \in Buckets |-> NoEntry]
  /\ past = [k \in Buckets |-> <<>>]
  /\ answer = NoLink

Next ==
  \/ Tick
  \/ CheckMalformed
  \/ \E t \in Token : verify(t)
  \/ \E k \in Buckets : AskLocked(k)

Spec == Init /\ [][Next]_vars

-----------------------------------------------------------------------------
(* Properties *)

\* The last MaxFailures failures of the pair since a genuine link was used
\* came each within the window of the one before, the last of them within the
\* window of now.
Grinding(k) ==
  LET p == past[k]
      n == Len(p)
  IN  /\ n >= MaxFailures
      /\ clock - p[n] < Window
      /\ \A i \in (n - MaxFailures + 2) .. n : p[i] - p[i - 1] < Window

\* A pair is locked exactly while it is being ground at: the count, its
\* restarts and the lapse of the lock agree with the whole history of failures.
LockedIffGrinding == \A k \in Buckets : Locked(k) <=> Grinding(k)

\* Forgeries never cost the real recipient the link: with a secret configured,
\* the right MAC within its date is valid whatever the book holds, and no
\* other token is; only the right MAC reads as expired.
GenuineAlwaysHonoured ==
  /\ answer.verdict = "valid"   <=> secret /\ answer.mac /\ answer.live
  /\ answer.verdict = "expired" <=> secret /\ answer.mac /\ ~answer.live
=============================================================================
