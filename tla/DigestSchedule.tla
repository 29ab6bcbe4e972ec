--------------------------- MODULE DigestSchedule ---------------------------
(***************************************************************************)
(* What the daily pull promises about one due-date column, without the     *)
(* replicas, the recipients and the transactions that keep the promise: a  *)
(* digest has at most one batch open, a batch opens only on a due digest,  *)
(* and closing it moves the due date past the batch's own date, unless the *)
(* batch is lost.                                                          *)
(***************************************************************************)
EXTENDS Naturals

CONSTANTS Digests, MaxDay, Advance(_, _), NoDate, NoBatch

Days          == 0 .. MaxDay
Periodicities == {"daily", "weekly", "monthly", "quarterly"}

ASSUME ScheduleBounds == MaxDay \in Nat /\ NoDate \notin Nat /\ NoBatch \notin Nat
ASSUME LaterDueDate   == \A p \in Periodicities, t \in Days :
                           Advance(p, t) \in Nat /\ Advance(p, t) > t

VARIABLES
  day,           \* today
  row,           \* cadence, due date and state of each digest
  batch,         \* the date of the batch open on a digest, or NoBatch
  claims, lost   \* batches opened, and lost, per digest and date

vars == <<day, row, batch, claims, lost>>

Row == [periodicity : Periodicities, nextRun : Nat \cup {NoDate},
        state : {"absent", "activated", "deactivated"}]

TypeOK ==
  /\ day \in Days
  /\ row \in [Digests -> Row]
  /\ batch \in [Digests -> Days \cup {NoBatch}]
  /\ claims \in [Digests -> [Days -> Nat]]
  /\ lost \in [Digests -> [Days -> Nat]]

NextRung(p) == CASE p = "daily"   -> "weekly"
                 [] p = "weekly"  -> "monthly"
                 [] OTHER         -> "quarterly"

Due(d, t) == /\ row[d].state = "activated"
             /\ row[d].nextRun # NoDate
             /\ row[d].nextRun <= t

\* Variant: a batch opens without looking whether another one is open.
OpenUnlocked(d, t) ==
  /\ t <= day
  /\ Due(d, t)
  /\ batch' = [batch EXCEPT ![d] = t]
  /\ claims' = [claims EXCEPT ![d][t] = @ + 1]
  /\ UNCHANGED <<day, row, lost>>

Open(d, t) ==
  /\ batch[d] = NoBatch
  /\ t <= day
  /\ Due(d, t)
  /\ batch' = [batch EXCEPT ![d] = t]
  /\ claims' = [claims EXCEPT ![d][t] = @ + 1]
  /\ UNCHANGED <<day, row, lost>>

\* Variant: a batch with a failed recipient leaves the digest due.
CloseUnmoved(d) ==
  /\ batch[d] # NoBatch
  /\ \/ UNCHANGED row
     \/ \E p \in {row[d].periodicity, NextRung(row[d].periodicity)} :
          row' = [row EXCEPT ![d].periodicity = p, ![d].nextRun = Advance(p, batch[d])]
  /\ batch' = [batch EXCEPT ![d] = NoBatch]
  /\ UNCHANGED <<day, claims, lost>>

\* Closing a batch either retries the digest tomorrow at the same cadence, or
\* advances it by its cadence or by the next rung of the ladder.
Close(d) ==
  /\ batch[d] # NoBatch
  /\ \/ row' = [row EXCEPT ![d].nextRun = batch[d] + 1]
     \/ \E p \in {row[d].periodicity, NextRung(row[d].periodicity)} :
          row' = [row EXCEPT ![d].periodicity = p, ![d].nextRun = Advance(p, batch[d])]
  /\ batch' = [batch EXCEPT ![d] = NoBatch]
  /\ UNCHANGED <<day, claims, lost>>

Lose(d) ==
  /\ batch[d] # NoBatch
  /\ batch' = [batch EXCEPT ![d] = NoBatch]
  /\ lost' = [lost EXCEPT ![d][batch[d]] = @ + 1]
  /\ UNCHANGED <<day, row, claims>>

\* A person creates, reschedules, pauses or resumes a digest no batch has open.
\* Rescheduling counts from today.
Write(d) ==
  /\ batch[d] = NoBatch
  /\ \/ /\ row[d].state = "absent"
        /\ \E p \in Periodicities :
             row' = [row EXCEPT ![d] = [periodicity |-> p, nextRun |-> Advance(p, day),
                                        state |-> "activated"]]
     \/ /\ row[d].state # "absent"
        /\ \E p \in Periodicities :
             row' = [row EXCEPT ![d].periodicity = p, ![d].nextRun = Advance(p, day)]
     \/ /\ row[d].state # "absent"
        /\ \E value \in {"activated", "deactivated"} : row' = [row EXCEPT ![d].state = value]
  /\ UNCHANGED <<day, batch, claims, lost>>

NextDay ==
  /\ day < MaxDay
  /\ day' = day + 1
  /\ UNCHANGED <<row, batch, claims, lost>>

Init ==
  /\ day = 0
  /\ row = [d \in Digests |-> [periodicity |-> "daily", nextRun |-> NoDate,
                               state |-> "absent"]]
  /\ batch = [d \in Digests |-> NoBatch]
  /\ claims = [d \in Digests |-> [t \in Days |-> 0]]
  /\ lost = [d \in Digests |-> [t \in Days |-> 0]]

Next ==
  \/ NextDay
  \/ \E d \in Digests : \/ \E t \in Days : Open(d, t)
                        \/ Close(d) \/ Lose(d) \/ Write(d)

Spec == Init /\ [][Next]_vars

-----------------------------------------------------------------------------

\* A batch stays due while it is open: nobody else moves the row under it.
BatchIsDue ==
  \A d \in Digests : batch[d] # NoBatch => batch[d] <= day /\ Due(d, batch[d])

\* The batches of a date are the lost ones, the open one, and at most one that
\* settled; once one has settled the digest is not due on that date again.
SettledOnceAt(d, t) ==
  LET open == IF batch[d] = t THEN 1 ELSE 0
  IN  \/ claims[d][t] = lost[d][t] + open
      \/ /\ claims[d][t] = lost[d][t] + open + 1
         /\ t <= day
         /\ row[d].nextRun # NoDate
         /\ row[d].nextRun > t

SettledOnce == \A d \in Digests, t \in Days : SettledOnceAt(d, t)

\* The inductive invariant behind the promise: a batch opened late, for an old
\* date, cannot pull the due date back to a date that has already settled.
ScheduleInv == TypeOK /\ BatchIsDue /\ SettledOnce

\* The promise: a second batch on a date only replaces a lost one.
OneBatchPerDate == \A d \in Digests, t \in Days : claims[d][t] <= 1 + lost[d][t]

=============================================================================
