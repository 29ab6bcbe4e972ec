----------------------------- MODULE DigestSweep -----------------------------
(***************************************************************************)
(* The daily pull of backbone-digest: several replicas sweep the due-date  *)
(* column of digest_digests, each claiming one row at a time with          *)
(* SELECT ... FOR UPDATE SKIP LOCKED, mailing its recipients OUTSIDE the   *)
(* claim transaction, and moving next_run_date inside it.  Around the      *)
(* sweeps run the write verbs (create, cadence change, pause/resume,       *)
(* subscribe, one-click unsubscribe), the manual Send Now, the calendar,   *)
(* and the failures of the database and of the replicas.                   *)
(***************************************************************************)
EXTENDS Naturals, FiniteSets

CONSTANTS
  Digests,        \* ids of digest_digests rows
  Users,          \* ids of recipients
  Sweepers,       \* replicas running the digest::send_due job
  Operators,      \* callers of Send Now
  MaxDay,         \* BOUND: the last day of the calendar
  MaxFaults,      \* BOUND: crashes, dropped connections, unacknowledged commits
  MaxEdits,       \* BOUND: operator verbs after a row exists
  Advance(_, _),  \* DigestPeriodicity::advance: the due date after a day
  NoDigest, NoDate, Unlocked

Days          == 0 .. MaxDay
Periodicities == {"daily", "weekly", "monthly", "quarterly"}

ASSUME BoundsAreNat   == MaxDay \in Nat /\ MaxFaults \in Nat /\ MaxEdits \in Nat
ASSUME NullsAreFresh  == NoDigest \notin Digests /\ NoDate \notin Nat /\ Unlocked \notin Sweepers
\* DigestCalendar checks this of the real calendar arithmetic.
ASSUME AdvanceIsLater == \A p \in Periodicities, t \in Days :
                           Advance(p, t) \in Nat /\ Advance(p, t) > t

VARIABLES
  day,      \* the UTC date of the database and of every caller
  row,      \* digest_digests: cadence, due date, state
  subs,     \* digest_subscriptions: the state of (digest, user), or no row
  lock,     \* who holds the FOR UPDATE lock of a row
  sweep,    \* the local state of each replica's run_daily_pull
  ran,      \* has the scheduler already fired the job on this replica today
  manual,   \* the local state of each Send Now call
  faults, edits,          \* how much of the bounds is used up
  starts, claims, lost,   \* history: sweeps begun per date, batches claimed
                          \* per (digest, date), and those that never committed
  queued                  \* history: mails the sweeps queued for a person, by
                          \* digest and date

dbVars   == <<row, subs, lock>>
histVars == <<starts, claims, lost, queued>>
vars     == <<day, row, subs, lock, sweep, ran, manual, faults, edits, starts, claims, lost, queued>>

-----------------------------------------------------------------------------
(* Types *)

RowState  == {"absent", "activated", "deactivated"}
Row       == [periodicity : Periodicities, nextRun : Nat \cup {NoDate}, state : RowState]
SubState  == {"none", "subscribed", "out"}   \* out: unsubscribed, or soft-deleted, or both

\* One run of run_daily_pull and, while claim # NoDigest, the batch it is in.
Sweep == [pc        : {"idle", "claim", "read", "judge", "send"},
          now       : Days,                 \* `now`, fixed when the job starts
          processed : SUBSET Digests,
          claim     : Digests \cup {NoDigest},
          cadence   : Periodicities,        \* DigestRow.periodicity as claimed
          target    : Periodicities,        \* degrade_to, or the cadence itself
          todo      : SUBSET Users,         \* recipients the loop has not reached
          failed    : BOOLEAN,              \* mail_failure \/ digest_failure
          mailed    : SUBSET Users,         \* history: enqueued by this batch
          gone      : SUBSET Users]         \* history: left since the list was read

\* One Send Now call; todo, mailed and gone as in a sweep's batch.
Manual == [digest : Digests \cup {NoDigest},
           todo : SUBSET Users, mailed : SUBSET Users, gone : SUBSET Users]

NoRow      == [periodicity |-> "daily", nextRun |-> NoDate, state |-> "absent"]
IdleSweep  == [pc |-> "idle", now |-> 0, processed |-> {}, claim |-> NoDigest,
               cadence |-> "daily", target |-> "daily", todo |-> {}, failed |-> FALSE,
               mailed |-> {}, gone |-> {}]
IdleManual == [digest |-> NoDigest, todo |-> {}, mailed |-> {}, gone |-> {}]

TypeOK ==
  /\ day \in Days
  /\ row \in [Digests -> Row]
  /\ subs \in [Digests -> [Users -> SubState]]
  /\ lock \in [Digests -> Sweepers \cup {Unlocked}]
  /\ sweep \in [Sweepers -> Sweep]
  /\ ran \in [Sweepers -> BOOLEAN]
  /\ manual \in [Operators -> Manual]
  /\ faults \in 0 .. MaxFaults
  /\ edits \in 0 .. MaxEdits
  /\ starts \in [Days -> Nat]
  /\ claims \in [Digests -> [Days -> Nat]]
  /\ lost \in [Digests -> [Days -> Nat]]
  /\ queued \in [Digests -> [Users -> [Days -> Nat]]]

-----------------------------------------------------------------------------
(* Reading the tables *)

NextRung(p) == CASE p = "daily"   -> "weekly"
                 [] p = "weekly"  -> "monthly"
                 [] OTHER         -> "quarterly"

\* Variant: active_recipients forgets the state filter.
RecipientsOfAnyState(d) == {u \in Users : subs[d][u] # "none"}

ActiveRecipients(d) == {u \in Users : subs[d][u] = "subscribed"}

\* Variant: the due scan compares with < and so misses today's rows.
DueBefore(d, t) == row[d].state = "activated" /\ row[d].nextRun # NoDate /\ row[d].nextRun < t

Due(d, t) == /\ row[d].state = "activated"
             /\ row[d].nextRun # NoDate
             /\ row[d].nextRun <= t

\* Variant: without NOT (id = ANY(processed)).
ClaimableAgain(s) == {d \in Digests : Due(d, sweep[s].now) /\ lock[d] = Unlocked}

\* What the claim SELECT can return to s: SKIP LOCKED passes over the rows
\* another replica holds.
Claimable(s) == {d \in Digests : /\ Due(d, sweep[s].now)
                                 /\ d \notin sweep[s].processed
                                 /\ lock[d] = Unlocked}

InBatch(s) == sweep[s].claim # NoDigest
Holds(s)   == InBatch(s) /\ lock[sweep[s].claim] = s

-----------------------------------------------------------------------------
(* The sweep *)

\* The job fires: at most once a day per replica, and again when a failed run
\* is retried.
StartPull(s) ==
  /\ sweep[s].pc = "idle"
  /\ ~ran[s]
  /\ ran' = [ran EXCEPT ![s] = TRUE]
  /\ sweep' = [sweep EXCEPT ![s] = [IdleSweep EXCEPT !.pc = "claim", !.now = day]]
  /\ starts' = [starts EXCEPT ![day] = @ + 1]
  /\ UNCHANGED <<day, dbVars, manual, faults, edits, claims, lost, queued>>

\* BEGIN; SELECT ... ORDER BY next_run_date FOR UPDATE SKIP LOCKED LIMIT 1.
Claim(s, d) ==
  /\ sweep[s].pc = "claim"
  /\ d \in Claimable(s)
  /\ \A e \in Claimable(s) : row[d].nextRun <= row[e].nextRun
  /\ lock' = [lock EXCEPT ![d] = s]
  /\ sweep' = [sweep EXCEPT ![s] = [IdleSweep EXCEPT
                  !.pc = "read", !.now = sweep[s].now,
                  !.processed = sweep[s].processed \cup {d}, !.claim = d,
                  !.cadence = row[d].periodicity, !.target = row[d].periodicity]]
  /\ claims' = [claims EXCEPT ![d][sweep[s].now] = @ + 1]
  /\ UNCHANGED <<day, row, subs, ran, manual, faults, edits, starts, lost, queued>>

\* The claim SELECT finds nothing: the loop breaks.
Drain(s) ==
  /\ sweep[s].pc = "claim"
  /\ Claimable(s) = {}
  /\ sweep' = [sweep EXCEPT ![s] = IdleSweep]
  /\ UNCHANGED <<day, dbVars, ran, manual, faults, edits, histVars>>

\* active_recipients reads through the pool, not through the claim transaction.
ReadRecipients(s) ==
  /\ sweep[s].pc = "read"
  /\ sweep' = [sweep EXCEPT ![s].pc = "judge",
                            ![s].todo = ActiveRecipients(sweep[s].claim)]
  /\ UNCHANGED <<day, dbVars, ran, manual, faults, edits, histVars>>

\* Variant: nobody asked is nobody logged in.
JudgeEmptyAsSilent(s) ==
  /\ sweep[s].pc = "judge"
  /\ \E loggedIn \in (IF sweep[s].todo = {} THEN {"no"} ELSE {"yes", "no", "error"}) :
       sweep' = [sweep EXCEPT ![s].pc = "send",
                   ![s].target = IF loggedIn = "no" THEN NextRung(sweep[s].cadence)
                                                    ELSE sweep[s].cadence]
  /\ UNCHANGED <<day, dbVars, ran, manual, faults, edits, histVars>>

\* The slowdown decision: taken here, written only by the settling commit.
\* A signal that errs holds the cadence, like a recipient who logged in.
JudgeSlowdown(s) ==
  /\ sweep[s].pc = "judge"
  /\ \E loggedIn \in (IF sweep[s].todo = {} THEN {"yes"} ELSE {"yes", "no", "error"}) :
       sweep' = [sweep EXCEPT ![s].pc = "send",
                   ![s].target = IF loggedIn = "no" THEN NextRung(sweep[s].cadence)
                                                    ELSE sweep[s].cadence]
  /\ UNCHANGED <<day, dbVars, ran, manual, faults, edits, histVars>>

\* How send_to_recipient can end: mailed; not mailed (the queue refused it or
\* the render failed); or mailed but with the queue's answer lost, or the tip
\* marker or the first-digest stamp failing, which the loop counts as a failure.
SendOutcome == {[enqueued |-> TRUE,  ok |-> TRUE],
                [enqueued |-> FALSE, ok |-> FALSE],
                [enqueued |-> TRUE,  ok |-> FALSE]}

SendToRecipient(s, u) ==
  /\ sweep[s].pc = "send"
  /\ u \in sweep[s].todo
  /\ \E r \in SendOutcome :
       /\ sweep' = [sweep EXCEPT
                      ![s].todo   = @ \ {u},
                      ![s].failed = @ \/ ~r.ok,
                      ![s].mailed = IF r.enqueued THEN @ \cup {u} ELSE @]
       /\ queued' = IF r.enqueued
                    THEN [queued EXCEPT ![sweep[s].claim][u][sweep[s].now] = @ + 1]
                    ELSE queued
  /\ UNCHANGED <<day, dbVars, ran, manual, faults, edits, starts, claims, lost>>

\* Variant: a failed batch leaves the row due, for the next replica to mail again.
SettledRowUnmoved(s) ==
  LET w == sweep[s]
  IN  IF w.failed
      THEN row[w.claim]
      ELSE [row[w.claim] EXCEPT !.periodicity = w.target,
                                !.nextRun = Advance(w.target, w.now)]

\* The row after a settled batch.  One failed recipient moves the due date to
\* tomorrow and keeps the cadence; otherwise the rung and the advance by it
\* are written together.
SettledRow(s) ==
  LET w == sweep[s]
  IN  IF w.failed
      THEN [row[w.claim] EXCEPT !.nextRun = w.now + 1]
      ELSE [row[w.claim] EXCEPT !.periodicity = w.target,
                                !.nextRun = Advance(w.target, w.now)]

ReadyToSettle(s) == sweep[s].pc = "send" /\ sweep[s].todo = {}

\* The sweep goes on to its next claim, the batch behind it.
NextClaim(s) == [IdleSweep EXCEPT !.pc = "claim", !.now = sweep[s].now,
                                  !.processed = sweep[s].processed]

\* The UPDATEs and the COMMIT, which releases the row.
Settle(s) ==
  /\ ReadyToSettle(s)
  /\ Holds(s)
  /\ row' = [row EXCEPT ![sweep[s].claim] = SettledRow(s)]
  /\ lock' = [lock EXCEPT ![sweep[s].claim] = Unlocked]
  /\ sweep' = [sweep EXCEPT ![s] = NextClaim(s)]
  /\ UNCHANGED <<day, subs, ran, manual, faults, edits, histVars>>

\* Reading the recipients or one of the UPDATEs fails inside process_digest:
\* ROLLBACK, and the sweep continues with the row left as it was.
IsolateBatch(s) ==
  /\ sweep[s].pc = "read" \/ ReadyToSettle(s)
  /\ Holds(s)
  /\ lock' = [lock EXCEPT ![sweep[s].claim] = Unlocked]
  /\ lost' = [lost EXCEPT ![sweep[s].claim][sweep[s].now] = @ + 1]
  /\ sweep' = [sweep EXCEPT ![s] = NextClaim(s)]
  /\ UNCHANGED <<day, row, subs, ran, manual, faults, edits, starts, claims, queued>>

-----------------------------------------------------------------------------
(* Failures of the sweep as a whole *)

Fault == faults < MaxFaults /\ faults' = faults + 1

\* A run that ends in an error may or may not be retried the same day.
EndInError(s) ==
  /\ sweep' = [sweep EXCEPT ![s] = IdleSweep]
  /\ \E retried \in BOOLEAN : ran' = [ran EXCEPT ![s] = ~retried]

\* The batch of s, if it still held its row, is lost with its lock.
AbandonBatch(s) ==
  IF Holds(s)
  THEN /\ lock' = [lock EXCEPT ![sweep[s].claim] = Unlocked]
       /\ lost' = [lost EXCEPT ![sweep[s].claim][sweep[s].now] = @ + 1]
  ELSE UNCHANGED <<lock, lost>>

\* The replica crashes, or begin/claim/commit/rollback fail and the `?` on
\* them ends the whole sweep.
Die(s) ==
  /\ Fault
  /\ sweep[s].pc # "idle"
  /\ EndInError(s)
  /\ AbandonBatch(s)
  /\ UNCHANGED <<day, row, subs, manual, edits, starts, claims, queued>>

\* COMMIT is applied but its answer is lost: the sweep dies all the same.
CommitUnacknowledged(s) ==
  /\ Fault
  /\ ReadyToSettle(s)
  /\ Holds(s)
  /\ row' = [row EXCEPT ![sweep[s].claim] = SettledRow(s)]
  /\ lock' = [lock EXCEPT ![sweep[s].claim] = Unlocked]
  /\ EndInError(s)
  /\ UNCHANGED <<day, subs, manual, edits, histVars>>

\* The connection of the claim transaction drops while the batch is mailing
\* over the pool's other connections: the lock is gone and nobody notices.
LoseConnection(s) ==
  /\ Fault
  /\ Holds(s)
  /\ AbandonBatch(s)
  /\ UNCHANGED <<day, row, subs, sweep, ran, manual, edits, starts, claims, queued>>

\* Variant: the statements that settle the batch wait on the dead connection.
NoticeOnlyWhenReading(s) ==
  /\ sweep[s].pc = "read"
  /\ ~Holds(s)
  /\ EndInError(s)
  /\ UNCHANGED <<day, dbVars, manual, faults, edits, histVars>>

\* ... until the next statement on it, whose error ends the sweep because the
\* rollback fails as well.
NoticeLostConnection(s) ==
  /\ sweep[s].pc = "read" \/ ReadyToSettle(s)
  /\ ~Holds(s)
  /\ EndInError(s)
  /\ UNCHANGED <<day, dbVars, manual, faults, edits, histVars>>

-----------------------------------------------------------------------------
(* Send Now: no claim, no state check, no schedule *)

Edit == edits < MaxEdits /\ edits' = edits + 1

SendNow(o, d) ==
  /\ manual[o].digest = NoDigest
  /\ row[d].state # "absent"
  /\ manual' = [manual EXCEPT ![o] = [IdleManual EXCEPT !.digest = d,
                                                        !.todo = ActiveRecipients(d)]]
  /\ UNCHANGED <<day, dbVars, sweep, ran, faults, edits, histVars>>

SendNowToRecipient(o, u) ==
  /\ u \in manual[o].todo
  /\ \E r \in SendOutcome :
       manual' = [manual EXCEPT ![o].todo   = @ \ {u},
                                ![o].mailed = IF r.enqueued THEN @ \cup {u} ELSE @]
  /\ UNCHANGED <<day, dbVars, sweep, ran, faults, edits, histVars>>

SendNowDone(o) ==
  /\ manual[o].digest # NoDigest
  /\ manual[o].todo = {}
  /\ manual' = [manual EXCEPT ![o] = IdleManual]
  /\ UNCHANGED <<day, dbVars, sweep, ran, faults, edits, histVars>>

-----------------------------------------------------------------------------
(* The write verbs.  An UPDATE of a digest row, and the foreign-key check of *)
(* an INSERT that references it, wait for the claim's row lock.              *)

CreateDigest(d, p) ==
  /\ row[d].state = "absent"
  /\ row' = [row EXCEPT ![d] = [periodicity |-> p, nextRun |-> Advance(p, day),
                                state |-> "activated"]]
  /\ UNCHANGED <<day, subs, lock, sweep, ran, manual, faults, edits, histVars>>

\* Variant: the claim SELECT without FOR UPDATE, so the verb does not wait.
SetPeriodicityAtOnce(d, p) ==
  /\ Edit
  /\ row[d].state # "absent"
  /\ row' = [row EXCEPT ![d].periodicity = p, ![d].nextRun = Advance(p, day)]
  /\ UNCHANGED <<day, subs, lock, sweep, ran, manual, faults, histVars>>

SetPeriodicity(d, p) ==
  /\ Edit
  /\ row[d].state # "absent"
  /\ lock[d] = Unlocked
  /\ row' = [row EXCEPT ![d].periodicity = p, ![d].nextRun = Advance(p, day)]
  /\ UNCHANGED <<day, subs, lock, sweep, ran, manual, faults, histVars>>

SetState(d, value) ==
  /\ Edit
  /\ row[d].state \notin {"absent", value}
  /\ lock[d] = Unlocked
  /\ row' = [row EXCEPT ![d].state = value]
  /\ UNCHANGED <<day, subs, lock, sweep, ran, manual, faults, histVars>>

\* The INSERT arm of subscribe_user / auto_subscribe_user.
SubscribeNew(d, u) ==
  /\ row[d].state # "absent"
  /\ subs[d][u] = "none"
  /\ lock[d] = Unlocked
  /\ subs' = [subs EXCEPT ![d][u] = "subscribed"]
  /\ UNCHANGED <<day, row, lock, sweep, ran, manual, faults, edits, histVars>>

\* The DO UPDATE arm, resubscribe and a restore from the trash: no digest row is
\* touched or locked.
SubscribeAgain(d, u) ==
  /\ Edit
  /\ subs[d][u] = "out"
  /\ subs' = [subs EXCEPT ![d][u] = "subscribed"]
  /\ UNCHANGED <<day, row, lock, sweep, ran, manual, faults, histVars>>

\* A membership put in the trash is purged from there.
PurgeSubscription(d, u) ==
  /\ Edit
  /\ subs[d][u] = "out"
  /\ subs' = [subs EXCEPT ![d][u] = "none"]
  /\ UNCHANGED <<day, row, lock, sweep, ran, manual, faults, histVars>>

\* The performed edge of the one-click unsubscribe, or the soft delete of the
\* membership.
LeaveList(d, u) ==
  /\ Edit
  /\ subs[d][u] = "subscribed"
  /\ subs' = [subs EXCEPT ![d][u] = "out"]
  /\ sweep' = [s \in Sweepers |->
                 IF sweep[s].claim = d /\ sweep[s].pc \in {"judge", "send"}
                 THEN [sweep[s] EXCEPT !.gone = @ \cup {u}]
                 ELSE sweep[s]]
  /\ manual' = [o \in Operators |->
                  IF manual[o].digest = d THEN [manual[o] EXCEPT !.gone = @ \cup {u}]
                                          ELSE manual[o]]
  /\ UNCHANGED <<day, row, lock, ran, faults, histVars>>

\* Midnight.  A sweep under way keeps the `now` it started with.
NextDay ==
  /\ day < MaxDay
  /\ day' = day + 1
  /\ ran' = [s \in Sweepers |-> FALSE]
  /\ UNCHANGED <<dbVars, sweep, manual, faults, edits, histVars>>

-----------------------------------------------------------------------------

Init ==
  /\ day = 0
  /\ row = [d \in Digests |-> NoRow]
  /\ subs = [d \in Digests |-> [u \in Users |-> "none"]]
  /\ lock = [d \in Digests |-> Unlocked]
  /\ sweep = [s \in Sweepers |-> IdleSweep]
  /\ ran = [s \in Sweepers |-> FALSE]
  /\ manual = [o \in Operators |-> IdleManual]
  /\ faults = 0
  /\ edits = 0
  /\ starts = [t \in Days |-> 0]
  /\ claims = [d \in Digests |-> [t \in Days |-> 0]]
  /\ lost = [d \in Digests |-> [t \in Days |-> 0]]
  /\ queued = [d \in Digests |-> [u \in Users |-> [t \in Days |-> 0]]]

\* One step of the code of run_daily_pull.
PullStep(s) ==
  \/ \E d \in Digests : Claim(s, d)
  \/ Drain(s)
  \/ ReadRecipients(s)
  \/ JudgeSlowdown(s)
  \/ \E u \in Users : SendToRecipient(s, u)
  \/ Settle(s)
  \/ IsolateBatch(s)
  \/ NoticeLostConnection(s)

SweepFault(s) == Die(s) \/ CommitUnacknowledged(s) \/ LoseConnection(s)

ManualStep(o) == (\E u \in Users : SendNowToRecipient(o, u)) \/ SendNowDone(o)

Verb(d) ==
  \/ \E p \in Periodicities : CreateDigest(d, p) \/ SetPeriodicity(d, p)
  \/ \E value \in {"activated", "deactivated"} : SetState(d, value)
  \/ \E u \in Users : SubscribeNew(d, u) \/ SubscribeAgain(d, u) \/ PurgeSubscription(d, u)
                     \/ LeaveList(d, u)

Next ==
  \/ \E s \in Sweepers : StartPull(s) \/ PullStep(s) \/ SweepFault(s)
  \/ \E o \in Operators : ManualStep(o) \/ \E d \in Digests : SendNow(o, d)
  \/ \E d \in Digests : Verb(d)
  \/ NextDay

Spec == Init /\ [][Next]_vars

\* The job scheduler fires the job and a running sweep keeps running; crashes,
\* verbs, Send Now and midnight are never forced to happen.
FairSpec == /\ Spec
            /\ \A s \in Sweepers : WF_vars(StartPull(s)) /\ WF_vars(PullStep(s))

-----------------------------------------------------------------------------
(* Safety *)

\* "Two sweeps must not double-send" (pickup_lock in index.hook.yaml): on one
\* date a digest is claimed again only after a batch of that date was lost
\* before its commit, and a claim queues at most one mail for a person, also
\* when its lock is lost while it mails.  So the schedule mails nobody more than
\* 1 + lost times a day, whatever the replicas, a failed recipient or the
\* cadence verbs do.
OneBatchPerDay ==
  /\ \A d \in Digests, t \in Days : claims[d][t] <= 1 + lost[d][t]
  /\ \A d \in Digests, u \in Users, t \in Days : queued[d][u][t] <= claims[d][t]

\* A digest whose batch is rolled back stays due, yet the sweep that failed it
\* goes on to later digests instead of claiming it again: per date, a digest
\* is claimed at most once by each sweep begun (run_daily_pull's `processed`).
AttemptedOncePerSweep ==
  \A d \in Digests, t \in Days : claims[d][t] <= starts[t]

\* While a batch holds its row, what it read at the claim is still what the row
\* says: it never mails a paused digest, never degrades a cadence somebody just
\* changed, and never overwrites a due date somebody just reset.
ClaimFreezesRow ==
  \A s \in Sweepers : Holds(s) =>
    LET w == sweep[s]
    IN  /\ Due(w.claim, w.now)
        /\ row[w.claim].periodicity = w.cadence
        /\ w.target \in {w.cadence, NextRung(w.cadence)}

\* The inductive invariant behind ClaimFreezesRow and OneBatchPerDay: a lock
\* belongs to the batch of the replica that took it, and a batch whose lock was
\* lost can only go on mailing.
LockOwned == \A d \in Digests : lock[d] # Unlocked => sweep[lock[d]].claim = d

SweeperOK(s) ==
  LET w == sweep[s]
  IN  /\ InBatch(s) <=> w.pc \in {"read", "judge", "send"}
      /\ w.now <= day
      /\ w.todo \cap w.mailed = {}
      /\ w.pc # "send" => w.mailed = {}
      /\ w.target \in {w.cadence, NextRung(w.cadence)}
      /\ Holds(s) => Due(w.claim, w.now) /\ row[w.claim].periodicity = w.cadence

PullInv == TypeOK /\ LockOwned /\ \A s \in Sweepers : SweeperOK(s)

\* The recipient list is read once, outside the transaction, and can be stale:
\* but only by the people who left while this very batch or Send Now ran.
\* Somebody who opted out, or was put in the trash, before it read its list is
\* never mailed by it.
StaleListOnlyWithinBatch ==
  /\ \A s \in Sweepers : InBatch(s) =>
       \A u \in sweep[s].todo \ sweep[s].gone : subs[sweep[s].claim][u] = "subscribed"
  /\ \A o \in Operators : manual[o].digest # NoDigest =>
       \A u \in manual[o].todo \ manual[o].gone : subs[manual[o].digest][u] = "subscribed"

\* The slowdown ladder (R-DG3): a sweep slows a digest by exactly one rung, in
\* the step that also advances its due date by the new cadence, and only after
\* a batch that mailed somebody and failed nobody.  A digest nobody receives,
\* or a day that has to be retried, never degrades.
DegradeOnlyAfterFullSend ==
  [][\A d \in Digests :
       (lock[d] # Unlocked /\ row'[d].periodicity # row[d].periodicity) =>
         LET w == sweep[lock[d]]
         IN  /\ row'[d].periodicity = NextRung(row[d].periodicity)
             /\ row'[d].nextRun = Advance(row'[d].periodicity, w.now)
             /\ ~w.failed
             /\ w.mailed # {}]_vars

\* The sweep keeps the promise of DigestSchedule: the open batch of a digest is
\* the one of the replica that holds its row.
OpenBatch == [d \in Digests |-> IF lock[d] = Unlocked THEN NoDate ELSE sweep[lock[d]].now]
Schedule  == INSTANCE DigestSchedule WITH NoBatch <- NoDate, batch <- OpenBatch

\* Whatever the replicas, the crashes and the verbs do, the due-date column
\* behaves like the one-batch-at-a-time schedule of DigestSchedule.
ImplementsSchedule == Schedule!Spec

-----------------------------------------------------------------------------
(* Liveness, under FairSpec *)

\* Every sweep ends: each digest is claimed at most once, a failed recipient or
\* batch never holds the loop, and a dropped connection is noticed.
SweepEnds == \A s \in Sweepers : (sweep[s].pc # "idle") ~> (sweep[s].pc = "idle")

\* The date of an active digest has come.
DueToday(d) == row[d].state = "activated" /\ row[d].nextRun \in Days /\ row[d].nextRun <= day

\* Such a digest is picked up as long as some replica has yet to run today,
\* unless a fault takes a replica down: rows another replica holds and digests
\* that fail before it in the order do not starve it.
DueIsClaimed ==
  \A d \in Digests :
    (DueToday(d) /\ \E s \in Sweepers : ~ran[s])
      ~> (lock[d] # Unlocked \/ ~DueToday(d) \/ faults > 0)
=============================================================================
