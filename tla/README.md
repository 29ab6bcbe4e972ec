# Specifications of backbone-digest

backbone-digest mails KPI digests on a cadence: a daily job finds the digests whose
`next_run_date` has come, renders one mail per subscribed recipient, enqueues it through the mail
module, and moves the date on. Around the job are the verbs that create and change digests and
memberships, a growth loop fed by `sapiens.user.created`, and a one-click unsubscribe link in every
mail. This directory holds TLA+ models of those parts, the TLC configurations that check them and
TLAPS proofs of all that they check but liveness. Paths below are relative to the repository; `service/` is
`src/application/service/`.

## Inventory

| Component (code) | State it keeps | Operations |
|---|---|---|
| Daily pull, `service/digest_cron_service.rs` | row locks, per-run locals (`now`, `processed`, the claimed row, recipients, failure flags) | `run_daily_pull`, `process_digest`, `send_now` |
| Write verbs, `service/digest_write_service.rs` | `digest_digests` (cadence, due date, state), `digest_subscriptions`, `digest_digest_kpis` | `create_digest`, `set_periodicity`, `set_state`, `subscribe_user`, `auto_subscribe_user`, `enable_kpi`, `disable_kpi` |
| Calendar (same file, and the cron's login window) | none | `advance`, `next_rung`, `add_months`, `login_window_since` |
| Render and deliver, `service/digest_render_service.rs` | `digest_tip_users`, `metadata.first_digest_sent_at` | `render` (KPI windows and margins, `pick_tip`), `deliver`, `send_to_recipient` |
| Mail seam, `service/digest_mail_seam.rs` | the mail module's tables (another crate) | `send_digest_mail` |
| KPI registry, `service/kpi_registry.rs`, `base_kpis.rs` | registered definitions | `register`, `get`, `renders_for`, the computers |
| Recipient port, `service/engagement_port.rs` | the slot's current adapter | `install`; `resolve`, `count_connected`, `any_logged_in_since`, `group_keys` |
| Unsubscribe engine, `service/unsubscribe_service.rs` | the in-memory failure book | `mint`, `verify`, `check_token`, `apply`, `resubscribe`, `unsubscribe_by_token` |
| Growth loop, `service/user_created_handler.rs` | none (the relay owns the event) | `handle` |
| Public routes, `src/presentation/http/public_routes.rs` | none | the confirm page and the one-click POST |
| Generated machines and routes (`src/presentation/http/digest_*_handler.rs`, `src/domain/state_machine`) | the rows above | transitions, soft delete, restore, purge, generic CRUD |
| Composition, `src/lib.rs` | the wired services | the builder |

**How they interact.** The sweep calls the renderer once per recipient; the renderer calls the port
(twice), the registry, the unsubscribe engine (to mint the link) and the mail seam. They share the
database and nothing else: there is no in-process queue, and the only in-memory state is the failure
book and the port slot. The claim transaction holds one pooled connection and one row lock; the
mailing goes over *other* connections and commits statement by statement.

**What is hard.** Several replicas run the job at the same time. Mails leave outside the transaction
that accounts for them, so a crash between the two re-mails. The recipient list, the cadence and
`today` are read early and used late. `user.created` and the one-click POST arrive more than once.
The generated transition routes check and write in two statements, and the generated CRUD rewrites the
same rows field by field. The numbers of a mail are six queries per KPI without a snapshot, repeated for
every recipient while the company goes on. What makes each part correct:

- the pull: one settled batch per digest and date; a claim whose row nobody moves underneath; a
  slowdown only with a full send; sweeps that end and reach every due digest;
- memberships: an opt-out that only a decision undoes, one audit fact per edge, a newcomer who is not lost;
- a send: nothing consumed that was not mailed, a first mail that carries the notice, KPIs dropped by
  declaration and never by count, gates that fail closed;
- the carousel: no open tip passed over, none repeated, none that waits for ever;
- the numbers: columns of one mail that nest, mails of one batch that agree, a drop that is one;
- links: a genuine one always honoured, a book whose lock follows the history of failures;
- the calendar: dates that move forward, windows and lifetimes that cover the waits;
- the configuration: a date that settles once unless a person writes it, a pause that keeps the
  schedule, names that mean one computer, and mails that their reader can leave by (which an empty secret
  breaks).

`PROJECT.json` lists the hazards at their lines, with the property that watches each of them.

## Modules

| Module | Models | State and actions against the code |
|---|---|---|
| `DigestSchedule` | what the pull promises about the due-date column (abstract) | `batch[d]` is the date of the batch open on `d`; `Open`, `Close`, `Lose` are a claim, a commit and a rollback |
| `DigestSweep` | `run_daily_pull`, `process_digest`, `send_now`, and the verbs that touch the same rows | `row` and `subs` are the tables, `lock` the `FOR UPDATE` lock, `sweep[s]` a replica's locals, `pc` the next `await` of interest: `claim`, `read` (recipients), `judge` (ladder), `send` (one recipient a step, then settle) |
| `DigestMembership` | a subscription row under the growth loop, the link, the verbs and the generated routes | `event` is the handler's progress on an envelope, `click` a POST between verdict and UPDATE, `clerk` a transition between check and write, with the state it read; `CreateByRoute`, `Update`, `SoftDelete`, `Restore`, `Purge` are the generic CRUD, and `Leave`/`Arrive` the PUT or PATCH that gives a row to another person |
| `VerifyFailureBook` | `verify`, `locked`, `register_failure`, `reset` | `book` is the map; `past` is the history it should agree with |
| `DigestSend` | what `send_to_recipient` promises the sweep and Send Now (abstract) | `call[j]` is the recipient and whether the mail is queued; `Return` answers `Err` or `Ok`, the latter only with the mail queued |
| `DigestDeliver` | `send_to_recipient` step by step | `job[j].pc` is the next `await`: port, KPI query, computes, tip, enqueue, marker, stamp |
| `DigestTips` | `pick_tip` and the marker under the generated routes of `digest_tips` and `digest_tip_users` | `job[j].pc` is `groups` (rows read, port not yet asked), `enqueue`, `mark`; `settled`, `past` and `steady` are histories |
| `DigestKpis` | the windows, the two base computers, the margin, and the readings of a batch | `batch` is the batch's `now`, recipient and columns so far; `ReadCurrent` and `ReadPrevious` are one query each; `shown` the mails' columns, `logins` and `changed` histories |
| `DigestConfig` | what the pull is configured with: the digest's row under the verbs, the generated routes and their transitions, its KPI rows under the verbs and their generated routes, and how each replica is composed | `row` and `kpis` are the tables, `proc[r]` a replica as `DigestModuleBuilder::build` left it (the registry's entries, what a build has still to register, its secret (`none`, `empty` or `set`) and whether it has a base URL), `clerk` a transition between check and write, `mail` what the latest step sent |
| `DigestCalendar` | `add_months`, `advance`, `login_window_since`, the TTL | civil dates walked day by day |

`MC*` modules only give values to constants; a `*Proofs` module holds the theorems about the module it is
named after, and `MailedLinkProofs` those about `DigestCalendar` (how long a mailed link has to live, and
which logins a mail looks back on) and `VerifyFailureBook` (what its failures cost it). `DigestSweep` composes with `DigestSchedule` by
`Schedule == INSTANCE DigestSchedule WITH batch <- OpenBatch`: the open batch of a digest is that of
the replica that holds its row. `DigestDeliver` is the inside of the one step `SendToRecipient`: it
implements `DigestSend` (`Send == INSTANCE DigestSend WITH call <- Calls, queued <- Queued`), whose `Outcomes`
are the three of `SendOutcome`; `DigestCalendar`
checks of the real calendar what `DigestSweep` and `DigestSchedule` assume of `Advance`. `DigestConfig`
is the other side: it takes a batch as one step (`Pull`), which `ClaimFreezesRow` of `DigestSweep`
justifies, and looks at the writes between batches, at every generated route, and at restarts of
replicas by hosts that differ in what they register and set. A batch that outlives midnight, or whose
claim is lost, is `DigestSweep`'s matter. `DigestTips` and `DigestKpis` open two steps of `DigestDeliver`:
its `PickTip` reads the rows and asks the port at one moment, and its `Compute` takes the computers'
answers as given; `DigestTips` lets every edit of tips, markers and groups fall between, and `DigestKpis`
every login, membership and message.

What the less obvious actions are:

- `LoseConnection` releases the row's lock while the batch goes on (PostgreSQL drops the session's
  locks). `NoticeLostConnection` is the next statement on the dead transaction: it errs, the rollback
  errs, and its `?` ends the sweep.
- `CommitUnacknowledged` applies the commit and ends the sweep in an error.
- A sweep that ended in an error may or may not be started again the same day by the host
  (`EndInError`); one that drained is not.
- `SubscribeNew` waits for the digest's row lock: the foreign-key check of the INSERT takes a key-share
  lock on the digest, which conflicts with `FOR UPDATE`. The `DO UPDATE` arm does not.
- `LeaveList` of `DigestSweep` is either way off the list that `active_recipients` selects, the click or the
  soft delete of the membership, and `out` is the state after it; `SubscribeAgain` is every way back.
  `PurgeSubscription` stands for a soft delete of somebody who is out, if need be, and the purge.
- `MarkingFails` of `DigestDeliver`, `MarkFails` of `DigestTips` and the third of `SendOutcome` are all that
  ends a call in an error with its mail queued: the marker or the stamp errs, or the queue took the mail and its
  answer was lost.
- `build` of `DigestConfig` only begins: each registration is a `RegisterNext`, and the last one leaves the
  replica up. `register` stands for both refusals of the registry, the error for a name without the prefix
  and the panic for one that is taken; either fails the build, which leaves no replica behind. (The base
  pair's own results are dropped by the code; `ConfigKpis` says that their names have the prefix.)
- `Pull` of `DigestConfig` may settle a batch that sent nothing (no recipient, or every send refused). It
  does not look at `deleted`, and neither does `send_now`, because the code's queries do not.
- `Linked` of `DigestConfig` is what `unsubscribe_url` asks before a mail leaves, and `verify` what becomes of
  the link: an empty secret passes the first and fails the second. `Update` is a PUT, or a PATCH that names the
  date; `UpdateCadence` a PATCH that does not, which counts as no date a person wrote.
- In `DigestMembership`, `Apply` is one conditional UPDATE; the generated routes are two steps, and
  the second writes the `state` field alone to the row as it is by then. The histories `optedOut`, `newer` and
  `overtaken` follow who was told that no more mail comes, which pending transitions were checked before
  they were told, and whom one of these brought back. Only a decision ends an opt-out: the verbs, a
  resubscribe transition that read the person as out after they were last told, a restore of a subscribed row, or a
  row that goes.
- `MarkFails` of `DigestTips` needs no fault when the tip was purged meanwhile: the foreign key refuses the
  insert. `PurgeTip` takes the markers along, by the same key's cascade.
- `ReadFails` of `DigestKpis` leaves Connected Users out of the mail (the port is another's) and ends the
  send when Messages Sent's own query errs. `Post` is `message_post`: the message row exists before the mail
  is queued, is itself counted by Messages Sent, and stays when the queue refuses.
- `Leave` and `Arrive` of `DigestMembership` are the two halves of one UPDATE that changes `user_id`, seen
  from the person who loses the row and from the one who gets it: each person's row is a function of theirs
  alone, and what arrives is any row (also an unsubscribed or auto-subscribed one).

Definitions under a comment `Variant:` are not part of the specifications. Each is the code with
one plausible mistake, with which the property named for it in `PROJECT.json` ("mutants") fails:
they show what each property is sensitive to.

## Runs

Times are for two workers on a small machine. Deadlock checking is on for `tips`, whose sends always have
a step to take; elsewhere it is off, because the bounded calendar, faults and edits let the model come to
rest.

| Run | Checks | Distinct states, time |
|---|---|---|
| `schedule` | invariants of `DigestSchedule` | 24 k, 2 s |
| `sweep_replicas` | 2 replicas, 1 digest, 2 recipients, 3 days, 1 fault, 1 verb | 3.3 M, 145 s |
| `sweep_liveness` | 2 replicas, 2 digests, 1 recipient, 2 days, 1 fault, fairness | 358 k, 115 s |
| `sweep_send_now` | 1 replica, 1 Send Now, 2 recipients, 2 days, 1 fault, 4 verbs | 784 k, 17 s |
| `deliver` | 2 calls, 1 person, 3 tips, 4 KPIs, 3 mails, 1 edit | 1.7 M, 100 s |
| `tips` | 2 sends, 1 person, 2 tips, 1 group, 2 edits, 1 fault, fairness | 978 k, 155 s |
| `kpis` | 1 batch, 2 recipients, 3 columns, 3 people, 2 messages, 3 past logins, 2 moves | 4.6 M, 55 s |
| `membership` | 1 person, 2 events, 2 clicks, 1 transition caller, 4 writes, fairness | 1.1 M, 85 s |
| `failure_book` | 1 pair and the nil bucket, 3 failures, 6 moments | 1.2 M, 11 s |
| `calendar` | 2 starts, 500 days each, 4 cadences, 3 days late | 129 k, 5 s |
| `config` | 1 replica, 1 transition caller, 5 hosts, 3 settings of secret and base URL, 2 cadences, 2 days, 4 edits, 2 starts | 4.8 M, 130 s |
| `empty_secret` | what the documents say of mails and their links, violated | — |

What they show:

- `sweep_replicas`: `OneBatchPerDay` (a digest is claimed again on a date only after a lost batch, and a
  claim queues at most one mail for a person, which the history `queued` counts), `ClaimFreezesRow`, `DegradeOnlyAfterFullSend`, the inductive `PullInv` and the refinement
  `ImplementsSchedule`. Two replicas are the least that race; the proofs carry it to any number.
- `sweep_send_now` adds Send Now: a recipient list is stale by the people who left while the call was under
  way, by the link or by the trash, and by nothing else; four verbs let both recipients leave, come back or be
  purged around it.
- `sweep_liveness` has two digests, so that one can fail or be locked in front of the other: every sweep
  ends, attempts no digest twice (`AttemptedOncePerSweep`, what `processed` is for), and a due digest is
  claimed.
- `schedule` is the abstract promise alone, over a longer calendar; the bound `FewLost` limits the lost
  batches, which the specification does not.
- `membership`: one person is enough, since every statement binds one (digest, user) pair; two clicks
  race, one event is redelivered without bound, four writes by verbs, routes or CRUD suffice for an
  opt-out, a trash, a restore and a re-join, for a row that leaves and another that arrives, or for a
  transition that is written after two opt-outs.
  `OptOutSticks` holds but for the one stale write it names: a resubscribe checked while the person was out, and
  written after a later click told them
  once more, makes them a recipient (`u \in overtaken`). A transition
  that was checked while they were in does not, which the variant `AnyTransition` shows.
  `NeverRestamped` says what the single conditional UPDATE is for: a row that stays unsubscribed keeps its
  moment, whoever clicks or posts again. A second event never parses.
- `failure_book`: keys do not interact, so one pair and the nil bucket are enough; three failures lock
  where the code has five, a window of two ticks stands for sixty seconds; six moments and five
  failures per bucket let a count fill, lapse at exactly the window and fill again.
- `deliver`: two calls for one person overlap in every order; one KPI per kind of fence and one the
  registry lost; a tip the person may not see, one they may and one for all. `ImplementsSend` says that a call,
  whichever of its steps fails, queues at most one mail and reports success only with it; that the mail is the
  right person's needs two people, and is the proof's.
- `tips`: two tips are the least that have an order, one behind a gate; two sends to one person overlap while
  two edits (create and reorder, trash and restore, gate and mark, purge, regroup) fall between any of
  their steps, and one of port, queue or marker fails. `InOrder` and `NotAgain` are about the send that read
  the rows, so they are stated with what stood still since it did. `CarouselAdvances` excepts the tips behind
  one whose marker is in the trash: `ON CONFLICT DO NOTHING` leaves it there, and the same tip is picked
  for ever.
- `kpis`: spans of 1, 2 and 3 ticks make the windows nest and abut as 24 hours, 7 and 30 days do; the past is any
  set of up to three logins, or any dates of two messages; the second recipient's columns are read after
  two moves. `ColumnsNest`, `LaterMailsNeverMore` and `DropIsReal` each hold up to the number of people and
  messages touched in between, and the variants show that they fail when the windows end at the moment
  of reading, do not share an end, or the margin is taken the wrong way round. A rise has no such property:
  whoever comes back vanishes from the previous window (one `last_login` per account), so "up" may be none.
- `config`: one replica is enough, since replicas share the tables only and a restart composes one anew;
  the hosts add a KPI, add two under one name, forget the prefix, or claim a base name. Four edits reach
  create, trash, purge and create again, or a transition checked before and written after two of them.
  Two days hold a date that settles and comes due again. The settings are no secret, no base URL, and both
  given; an empty secret sends as a set one does, and `empty_secret` has it beside the other three.
- `calendar`: 500 days from November 2027 (over 29 February 2028) and from November 2099 (2100 is no
  leap year), which holds every month length, two year ends and a quarter across each; up to three days late.

In the sweep's runs the calendar is compressed (daily 1, weekly 2, monthly 3, quarterly 4 days), so
that every cadence comes due within the horizon. The code relies on no more than the order, which
`AdvanceIsLater` checks of the true calendar. Recipients and replicas are symmetric where only safety is
checked; the run under fairness uses no symmetry, and its `VIEW` leaves out the history `queued`, which no
guard and none of its properties reads.

**Fairness.** `DigestSweep!FairSpec` has weak fairness of each replica's job start and of its next
statement: the host fires the job daily and a running task keeps running. Nothing is assumed of
crashes, verbs or midnight. `DueIsClaimed` excepts runs with a fault, because a crash may take down
the last replica of the day. `DigestMembership!FairSpec` has weak fairness of a delivery the relay owes
(at-least-once) and of a request that verified, and strong fairness of the port's and the insert's
success: a transient failure may repeat, but not for ever. `DigestTips!FairSpec` has weak fairness of a
send's steps once it runs and strong fairness of a send being started for each person, which the daily
job does for every subscriber; the administrators' edits have none, and the failures of the port, the
queue and the marker are bounded by `MaxFaults`.

### Where the documents and the code differ

One run expects a violation and checks a sentence of the repository:

- `empty_secret`: "a digest mail must never go out without its unsubscribe leg" (`docs/port-notes.md:107`, and
  `src/lib.rs:250`). `build` (`src/lib.rs:364-374`) takes an empty secret as one, since it wires the engine by
  `with_secret` and not by `from_env`, which "errors loudly when unset or empty"; `unsubscribe_url` mints the
  link, the mail leaves, and `verify` refuses it. `MailHasWayOut` fails in a handful of steps: an empty secret
  and a base URL, a digest, one Send Now. With a secret that is missing or set, a mail has its way out.

Noted without a run: "Paused — the digest never mails until re-activated" (`digest.model.yaml:205`), but
`send_now` (`digest_cron_service.rs:304`) reads no state; a resubscribe transition
(`digest_subscription_handler.rs:285-298`) written late undoes a newer opt-out, as `OptOutSticks` names it; "You will no longer receive this digest." (`public_routes.rs:91`) is told to somebody
whom a batch that read its list before (`digest_cron_service.rs:184`) still mails, which is all that
`StaleListOnlyWithinBatch` allows; `digest.model.yaml:117` says of `unsubscribed_at` "NULL while
subscribed … re-subscribe clears it", but the generated resubscribe route
(`digest_subscription_handler.rs:305`) writes the state only; a sweep that comes days late judges the ladder by a
login window that does not reach back to the last mail (`digest_cron_service.rs:191`); `KpiError::Unavailable` is documented for a missing source table, but
`MessagesSentKpi` maps every SQL error to a hard error, which fails the mail; the comment in
`engagement_port.rs:371` says the ladder takes an empty list for "no login", which the cron no longer
does; `enable_kpi` answers Ok on a soft-deleted row and leaves it deleted; a click on a soft-deleted row,
or on no row at all, is told "unsubscribed", and restoring the row, or a redelivered `user.created`, makes the
person a recipient again; `schema/hooks/digest.hook.yaml:88` says "never by a partial failure" of the
advance, and the code moves a failed day's date to tomorrow, which is what `OneBatchPerDay` needs;
`digest.model.yaml:52` says of the cadence "Changing it resets next_run_date", which the generated PUT
and PATCH do not do; a digest in the trash goes on mailing, and its generated transitions answer 404.

## Proofs

| Theorem | Says |
|---|---|
| `ScheduleCorrect` | `Spec => []ScheduleInv` of `DigestSchedule` |
| `OneBatchPerDateHolds` | the schedule's promise, from it |
| `TypeCorrect` | `Spec => []TypeOK` of `DigestSweep` |
| `PullCorrect` | `Spec => []PullInv`, the inductive invariant |
| `ClaimFreezesRowHolds` | from `PullInv` |
| `SweepImplementsSchedule` | `Spec => Schedule!Spec` |
| `OneBatchPerDayHolds` | a person gets at most one mail per digest and date from the schedule, and one more per lost batch, for any number of replicas, digests, recipients and operators |
| `AttemptedOncePerSweepHolds` | a sweep comes back to no digest, whatever failed |
| `StaleListOnlyWithinBatchHolds` | a list is stale by those alone who left while it was in use |
| `DegradeOnlyAfterFullSendHolds` | the ladder slows a digest after a full send to somebody, by one rung |
| `MembershipTyped`, `OptOutSticksHolds`, `AnnouncedOnceHolds`, `OneFactHolds`, `NeverRestampedHolds` | of `DigestMembership`: types, opt-outs, the two audit facts, the moment |
| `BookTyped`, `LockedIffGrindingHolds`, `GenuineAlwaysHonouredHolds` | of `VerifyFailureBook` |
| `DeliverTyped`, `ConsumedOnlyIfMailedHolds`, `FirstMailWarnsHolds`, `GateFailsClosedHolds`, `DropsOnlyAsDeclaredHolds`, `RepeatsOnlyByOverlapHolds` | of `DigestDeliver` |
| `DeliverImplementsSend` | `Spec => Send!Spec`: overlapping sends, seen from their callers |
| `MarkersHaveTips` | types of `DigestTips` and its foreign key |
| `CarouselInOrder`, `ConsumedNotAgain` | `InOrder` and `NotAgain` of `DigestTips` |
| `KpisTyped` | types of `DigestKpis` |
| `Nesting`, `LaterMails`, `RealDrop` | `ColumnsNest`, `LaterMailsNeverMore` and `DropIsReal` of `DigestKpis` |
| `ConfigTyped` | types of `DigestConfig`, and no KPI row without its digest |
| `SettledOncePerDateHolds` | of `DigestConfig`: no second settled batch on a day unless a person wrote the date that day |
| `PauseKeepsScheduleHolds` | whoever moves the state moves neither date nor cadence |
| `OneMeaningPerNameHolds` | no late registration takes a name over |
| `MailShowsCompositionHolds` | a mail shows what its host was allowed to register, and no other |
| `CalendarCorrect` | `CalendarSpec => []CalendarInv`: a digest is due one advance after its latest mail |
| `AdvanceIsLaterHolds`, `ClampsToMonthEndHolds` | `advance` and `add_months`, from every date |
| `LoginSinceMailCountsHolds`, `LinkOutlivesWaitHolds` | the login window and the link's life against the waits of the cadences |

The type invariants are proved rather than run; that of `DigestConfig` is both, for its foreign key.

*Assumptions.* The bounds are naturals and the null values are fresh (`BoundsAreNat`, `NullsAreFresh`,
`ScheduleBounds`, `ConfigNat`, `MembershipNat`, `MembershipIds`, `DeliverNat`, `DeliverNulls`, `TipsNat`,
`TipsNulls`, `KpiNat`, `KpiNulls`, `BookNat`, `CalendarNat`); each cadence advances past the day it starts
from (`AdvanceIsLater`, `LaterDueDate`, which `AdvanceIsLaterHolds` proves of the true calendar); no KPI is
fenced to the company of those who have none (`DeliverFences`); the base pair's and the hosts' names are
among the names, and the base pair's have the prefix (`ConfigKpis`); a digest begins on a date of the
calendar (`StartsAreDates`); the nil bucket is nobody's (`NilIsNoKey`); the columns' spans
increase (`KpiSpans`). Only `KpiFinite` and `DeliverSenders` ask for
finite sets, since `DigestKpis` counts people and messages and `RepeatsOnlyByOverlap` counts calls; the sweeps
under way are shown to be finitely many. `LinkOutlivesWaitHolds` has a hypothesis of its own: a sweep is at
most 88 days late, which is what 180 days of life leave after a quarter of 92.

*Why the invariants.* `OneBatchPerDate` counts batches, so it is not inductive: one must know that a
date which has settled is not due again. `SettledOnce` says that per digest and date either every
batch was lost or is open, or exactly one settled and then the due date lies after that date; with
`BatchIsDue` (a batch stays due while open) it is inductive, also for a sweep that ran past midnight and
closes with an old date. For the sweep itself `PullInv` says that a lock belongs to the batch of the
replica that holds it (`LockOwned`), that `claim` is set exactly from the claim to its settling, and that a
batch which still holds its row sees the cadence and the due date it claimed. Every step then is a
step of the schedule or leaves its variables alone: `Claim` is `Open`; `Settle` and
`CommitUnacknowledged` are `Close`; a rollback, a crash or a dropped connection is `Lose`; the verbs are
`Write`. The promise of the schedule, which bounds the claims of a date, comes back through the refinement.

That bounds batches; the mails need a second count. `MailInv` says that per digest, person and date the mails
queued and the batches that may still queue one (`Owing`: the list not read yet, or the person still on it) are
together no more than the claims. A claim raises both sides, a mail moves one from the second number to
the first, and a crash, a rollback or a batch that drops its lock only lowers the second, so it holds also of
the batch that goes on mailing after another replica took its row over.

`AttemptedOncePerSweep` compares two counters, so `AttemptInv` says what the difference is for: per date and
digest, the claims made and the sweeps that may still make one (`Pending`) are together no more than the sweeps
begun. A claim moves a sweep from the second number to the first, because it puts the digest into `processed`
in the same step. `ListInv` adds to the property that a batch which has not read its list has nobody on it, so
that an opt-out before the reading needs no note. `LadderInv` says that a batch which is to slow its digest and
has failed nobody had a recipient; `failed` only ever rises within a batch, and whoever leaves the list without
a failure is among the mailed.

In `DigestConfig` the bound on batches needs its second half: a digest that is due has settled only as often
as its date was written today. A settled batch moves the date past today, so it uses up what a write gave.
`RowTyped` is all the typing this needs. Every step leaves row and date alone (`Unmoved`), writes the date
(`Dated`), empties the row (`Emptied`), settles a batch (`Settled`) or begins a day (`NewDay`), and the
proof is one case for each. A replica's entries only grow because a registration that succeeds names a
key the map does not have (`RegisterKeeps`). `Composed` says of a replica that is up or being built that every
definition it was given is still to come or is behind its name; at the end of a build nothing is still to
come, which is `MailShowsComposition`. A build that skipped a refused name would break it.

`MembershipInv` says of each person (`Person`) that the row itself remembers what the promises are about:
after an opt-out there is a row, and it is active only by the stale write that `overtaken` names; the auto-subscribed fact and the row's mark come
together; and every unsubscribe fact used up one joining, with one to spare while the person is
subscribed, which is what makes the conditional UPDATE count. `Checked` says of a pending transition that it was
allowed from the state it read, so that one that makes somebody subscribed had read them as out, and is a decision
(`Asked`) or is in `newer`: without it a late write could bring anybody back. `BookInv` relates the book to the whole history:
an entry counts the longest run of failures that came each within the window of the one before
(`CountsRun`), and a pair without an entry has none that is still fresh (`Forgotten`). `DeliverInv`
adds to the types what a call in flight knows (`CallOK`: whose it is, that a first mail to an auto-subscribed person has the
notice, that its tip is open to its reader, and that past the queue its mail is there) and what a person's mails, stamp and markers say of each other (`PersonOK`).
`RepeatInv` counts calls for a person and a tip: until there is a marker, the mails that carried the tip are no
more than the calls that have still to mark it; once there is one, nobody picks the tip again, and the mails and
the calls about to enqueue it are together no more than the senders. For the refinement `ShowsInv` says what a
call shows of itself: whom it mails while it runs, and `sent` exactly from the enqueue to its end. `TipsInv` says
that recorded consumption is a live marker, that what was open all along is among the rows a send read,
and that none of these had been consumed when it began (`Ordered`, `Fresh`).

`KpisInv` is about numbers, which forget what they counted. `Reading` therefore gives each number back
a set: a number read over a window is the size of a set that misses only what changed of what the window
selects now, and has nothing but that and what was touched; and for Connected Users nobody in it had logged in
between the window's end and the batch. `Drifts` says that every step but the start of a batch keeps
this, because a window that ended before the batch can lose people to new logins and to edits, and gain
them by edits only. `Numbers` claims it of every number in the batch and its mails, `OneMore` shows that a step adds at
most one number, read as it is, and the properties follow by counting finite sets (`CoveredByTwo`).
For `RealDrop` the people who were counted in the window before and those who logged in since and were
touched are disjoint, by the last clause of `Reading`: so the touched are not counted twice.

For the calendar `CalendarInv` is short, and the arithmetic is the work. `Ordinal` is a closed form; that it
counts days is `MonthAfterMonth`: from the first of a month to the first of the next it grows by the month's
length, leap days and centuries included. Months are then numbered from year 0 (`First`, `Length`), so that
`PlusDaysAdds` (the date moves by as many days as were added, over the end of a month or back),
`AddMonthsClamps`, `MonthOn` (28 to 31 days), `QuarterOn` (89 to 92) and `OnAndBack` (a month on and a month
back is never later) are sums of month lengths. `QuarterOn` bounds the longest wait, and `OnAndBack` is why a login
window reaches back to the mail although both it and the due date are clamped.

*Layout.* One lemma per action or group of actions, typing before the invariant, and a final step that
combines them with PTL. `QuietStep`, `OutStep`, `BatchStep`, `ReleaseStep` and `SweepMoves` of the sweep's proofs, `OneReplica` and `RowStep` of the configuration's, `PutInv` and
`MoveInv` of the membership's, `DisturbKeeps` of the carousel's and `WorldTyped` and `Drifts` of the KPIs' say what an action
may disturb, so that each action's proof states only its difference.

*Left to TLC.* The liveness properties (`SweepEnds`, `DueIsClaimed`, `NewcomerJoins`,
`CarouselAdvances`), which need fairness and ENABLED. Every invariant and every safety property of a passing run
is a theorem. That a build registers one definition a step, and not by a fold over all of them, is what
makes `MailShowsComposition` provable for hosts of any length: what a fold returns is an induction over data.

## Not modelled

The generic upsert, bulk and list routes, and the response and list DTOs, which copy fields out; the body and
headers of a mail; the HMAC (a token is genuine or not); row-level security and org scopes, beyond a
fence that reads nothing; the pool's size (a connection that cannot be had is a failing statement); the
mail module behind the seam; the host's own adapter behind the recipient port, whose answers are taken as
any the port's types allow; the wiring of services and routers; exports, seeders, versioning, repositories and
event types, which are declarations and plumbing around the generic CRUD of other crates; the
migrations, whose keys appear through the statements that rely on them.

## Plan

Written so far, in this order: the schedule and the sweep with their proofs, the memberships, the failure
book, the send, the calendar, the configuration, the carousel, the numbers and what a send promises its
callers, with the proofs of each.
Next:

1. `DigestSweep` with calls of `DigestSend` in its recipient loop instead of one step, so that a crash can fall
   inside a call, and the pool of connections as a resource the sweeps share.
2. Several people in `DigestTips`' run, once its liveness check leaves room for it.
