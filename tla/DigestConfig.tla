----------------------------- MODULE DigestConfig -----------------------------
(***************************************************************************)
(* What the daily pull is configured with.  The row of one digest is moved *)
(* by the verbs, by the generated routes and their check-then-write        *)
(* transitions, and by the pull itself; the KPI rows of the digest name    *)
(* keys; and each replica is composed anew, with the KPI definitions, the  *)
(* token secret and the base URL its host gave it.  A batch is one step    *)
(* here: DigestSweep takes it apart, and shows that its row stays as it    *)
(* was claimed.                                                            *)
(***************************************************************************)
EXTENDS Integers, Sequences, Functions

CONSTANTS
  Replicas,      \* the host's processes
  Clerks,        \* callers of the generated transition routes
  Names,         \* KPI names
  Prefixed,      \* those that start with kpi_
  Base,          \* the base pair, in the order it is registered
  Hosts,         \* what hosts register at build: sequences of definitions
  Settings,      \* the token secrets and base URLs they set: pairs of Secrets \X BOOLEAN
  Step,          \* the days of each cadence
  NextRung(_),   \* the slower cadence
  LastDay,       \* BOUND: the last day
  MaxEdits,      \* BOUND: writes by people
  MaxStarts,     \* BOUND: starts of a replica
  Null

Cadences    == DOMAIN Step
Definitions == Range(Base) \cup UNION {Range(h) : h \in Hosts}
Computers   == {def.computer : def \in Definitions}

ASSUME ConfigNat == /\ LastDay \in Nat \ {0} /\ {MaxEdits, MaxStarts} \subseteq Nat
                    /\ Null \notin Int
                    /\ Cadences # {}
                    /\ \A p \in Cadences : Step[p] \in Nat \ {0} /\ NextRung(p) \in Cadences
ASSUME ConfigKpis == /\ Prefixed \subseteq Names /\ \A def \in Definitions : def.name \in Names
                     /\ Base \in Seq(Definitions) \ {<<>>} /\ Hosts \subseteq Seq(Definitions)
                     /\ \A def \in Range(Base) : def.name \in Prefixed

VARIABLES
  today,
  row,      \* the digest, in digest_digests
  kpis,     \* its rows in digest_digest_kpis, per key
  proc,     \* how each replica is composed
  clerk,    \* per caller: the transition that passed its check, and the row it read
  mail,     \* the mail the latest step sent
  edits, starts,
  batches,  \* history: batches settled today
  dated     \* history: due dates people wrote today

bounds == <<edits, starts>>
vars   == <<today, row, kpis, proc, clerk, mail, bounds, batches, dated>>

Dates   == Int \cup {Null}
Row     == [state   : {"none", "activated", "deactivated"},
            cadence : Cadences,
            next    : Dates,          \* next_run_date
            deleted : BOOLEAN]        \* metadata.deleted_at is set
KpiRow  == {"absent", "live", "trashed"}
NoKpis  == [n \in Names |-> "absent"]
NoRow   == [state |-> "none", cadence |-> CHOOSE p \in Cadences : TRUE,
            next |-> Null, deleted |-> FALSE]
Shown   == UNION {[keys -> Computers] : keys \in SUBSET Names}
\* The token secret of the builder or the environment.  An empty one is a secret
\* like any other to build, which asks only whether there is one.
Secrets == {"none", "empty", "set"}
Process == [up : BOOLEAN, entries : Shown, asked : SUBSET Definitions,
            todo : Seq(Definitions),      \* what a build has still to register
            secret : Secrets, url : BOOLEAN]
Down    == [up |-> FALSE, entries |-> <<>>, asked |-> {}, todo |-> <<>>,
            secret |-> "none", url |-> FALSE]
NoMail  == [by |-> Null, shown |-> <<>>]
Verbs   == {"action_activate", "action_deactivate"}
NoVerb  == [verb |-> Null, read |-> NoRow]

TypeOK ==
  /\ today \in 1 .. LastDay
  /\ row \in Row
  /\ kpis \in [Names -> KpiRow]
  /\ row.state = "none" => kpis = NoKpis     \* the foreign key
  /\ proc \in [Replicas -> Process]
  /\ clerk \in [Clerks -> [verb : Verbs \cup {Null}, read : Row]]
  /\ mail \in [by : Replicas \cup {Null}, shown : Shown]
  /\ edits \in 0 .. MaxEdits /\ starts \in 0 .. MaxStarts
  /\ batches \in Nat /\ dated \in Nat

Live == row.state # "none" /\ ~row.deleted

\* The keys a render reads.
Enabled == {n \in Names : kpis[n] = "live"}

-----------------------------------------------------------------------------
(* Composing a replica: DigestModuleBuilder::build and the KPI registry *)

insert(entries, def) == [n \in DOMAIN entries \cup {def.name} |->
                          IF n = def.name THEN def.computer ELSE entries[n]]

\* Variant: a name without the prefix is skipped, and the build goes on.
RegisterOrSkip(entries, def) ==
  [ok      |-> def.name \notin DOMAIN entries,
   entries |-> IF def.name \in Prefixed THEN insert(entries, def) ELSE entries]

\* Variant: a second registration takes the name over.
RegisterOrReplace(entries, def) ==
  [ok |-> def.name \in Prefixed, entries |-> insert(entries, def)]

\* A name without the prefix is refused and a name that is taken panics,
\* under the lock and before the insert: either way nothing is registered.
register(entries, def) ==
  IF def.name \in Prefixed /\ def.name \notin DOMAIN entries
  THEN [ok |-> TRUE, entries |-> insert(entries, def)]
  ELSE [ok |-> FALSE, entries |-> entries]

\* The base pair first, then the caller's definitions in their order.
Composition(host) == Base \o host

build(r, host, secret, url) ==
  /\ starts < MaxStarts /\ proc[r] = Down
  /\ proc' = [proc EXCEPT ![r] = [Down EXCEPT !.asked = Range(host), !.todo = Composition(host),
                                             !.secret = secret, !.url = url]]
  /\ starts' = starts + 1 /\ mail' = NoMail
  /\ UNCHANGED <<today, row, kpis, clerk, edits, batches, dated>>

\* The next registration of a build.  The last one leaves the replica up; one
\* that is refused fails the build and leaves no module behind.
RegisterNext(r) ==
  LET p   == proc[r]
      reg == register(p.entries, Head(p.todo))
  IN  /\ p.todo # <<>>
      /\ proc' = [proc EXCEPT ![r] = IF reg.ok THEN [p EXCEPT !.up = Tail(p.todo) = <<>>,
                                                             !.entries = reg.entries,
                                                             !.todo = Tail(p.todo)]
                                     ELSE Down]
      /\ mail' = NoMail
      /\ UNCHANGED <<today, row, kpis, clerk, bounds, batches, dated>>

\* A module that arrives late registers through register_kpi.
register_kpi(r, def) ==
  LET reg == register(proc[r].entries, def)
  IN  /\ proc[r].up /\ reg.ok
      /\ proc' = [proc EXCEPT ![r].entries = reg.entries, ![r].asked = @ \cup {def}]
      /\ mail' = NoMail
      /\ UNCHANGED <<today, row, kpis, clerk, bounds, batches, dated>>

\* Also in the middle of a build.
Stop(r) ==
  /\ proc[r] # Down
  /\ proc' = [proc EXCEPT ![r] = Down]
  /\ mail' = NoMail
  /\ UNCHANGED <<today, row, kpis, clerk, bounds, batches, dated>>

-----------------------------------------------------------------------------
(* Sending *)

\* unsubscribe_url mints a link whenever there is a secret, of any length, and
\* a base URL; without either it refuses the mail.
Linked(r) == proc[r].secret # "none" /\ proc[r].url

\* Whether verify accepts a token the replica minted itself: an empty secret
\* verifies nothing.
verify(r) == proc[r].secret = "set"

\* What a recipient within every fence is shown when all computers answer;
\* DigestDeliver has the drops.
Render(r) == [by |-> r, shown |-> Restrict(proc[r].entries, DOMAIN proc[r].entries \cap Enabled)]

\* Variant: a failed batch leaves the date where it is.
SettledDateHeld(full, p) == IF full THEN today + Step[p] ELSE row.next

SettledDate(full, p) == today + (IF full THEN Step[p] ELSE 1)

\* The claim does not look at deleted_at.  Without a link every send of the
\* batch is refused; a batch for nobody sends nothing and is full; only a full
\* send may slow the digest down.
Pull(r, sent, full, p) ==
  /\ proc[r].up
  /\ row.state = "activated" /\ row.next # Null /\ row.next <= today
  /\ sent => Linked(r)
  /\ p \in {row.cadence, NextRung(row.cadence)}
  /\ p # row.cadence => sent /\ full
  /\ mail' = IF sent THEN Render(r) ELSE NoMail
  /\ row' = [row EXCEPT !.cadence = p, !.next = SettledDate(full, p)]
  /\ batches' = batches + 1
  /\ UNCHANGED <<today, kpis, proc, clerk, bounds, dated>>

send_now(r) ==
  /\ proc[r].up /\ row.state # "none"
  /\ Linked(r) /\ mail' = Render(r)
  /\ UNCHANGED <<today, row, kpis, proc, clerk, bounds, batches, dated>>

-----------------------------------------------------------------------------
(* The verbs and the generated routes *)

\* A write by a person, served by some replica.
Edit == /\ \E r \in Replicas : proc[r].up
        /\ edits < MaxEdits /\ edits' = edits + 1
        /\ mail' = NoMail
        /\ UNCHANGED <<today, proc, starts, batches>>

create_digest(p) ==
  /\ row.state = "none" /\ Edit
  /\ row' = [state |-> "activated", cadence |-> p, next |-> today + Step[p], deleted |-> FALSE]
  /\ dated' = dated + 1
  /\ UNCHANGED <<kpis, clerk>>

\* The generated create: the date is the caller's, or NULL.
CreateByRoute(p, d) ==
  /\ row.state = "none" /\ Edit
  /\ row' = [state |-> "activated", cadence |-> p, next |-> d, deleted |-> FALSE]
  /\ dated' = dated + 1
  /\ UNCHANGED <<kpis, clerk>>

set_periodicity(p) ==
  /\ row.state # "none" /\ Edit
  /\ row' = [row EXCEPT !.cadence = p, !.next = today + Step[p]]
  /\ dated' = dated + 1
  /\ UNCHANGED <<kpis, clerk>>

set_state(s) ==
  /\ row.state # "none" /\ Edit
  /\ row' = [row EXCEPT !.state = s]
  /\ UNCHANGED <<kpis, clerk, dated>>

\* PUT, and a PATCH that names the date; the state only moves by its verbs.
Update(p, d) ==
  /\ Live /\ Edit
  /\ row' = [row EXCEPT !.cadence = p, !.next = d]
  /\ dated' = dated + 1
  /\ UNCHANGED <<kpis, clerk>>

\* A PATCH without a date: the date stays as it was computed.
UpdateCadence(p) ==
  /\ Live /\ Edit
  /\ row' = [row EXCEPT !.cadence = p]
  /\ UNCHANGED <<kpis, clerk, dated>>

SoftDelete == /\ Live /\ Edit
              /\ row' = [row EXCEPT !.deleted = TRUE]
              /\ UNCHANGED <<kpis, clerk, dated>>

Restore == /\ row.deleted /\ Edit
           /\ row' = [row EXCEPT !.deleted = FALSE]
           /\ UNCHANGED <<kpis, clerk, dated>>

\* Variant: the KPI rows have no foreign key to the digest.
PurgeAlone == /\ row.deleted /\ Edit
              /\ row' = NoRow
              /\ UNCHANGED <<kpis, clerk, dated>>

\* The foreign key of the KPI rows cascades; a transition that was checked on
\* the row finds it no more.
Purge == /\ row.deleted /\ Edit
         /\ row' = NoRow /\ kpis' = NoKpis
         /\ clerk' = [k \in Clerks |-> NoVerb]
         /\ UNCHANGED dated

target_state(verb) == IF verb = "action_activate" THEN "activated" ELSE "deactivated"

can_transition(state, verb) == state \in {"activated", "deactivated"} /\ verb \in Verbs

CheckTransition(k, verb) ==
  /\ clerk[k] = NoVerb
  /\ Live /\ can_transition(row.state, verb)
  /\ clerk' = [clerk EXCEPT ![k] = [verb |-> verb, read |-> row]]
  /\ mail' = NoMail
  /\ UNCHANGED <<today, row, kpis, proc, bounds, batches, dated>>

\* Variant: the whole row as it was read is written back.
MovedAsRead(k) == [clerk[k].read EXCEPT !.state = target_state(clerk[k].verb)]

\* The partial update names one field.
Moved(k) == [row EXCEPT !.state = target_state(clerk[k].verb)]

WriteTransition(k) ==
  /\ clerk[k] # NoVerb
  /\ clerk' = [clerk EXCEPT ![k] = NoVerb]
  /\ mail' = NoMail
  /\ row' = IF Live THEN Moved(k) ELSE row
  /\ UNCHANGED <<today, kpis, proc, bounds, batches, dated>>

\* DO NOTHING on the unique key: a row in the trash stays there, and the call
\* answers Ok.
enable_kpi(r, key) ==
  /\ proc[r].up /\ key \in DOMAIN proc[r].entries
  /\ row.state # "none" /\ Edit
  /\ kpis' = [kpis EXCEPT ![key] = IF @ = "absent" THEN "live" ELSE @]
  /\ UNCHANGED <<row, clerk, dated>>

\* The DELETE takes the row, live or not.
disable_kpi(key) ==
  /\ kpis[key] # "absent" /\ Edit
  /\ kpis' = [kpis EXCEPT ![key] = "absent"]
  /\ UNCHANGED <<row, clerk, dated>>

WriteKpis(new) == Edit /\ kpis' = new /\ UNCHANGED <<row, clerk, dated>>

\* The generated create of a KPI row asks no registry.
CreateKpiByRoute(key) ==
  /\ row.state # "none" /\ kpis[key] = "absent"
  /\ WriteKpis([kpis EXCEPT ![key] = "live"])

Rekeyed(key, new) == [kpis EXCEPT ![key] = "absent", ![new] = "live"]

\* PUT and PATCH may name another key, and ask no registry either.
UpdateKpi(key, new) ==
  /\ kpis[key] = "live" /\ kpis[new] = "absent"
  /\ WriteKpis(Rekeyed(key, new))

TrashKpi(key)   == kpis[key] = "live" /\ WriteKpis([kpis EXCEPT ![key] = "trashed"])
RestoreKpi(key) == kpis[key] = "trashed" /\ WriteKpis([kpis EXCEPT ![key] = "live"])
PurgeKpi(key)   == kpis[key] = "trashed" /\ WriteKpis([kpis EXCEPT ![key] = "absent"])

NextDay ==
  /\ today < LastDay
  /\ today' = today + 1
  /\ batches' = 0 /\ dated' = 0 /\ mail' = NoMail
  /\ UNCHANGED <<row, kpis, proc, clerk, bounds>>

-----------------------------------------------------------------------------
Init ==
  /\ today = 1 /\ row = NoRow /\ kpis = NoKpis
  /\ proc = [r \in Replicas |-> Down]
  /\ clerk = [k \in Clerks |-> NoVerb]
  /\ mail = NoMail
  /\ edits = 0 /\ starts = 0 /\ batches = 0 /\ dated = 0

GivenDates == (1 .. LastDay) \cup {Null}

Next ==
  \/ NextDay
  \/ \E r \in Replicas :
       \/ \E host \in Hosts, secret \in Secrets, url \in BOOLEAN :
            <<secret, url>> \in Settings /\ build(r, host, secret, url)
       \/ \E def \in Definitions : register_kpi(r, def)
       \/ RegisterNext(r) \/ Stop(r) \/ send_now(r)
       \/ \E sent, full \in BOOLEAN, p \in Cadences : Pull(r, sent, full, p)
       \/ \E key \in Names : enable_kpi(r, key)
  \/ \E p \in Cadences : create_digest(p) \/ set_periodicity(p) \/ UpdateCadence(p)
  \/ \E p \in Cadences, d \in GivenDates : CreateByRoute(p, d) \/ Update(p, d)
  \/ \E s \in {"activated", "deactivated"} : set_state(s)
  \/ SoftDelete \/ Restore \/ Purge
  \/ \E key \in Names : \/ CreateKpiByRoute(key) \/ disable_kpi(key)
                        \/ \E new \in Names : UpdateKpi(key, new)
                        \/ TrashKpi(key) \/ RestoreKpi(key) \/ PurgeKpi(key)
  \/ \E k \in Clerks : \/ \E verb \in Verbs : CheckTransition(k, verb)
                       \/ WriteTransition(k)

Spec == Init /\ [][Next]_vars

-----------------------------------------------------------------------------
(* Properties *)

\* A metric name is an identity: while a replica runs, no name changes the
\* computer behind it, whoever registers late.
OneMeaningPerName ==
  [][\A r \in Replicas : proc[r].up /\ proc'[r].up =>
       \A n \in DOMAIN proc[r].entries :
         n \in DOMAIN proc'[r].entries /\ proc'[r].entries[n] = proc[r].entries[n]]_vars

\* A mail shows the enabled keys of the base pair and of everything its host
\* was allowed to register, each by the computer given with it, and no
\* other: no definition is lost or taken over in the composition.
MailShowsComposition ==
  LET given == Range(Base) \cup proc[mail.by].asked
  IN  mail # NoMail =>
        /\ \A def \in given : def.name \in Enabled => def.name \in DOMAIN mail.shown
        /\ \A n \in DOMAIN mail.shown :
             n \in Enabled /\ \A def \in given : def.name = n => mail.shown[n] = def.computer

IsDue == row.state # "none" /\ row.next # Null /\ row.next <= today

\* A digest is settled again on a day only after a person wrote its date
\* that day, whatever failed and however stale the transitions that raced it.
SettledOncePerDate == /\ batches <= 1 + dated
                      /\ IsDue => batches <= dated

\* "Pause keeps its next_run_date; re-activating resumes the schedule where
\* it stood": who moves the state moves neither the date nor the cadence,
\* even from a check made before the pull moved them.
PauseKeepsSchedule ==
  [][row.state # "none" /\ row'.state \notin {"none", row.state}
       => row' = [row EXCEPT !.state = row'.state]]_vars

-----------------------------------------------------------------------------
(* What the documents say and the code does not do *)

\* "A digest mail without the unsubscribe leg must not send": whoever is sent
\* a mail can leave the digest by its link.  The engine of an empty secret
\* mints links and refuses every one of them.
MailHasWayOut == mail # NoMail => verify(mail.by)
=============================================================================
