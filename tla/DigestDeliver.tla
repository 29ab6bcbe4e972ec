--------------------------- MODULE DigestDeliver ---------------------------
(***************************************************************************)
(* One send_to_recipient call, step by step, as the sweep and Send Now run *)
(* it side by side: resolve the recipient through the port slot, choose    *)
(* the KPIs by their declared fence, pick the carousel tip, enqueue the    *)
(* mail, and only then write the tip's consumption marker and the          *)
(* first-digest stamp.  None of it runs in a transaction.                  *)
(***************************************************************************)
EXTENDS Naturals, Sequences, FiniteSets

CONSTANTS
  Users,
  AutoSubscribed,    \* users whose membership the growth loop minted
  TipCount,          \* tips are numbered in carousel order
  Gate(_),           \* a tip's group_key, or NoGate
  GroupsOf(_),       \* the group keys the port gives for a user
  Keys,              \* KPI keys a digest row may name
  Fence(_),          \* "shared", "company", a pinned company, or "unregistered"
  Companies,
  Senders,           \* send_to_recipient calls that can be in flight
  MaxMails,          \* BOUND: mails per user
  MaxEdits,          \* BOUND: KPI, marker and membership writes around the sends
  NoUser, NoTip, NoGate, NoCompany

Tips == 1 .. TipCount

ASSUME DeliverNat   == TipCount \in Nat /\ MaxMails \in Nat /\ MaxEdits \in Nat
ASSUME DeliverNulls == /\ NoUser \notin Users /\ NoTip \notin Nat /\ NoCompany \notin Companies
                       /\ AutoSubscribed \subseteq Users
\* However many there are, the replicas and operators are finite.
ASSUME DeliverSenders == IsFiniteSet(Senders)
ASSUME DeliverFences == \A k \in Keys : Fence(k) # NoCompany

VARIABLES
  wired,     \* has the host installed a recipient port in the slot
  company,   \* per user: the active company the port resolves
  kpi,       \* digest_digest_kpis of the digest: live, soft-deleted, or no row
  marker,    \* digest_tip_users: the same, per user and tip
  stamped,   \* per user: metadata.first_digest_sent_at is set
  job,       \* the local state of each call
  mails,     \* per user: what was enqueued, in order
  edits,
  unmarked,  \* history: (user, tip) whose marker failed or was soft-deleted
  ended      \* history: how the latest call ended

world == <<wired, company, kpi, stamped, edits>>
vars  == <<wired, company, kpi, marker, stamped, job, mails, edits, unmarked, ended>>

RowStates == {"absent", "live", "trashed"}

\* pc names the next step; first and tip belong to the RenderPlan, and company,
\* keys, shown and off to its making.
Job == [pc      : {"idle", "resolve", "keys", "compute", "tip", "enqueue", "mark", "stamp"},
        user    : Users \cup {NoUser},
        first   : BOOLEAN,                      \* is_first_digest_for_auto_subscriber
        company : Companies \cup {NoCompany},
        keys    : SUBSET Keys,                  \* enabled keys, as read
        shown   : SUBSET Keys,                  \* rendered
        off     : SUBSET Keys,                  \* dropped_unavailable
        tip     : Tips \cup {NoTip},
        sent    : BOOLEAN]                      \* history: the mail is queued

Idle == [pc |-> "idle", user |-> NoUser, first |-> FALSE, company |-> NoCompany,
         keys |-> {}, shown |-> {}, off |-> {}, tip |-> NoTip,
         sent |-> FALSE]

TypeOK ==
  /\ wired \in BOOLEAN
  /\ company \in [Users -> Companies \cup {NoCompany}]
  /\ kpi \in [Keys -> RowStates]
  /\ marker \in [Users -> [Tips -> RowStates]]
  /\ stamped \in [Users -> BOOLEAN]
  /\ job \in [Senders -> Job]
  /\ mails \in [Users -> Seq([tip : Tips \cup {NoTip}, notice : BOOLEAN])]
  /\ edits \in 0 .. MaxEdits
  /\ unmarked \subseteq (Users \X Tips)
  /\ ended \in [enqueued : BOOLEAN, ok : BOOLEAN]

-----------------------------------------------------------------------------
(* Rendering *)

\* KpiFenceDeclaration::renders_for.
RendersFor(k, c) == \/ Fence(k) = "shared"
                    \/ Fence(k) = "company" /\ c # NoCompany
                    \/ Fence(k) = c

Registered(k) == Fence(k) # "unregistered"

\* The recipient list is read, then the call for one of them begins.
Begin(j, u) ==
  /\ job[j].pc = "idle"
  /\ Len(mails[u]) < MaxMails
  /\ job' = [job EXCEPT ![j] = [Idle EXCEPT !.pc = "resolve", !.user = u,
                                  !.first = u \in AutoSubscribed /\ ~stamped[u]]]
  /\ UNCHANGED <<world, marker, mails, unmarked, ended>>

Resolve(j) ==
  /\ job[j].pc = "resolve"
  /\ wired
  /\ job' = [job EXCEPT ![j].pc = "keys", ![j].company = company[job[j].user]]
  /\ UNCHANGED <<world, marker, mails, unmarked, ended>>

ReadKeys(j) ==
  /\ job[j].pc = "keys"
  /\ job' = [job EXCEPT ![j].pc = "compute", ![j].keys = {k \in Keys : kpi[k] = "live"}]
  /\ UNCHANGED <<world, marker, mails, unmarked, ended>>

InFence(j) == {k \in job[j].keys : Registered(k) /\ RendersFor(k, job[j].company)}

\* Variant: no rows are taken for out of fence.
ShownNonZero(source) == {k \in DOMAIN source : source[k] = "rows"}

\* A genuine zero is a value.
Shown(source) == {k \in DOMAIN source : source[k] # "unavailable"}

\* Every in-fence KPI is computed over its windows; a key the registry does not
\* know is dropped like one whose source is not there.
Compute(j) ==
  /\ job[j].pc = "compute"
  /\ \E source \in [InFence(j) -> {"rows", "zero", "unavailable"}] :
       job' = [job EXCEPT ![j].pc = "tip",
                 ![j].shown = Shown(source),
                 ![j].off   = {k \in InFence(j) : source[k] = "unavailable"}
                                \cup {k \in job[j].keys : ~Registered(k)}]
  /\ UNCHANGED <<world, marker, mails, unmarked, ended>>

\* Variant: a port that does not answer opens every gate.
HeldOpen(u, answered) == IF answered THEN GroupsOf(u) ELSE {Gate(t) : t \in Tips}

\* The keys the gate is asked against: none when the port does not answer.
Held(u, answered) == IF answered THEN GroupsOf(u) ELSE {}

\* Variant: consumption is not looked at.
EligibleAgain(u, held) == {t \in Tips : Gate(t) \in held \cup {NoGate}}

Eligible(u, held) == {t \in Tips : marker[u][t] # "live" /\ Gate(t) \in held \cup {NoGate}}

FirstOf(S) == IF S = {} THEN NoTip ELSE CHOOSE t \in S : \A s \in S : t <= s

\* Variant: the tip is burnt as it is picked, before the enqueue.
PickTipAndMark(j) ==
  /\ job[j].pc = "tip"
  /\ \E answered \in {FALSE, wired} :
       LET u == job[j].user
           t == FirstOf(Eligible(u, Held(u, answered)))
       IN  /\ job' = [job EXCEPT ![j] = [Idle EXCEPT !.pc = "enqueue", !.user = u,
                                           !.first = job[j].first, !.tip = t]]
           /\ marker' = IF t = NoTip THEN marker ELSE [marker EXCEPT ![u][t] = "live"]
  /\ UNCHANGED <<world, mails, unmarked, ended>>

\* The lowest-sequence unconsumed tip the recipient's groups pass.  The plan
\* is complete: what the KPIs were made from is forgotten.
PickTip(j) ==
  /\ job[j].pc = "tip"
  /\ \E answered \in {FALSE, wired} :
       LET u == job[j].user
       IN  job' = [job EXCEPT ![j] =
                    [Idle EXCEPT !.pc = "enqueue", !.user = u, !.first = job[j].first,
                                 !.tip = FirstOf(Eligible(u, Held(u, answered)))]]
  /\ UNCHANGED <<world, marker, mails, unmarked, ended>>

\* The port errs, no link can be minted, a query fails or a KPI computes to a
\* hard error: the call errs with nothing sent.
RenderFails(j) ==
  /\ job[j].pc \in {"resolve", "keys", "compute", "tip"}
  /\ job' = [job EXCEPT ![j] = Idle]
  /\ ended' = [enqueued |-> FALSE, ok |-> FALSE]
  /\ UNCHANGED <<world, marker, mails, unmarked>>

-----------------------------------------------------------------------------
(* Delivering *)

Enqueue(j) ==
  LET u == job[j].user
  IN  /\ job[j].pc = "enqueue"
      /\ mails' = [mails EXCEPT ![u] = Append(@, [tip |-> job[j].tip, notice |-> job[j].first])]
      /\ job' = [job EXCEPT ![j].pc = "mark", ![j].sent = TRUE]
      /\ UNCHANGED <<world, marker, unmarked, ended>>

\* Variant: the mail seam's error is logged and swallowed.
EnqueueFailsSwallowed(j) ==
  /\ job[j].pc = "enqueue"
  /\ job' = [job EXCEPT ![j].pc = "mark"]
  /\ UNCHANGED <<world, marker, mails, unmarked, ended>>

EnqueueFails(j) ==
  /\ job[j].pc = "enqueue"
  /\ job' = [job EXCEPT ![j] = Idle]
  /\ ended' = [enqueued |-> FALSE, ok |-> FALSE]
  /\ UNCHANGED <<world, marker, mails, unmarked>>

\* INSERT ... ON CONFLICT DO NOTHING: a soft-deleted marker stays as it is.
MarkTip(j) ==
  LET u == job[j].user
      t == job[j].tip
  IN  /\ job[j].pc = "mark"
      /\ marker' = IF t # NoTip /\ marker[u][t] = "absent"
                   THEN [marker EXCEPT ![u][t] = "live"] ELSE marker
      /\ job' = [job EXCEPT ![j].pc = "stamp"]
      /\ UNCHANGED <<world, mails, unmarked, ended>>

\* The stamp, when this was the first mail; the call is over.
Stamp(j) ==
  LET u == job[j].user
  IN  /\ job[j].pc = "stamp"
      /\ stamped' = [stamped EXCEPT ![u] = @ \/ job[j].first]
      /\ job' = [job EXCEPT ![j] = Idle]
      /\ ended' = [enqueued |-> job[j].sent, ok |-> TRUE]
      /\ UNCHANGED <<wired, company, kpi, marker, mails, edits, unmarked>>

\* The call errs although the mail is queued: the queue's answer is lost, or
\* the marker or the stamp fails.
MarkingFails(j) ==
  /\ job[j].pc = "mark" \/ (job[j].pc = "stamp" /\ job[j].first)
  /\ unmarked' = IF job[j].pc = "mark" /\ job[j].tip # NoTip
                 THEN unmarked \cup {<<job[j].user, job[j].tip>>} ELSE unmarked
  /\ job' = [job EXCEPT ![j] = Idle]
  /\ ended' = [enqueued |-> job[j].sent, ok |-> FALSE]
  /\ UNCHANGED <<world, marker, mails>>

-----------------------------------------------------------------------------
(* What happens around the sends *)

InstallPort ==
  /\ ~wired
  /\ wired' = TRUE
  /\ UNCHANGED <<company, kpi, marker, stamped, job, mails, edits, unmarked, ended>>

Edit == edits < MaxEdits /\ edits' = edits + 1

MoveCompany(u, c) ==
  /\ Edit
  /\ company' = [company EXCEPT ![u] = c]
  /\ UNCHANGED <<wired, kpi, marker, stamped, job, mails, unmarked, ended>>

\* A key outside the registry is refused; DO NOTHING on an existing row.
EnableKpi(k) ==
  /\ Edit
  /\ Registered(k)
  /\ kpi' = [kpi EXCEPT ![k] = IF @ = "absent" THEN "live" ELSE @]
  /\ UNCHANGED <<wired, company, marker, stamped, job, mails, unmarked, ended>>

DisableKpi(k) ==
  /\ Edit
  /\ kpi' = [kpi EXCEPT ![k] = "absent"]
  /\ UNCHANGED <<wired, company, marker, stamped, job, mails, unmarked, ended>>

\* The generated CRUD soft-deletes a KPI row or a marker.
TrashKpi(k) ==
  /\ Edit
  /\ kpi[k] = "live"
  /\ kpi' = [kpi EXCEPT ![k] = "trashed"]
  /\ UNCHANGED <<wired, company, marker, stamped, job, mails, unmarked, ended>>

TrashMarker(u, t) ==
  /\ Edit
  /\ marker[u][t] = "live"
  /\ marker' = [marker EXCEPT ![u][t] = "trashed"]
  /\ unmarked' = unmarked \cup {<<u, t>>}
  /\ UNCHANGED <<wired, company, kpi, stamped, job, mails, ended>>

-----------------------------------------------------------------------------
Init ==
  /\ wired \in BOOLEAN
  /\ company \in [Users -> Companies \cup {NoCompany}]
  /\ kpi = [k \in Keys |-> "live"]
  /\ marker = [u \in Users |-> [t \in Tips |-> "absent"]]
  /\ stamped = [u \in Users |-> FALSE]
  /\ job = [j \in Senders |-> Idle]
  /\ mails = [u \in Users |-> <<>>]
  /\ edits = 0
  /\ unmarked = {}
  /\ ended = [enqueued |-> FALSE, ok |-> FALSE]

Next ==
  \/ \E j \in Senders : \/ \E u \in Users : Begin(j, u)
                        \/ Resolve(j) \/ ReadKeys(j) \/ Compute(j) \/ PickTip(j)
                        \/ RenderFails(j) \/ Enqueue(j) \/ EnqueueFails(j)
                        \/ MarkTip(j) \/ Stamp(j) \/ MarkingFails(j)
  \/ InstallPort
  \/ \E u \in Users : \/ \E c \in Companies \cup {NoCompany} : MoveCompany(u, c)
                      \/ \E t \in Tips : TrashMarker(u, t)
  \/ \E k \in Keys : EnableKpi(k) \/ DisableKpi(k) \/ TrashKpi(k)

Spec == Init /\ [][Next]_vars

-----------------------------------------------------------------------------
(* Properties *)

TipsMailed(u) == {mails[u][i].tip : i \in DOMAIN mails[u]}

\* No tip is burnt unseen: a consumption marker exists only for a tip that a
\* mail to the person carried, whatever failed in between.
ConsumedOnlyIfMailed ==
  \A u \in Users, t \in Tips : marker[u][t] # "absent" => t \in TipsMailed(u)

\* An auto-subscribed person's first mail carries the unsubscribe notice, and
\* the stamp that silences it later is never set before that mail is queued.
FirstMailWarns ==
  /\ \A u \in Users : stamped[u] => mails[u] # <<>>
  /\ \A u \in AutoSubscribed : mails[u] # <<>> => mails[u][1].notice

\* Condition 16: a mail leaves an enabled KPI out exactly when the declared
\* fence excludes the resolved company or its source is not there; never
\* because a count came back zero.
DropsOnlyAsDeclared == \A j \in Senders : job[j].pc = "tip" =>
  \A k \in job[j].keys \ job[j].off :
    k \in job[j].shown <=> CASE Fence(k) = "shared"  -> TRUE
                             [] Fence(k) = "company" -> job[j].company # NoCompany
                             [] OTHER                -> job[j].company = Fence(k)

\* A gated tip reaches only people who hold its group key, even while the port
\* is missing or failing.
GateFailsClosed == \A u \in Users : \A t \in TipsMailed(u) \ {NoTip} :
  Gate(t) \in GroupsOf(u) \cup {NoGate}

\* As long as its markers are written and kept, a tip reaches a person at most
\* once per call in flight: repeats come only from overlapping calls.
RepeatsOnlyByOverlap == \A u \in Users, t \in Tips : <<u, t>> \notin unmarked =>
  Cardinality({i \in DOMAIN mails[u] : mails[u][i].tip = t}) <= Cardinality(Senders)

-----------------------------------------------------------------------------
(* What the callers rely on *)

Calls  == [j \in Senders |-> [user |-> job[j].user, sent |-> job[j].sent]]
Queued == [u \in Users |-> Len(mails[u])]

Send == INSTANCE DigestSend WITH call <- Calls, queued <- Queued

\* A call mails nobody but its recipient, at most once, and succeeds only with
\* the mail queued, so the sweep that moves the due date on drops nobody: the
\* outcomes of the steps in between are those DigestSweep assumes of one step.
ImplementsSend == Send!Spec
=============================================================================
