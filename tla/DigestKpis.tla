----------------------------- MODULE DigestKpis -----------------------------
(***************************************************************************)
(* The numbers in a batch of mails.  A batch fixes its now once; for each  *)
(* recipient a KPI is then read six times, over the current and the        *)
(* previous window of the three columns, each read a query of its own,     *)
(* while people log in, join and leave and messages are posted and         *)
(* deleted.  Connected Users counts the one last_login of each account,    *)
(* which every login overwrites; Messages Sent counts rows by date, the    *)
(* digest's own mails among them.                                          *)
(***************************************************************************)
EXTENDS Integers, Sequences, FiniteSets

CONSTANTS
  Users,        \* accounts of the recipients' company
  Messages,     \* messages of other origin than the digest
  Spans,        \* WINDOW_SPANS_DAYS, in ticks
  Recipients,   \* recipients of a batch
  StartTime,    \* the tick the behaviour starts at; the past is arbitrary
  MaxTime,      \* BOUND: the last tick
  MaxBatches,   \* BOUND: batches
  MaxMoves,     \* BOUND: logins, memberships and messages that change
  MaxPast,      \* BOUND: logins of the past
  Never, Unread

Times   == 0 .. MaxTime
Columns == DOMAIN Spans

ASSUME KpiNat   == /\ Recipients \in Nat \ {0} /\ MaxTime \in Nat /\ StartTime \in Times
                   /\ MaxBatches \in Nat /\ MaxMoves \in Nat /\ MaxPast \in Nat
ASSUME KpiSpans == /\ Spans \in Seq(Nat \ {0}) /\ Spans # <<>>
                   /\ \A i, k \in Columns : i < k => Spans[i] < Spans[k]
ASSUME KpiFinite == IsFiniteSet(Users) /\ IsFiniteSet(Messages)
ASSUME KpiNulls == Never \notin Times /\ Unread \notin Nat /\ Users \cap Messages = {}

VARIABLES
  key,         \* the KPI the digest shows
  clock,
  lastLogin,   \* users.last_login
  active,      \* the active accounts with an active membership
  date,        \* per message: when it was posted
  kept,        \* the messages that are not deleted
  own,         \* dates of the messages the digest posted
  batch,       \* the batch under way
  shown,       \* the columns of its mails, in sending order
  batches, moves,
  logins,      \* history: every login
  changed      \* history: memberships and messages changed since the batch began

world == <<lastLogin, active, date, kept, logins, changed, moves>>
vars  == <<key, clock, lastLogin, active, date, kept, own, batch, shown, batches, moves,
           logins, changed>>

Keys  == {"kpi_res_users_connected", "kpi_mail_message_total"}
Cell  == [cur : Nat, prev : Nat, margin : {"flat", "up", "down"}]

Batch == [pc    : {"idle", "read", "post", "enqueue"},
          now   : Times,
          left  : 0 .. Recipients,
          cur   : Nat \cup {Unread},    \* the current window's reading
          cells : Seq(Cell)]            \* columns read so far

NoBatch == [pc |-> "idle", now |-> 0, left |-> 0, cur |-> Unread, cells |-> <<>>]

TypeOK ==
  /\ key \in Keys
  /\ clock \in Times
  /\ lastLogin \in [Users -> Times \cup {Never}]
  /\ active \subseteq Users
  /\ date \in [Messages -> Times \cup {Never}]
  /\ kept \subseteq Messages
  /\ own \in Seq(Times)
  /\ batch \in Batch
  /\ shown \in Seq(Seq(Cell))
  /\ batches \in 0 .. MaxBatches /\ moves \in 0 .. MaxMoves
  /\ logins \subseteq Users \X Times
  /\ changed \subseteq Users \cup Messages

-----------------------------------------------------------------------------
(* Windows and readings *)

\* Variant: the columns are consecutive days, each beginning where the one
\* before it ends.
current_consecutive(now, i) ==
  [start |-> now - Spans[i], end |-> IF i = 1 THEN now ELSE now - Spans[i - 1]]

current(now, i) == [start |-> now - Spans[i], end |-> now]

previous(w) == [start |-> w.start - (w.end - w.start), end |-> w.start]

\* date >= $1 AND date < $2.
In(t, w) == t # Never /\ w.start <= t /\ t < w.end

count_connected(w) == Cardinality({u \in active : In(lastLogin[u], w)})

MessagesSent(w) == Cardinality({m \in kept : In(date[m], w)})
                     + Cardinality({i \in DOMAIN own : In(own[i], w)})

compute(w) == IF key = "kpi_res_users_connected" THEN count_connected(w) ELSE MessagesSent(w)

\* Variant: the two readings are taken in the other order.
margin_swapped(cur, prev) == IF cur = prev \/ cur = 0 \/ prev = 0 THEN "flat"
                             ELSE IF cur > prev THEN "down" ELSE "up"

\* Nothing when the value did not change or either side is zero.
margin(cur, prev) == IF cur = prev \/ cur = 0 \/ prev = 0 THEN "flat"
                     ELSE IF cur > prev THEN "up" ELSE "down"

-----------------------------------------------------------------------------
(* A batch *)

\* run_daily_pull and send_now are called with now.
Start ==
  /\ batch.pc = "idle"
  /\ batches < MaxBatches
  /\ batches' = batches + 1
  /\ batch' = [NoBatch EXCEPT !.pc = "read", !.now = clock, !.left = Recipients]
  /\ shown' = <<>>
  /\ changed' = {}
  /\ UNCHANGED <<key, clock, lastLogin, active, date, kept, own, moves, logins>>

\* Variant: the windows end when they are read.
EndNow == clock

End == batch.now

Column == Len(batch.cells) + 1

ReadCurrent ==
  /\ batch.pc = "read" /\ batch.cur = Unread
  /\ batch' = [batch EXCEPT !.cur = compute(current(End, Column))]
  /\ UNCHANGED <<key, clock, own, shown, batches, world>>

ReadPrevious ==
  LET prev == compute(previous(current(End, Column)))
  IN  /\ batch.pc = "read" /\ batch.cur # Unread
      /\ batch' = [batch EXCEPT
                     !.cur = Unread,
                     !.cells = Append(@, [cur |-> batch.cur, prev |-> prev,
                                          margin |-> margin(batch.cur, prev)]),
                     !.pc = IF Column = Len(Spans) THEN "post" ELSE @]
      /\ UNCHANGED <<key, clock, own, shown, batches, world>>

NextRecipient == IF batch.left = 1 THEN [NoBatch EXCEPT !.now = batch.now]
                 ELSE [NoBatch EXCEPT !.pc = "read", !.now = batch.now, !.left = batch.left - 1]

\* The port does not answer: the KPI is left out of this mail.  A query of the
\* module's own that fails ends the send.
ReadFails ==
  /\ batch.pc = "read"
  /\ batch' = IF key = "kpi_res_users_connected"
              THEN [batch EXCEPT !.pc = "post", !.cur = Unread, !.cells = <<>>]
              ELSE NextRecipient
  /\ UNCHANGED <<key, clock, own, shown, batches, world>>

\* message_post, and then enqueue: the message row exists before the mail is
\* queued, and stays when the queue refuses it.
Post ==
  /\ batch.pc = "post"
  /\ own' = Append(own, clock)
  /\ batch' = [batch EXCEPT !.pc = "enqueue"]
  /\ UNCHANGED <<key, clock, shown, batches, world>>

Enqueue ==
  /\ batch.pc = "enqueue"
  /\ \E queued \in BOOLEAN : shown' = IF queued THEN Append(shown, batch.cells) ELSE shown
  /\ batch' = NextRecipient
  /\ UNCHANGED <<key, clock, own, batches, world>>

-----------------------------------------------------------------------------
(* The company meanwhile, as far as the KPI reads it *)

Move(k) == key = k /\ moves < MaxMoves /\ moves' = moves + 1

Login(u) ==
  /\ Move("kpi_res_users_connected")
  /\ lastLogin' = [lastLogin EXCEPT ![u] = clock]
  /\ logins' = logins \cup {<<u, clock>>}
  /\ UNCHANGED <<key, clock, active, date, kept, own, batch, shown, batches, changed>>

\* Hired, suspended, reinstated, deleted, moved to or from another company.
ChangeMembership(u) ==
  /\ Move("kpi_res_users_connected")
  /\ active' = IF u \in active THEN active \ {u} ELSE active \cup {u}
  /\ changed' = changed \cup {u}
  /\ UNCHANGED <<key, clock, lastLogin, date, kept, own, batch, shown, batches, logins>>

PostMessage(m) ==
  /\ Move("kpi_mail_message_total")
  /\ date[m] = Never
  /\ date' = [date EXCEPT ![m] = clock]
  /\ UNCHANGED <<key, clock, lastLogin, active, kept, own, batch, shown, batches, logins, changed>>

\* Soft-deleted, or restored.
TrashMessage(m) ==
  /\ Move("kpi_mail_message_total")
  /\ date[m] # Never
  /\ kept' = IF m \in kept THEN kept \ {m} ELSE kept \cup {m}
  /\ changed' = changed \cup {m}
  /\ UNCHANGED <<key, clock, lastLogin, active, date, own, batch, shown, batches, logins>>

Tick ==
  /\ clock < MaxTime
  /\ clock' = clock + 1
  /\ UNCHANGED <<key, own, batch, shown, batches, world>>

-----------------------------------------------------------------------------
Past == 0 .. StartTime - 1

\* t is u's last_login after those logins.
Latest(u, t) == IF t = Never THEN \A s \in Past : <<u, s>> \notin logins
                ELSE <<u, t>> \in logins /\ \A s \in Past : <<u, s>> \in logins => s <= t

\* A company with some past of logins, or of messages.
Init ==
  /\ key \in Keys
  /\ clock = StartTime
  /\ logins \in IF key = "kpi_res_users_connected"
                THEN {S \in SUBSET (Users \X Past) : Cardinality(S) <= MaxPast} ELSE {{}}
  /\ lastLogin \in [Users -> Past \cup {Never}]
  /\ \A u \in Users : Latest(u, lastLogin[u])
  /\ active \in IF key = "kpi_res_users_connected" THEN SUBSET Users ELSE {Users}
  /\ date \in [Messages -> IF key = "kpi_res_users_connected" THEN {Never} ELSE Past \cup {Never}]
  /\ kept = Messages
  /\ own = <<>>
  /\ batch = NoBatch
  /\ shown = <<>>
  /\ batches = 0 /\ moves = 0
  /\ changed = {}

Next ==
  \/ Start \/ ReadCurrent \/ ReadPrevious \/ ReadFails \/ Post \/ Enqueue
  \/ \E u \in Users : Login(u) \/ ChangeMembership(u)
  \/ \E m \in Messages : PostMessage(m) \/ TrashMessage(m)
  \/ Tick

Spec == Init /\ [][Next]_vars

-----------------------------------------------------------------------------
(* Properties *)

\* Who logged in, or changed membership, since the batch fixed its now; of the
\* messages, those deleted or restored.
Touched == IF key = "kpi_mail_message_total" THEN changed \cap Messages
           ELSE {u \in Users : u \in changed \/ (lastLogin[u] # Never /\ lastLogin[u] >= batch.now)}

\* 24h, 7d and 30d nest: a shorter column shows more than a longer one by at
\* most the people and messages touched while the columns were read.
ColumnsNest == \A i, k \in DOMAIN batch.cells : i < k =>
  batch.cells[i].cur <= batch.cells[k].cur + Cardinality(Touched)

\* Every recipient of a batch sees the same windows: later mails can only lose
\* people who logged in again and messages that were deleted, and never count
\* the batch's own mails, unless a membership or a message comes back.
LaterMailsNeverMore == \A i \in DOMAIN shown :
  \A k \in DOMAIN batch.cells \cap DOMAIN shown[i] :
    /\ batch.cells[k].cur  <= shown[i][k].cur  + Cardinality(changed)
    /\ batch.cells[k].prev <= shown[i][k].prev + Cardinality(changed)

LoggedIn(w) == {u \in active : \E t \in Times : <<u, t>> \in logins /\ In(t, w)}

\* A drop shown for Connected Users is a drop: although whoever comes back
\* vanishes from the previous window, fewer people logged in than in the window
\* before, give or take the people touched meanwhile.
DropIsReal == key = "kpi_res_users_connected" => \A i \in DOMAIN batch.cells :
  LET w == current(batch.now, i)
  IN  batch.cells[i].margin = "down" =>
        Cardinality(LoggedIn(w)) < Cardinality(LoggedIn(previous(w))) + Cardinality(Touched)
=============================================================================
