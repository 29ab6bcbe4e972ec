------------------------ MODULE DigestMembershipProofs ------------------------
(* Opt-outs stick and the audit facts agree with the memberships, for any     *)
(* people, deliveries, requests and callers in flight, and however many moves *)
(* of the row.                                                                *)
EXTENDS DigestMembership, TLAPS

\* What the row, its histories and its facts say of one person: the row
\* remembers the opt-out and the announcement, and every fact of an
\* unsubscription used up a joining.
Person(u) ==
  /\ u \in optedOut => sub[u].state # "none" /\ (Active(u) => u \in overtaken)
  /\ sub[u].state = "none" => ~sub[u].auto /\ ~sub[u].deleted
  /\ facts[u].auto <= 1 /\ (facts[u].auto = 1 <=> sub[u].auto)
  /\ facts[u].unsub <= joins[u]
  /\ sub[u].state = "subscribed" => facts[u].unsub < joins[u]

\* A handler is busy only with a payload that names somebody.
Readable == \A e \in Envelopes : event[e].at # "idle" => Addressee(e) \in Users

\* A caller who passed the check for a resubscribe read a person who was out.
Checked == \A k \in Clerks : clerk[k].verb = "resubscribe" => Asked(k)

MembershipInv == TypeOK /\ Readable /\ Checked /\ \A u \in Users : Person(u)

\* The part of TypeOK about what a move of a row writes.
RowsTyped ==
  /\ sub \in [Users -> Membership]
  /\ optedOut \subseteq Users /\ overtaken \subseteq Users
  /\ joins \in [Users -> Nat]
  /\ facts \in [Users -> [auto : Nat, unsub : Nat]]

Rows == RowsTyped /\ \A u \in Users : Person(u)

-----------------------------------------------------------------------------

LEMMA NoRowTyped == NoRow \in Membership
BY DEF NoRow, Membership, Times

LEMMA InitInv == Init => MembershipInv
BY MembershipNat, NoRowTyped
   DEF Init, MembershipInv, Readable, Checked, TypeOK, Person, Active, NoRow, NoVerb, Pending, Verbs,
       Times

\* What a write of u's row may do to the opt-outs: other people's stand, and u's
\* stands only if u does not get mail by it, or by a transition that overtook it.
Kept(u, new) ==
  /\ optedOut' \subseteq Users /\ overtaken' \subseteq Users
  /\ \A v \in Users \ {u} : /\ v \in optedOut' => v \in optedOut
                            /\ v \in overtaken => v \in overtaken'
  /\ u \in optedOut' => /\ new.state # "none"
                        /\ new.state = "subscribed" /\ ~new.deleted => u \in overtaken'

\* Putting a row: the people it does not touch keep all they have.
LEMMA PutInv ==
  ASSUME Rows, NEW u \in Users, NEW new \in Membership, Put(u, new), Kept(u, new),
         facts' \in [Users -> [auto : Nat, unsub : Nat]],
         \A v \in Users \ {u} : facts'[v] = facts[v],
         facts'[u].auto <= 1 /\ (facts'[u].auto = 1 <=> new.auto),
         new.state = "none" => ~new.auto /\ ~new.deleted,
         \/ facts'[u].unsub = facts[u].unsub
         \/ /\ sub[u].state = "subscribed" /\ new.state # "subscribed"
            /\ facts'[u].unsub = facts[u].unsub + 1
  PROVE  Rows'
<1>1. /\ sub \in [Users -> Membership] /\ joins \in [Users -> Nat]
      /\ facts \in [Users -> [auto : Nat, unsub : Nat]]
      /\ sub' = [sub EXCEPT ![u] = new]
      /\ joins' = IF new.state = "subscribed" /\ sub[u].state # "subscribed"
                  THEN [joins EXCEPT ![u] = joins[u] + 1] ELSE joins
  BY DEF Rows, RowsTyped, Put, Joins
<1>2. RowsTyped'
  <2>1. sub' \in [Users -> Membership]
    BY <1>1
  <2>2. joins' \in [Users -> Nat]
    BY <1>1
  <2>3. QED
    BY <2>1, <2>2 DEF RowsTyped, Kept
<1>3. ASSUME NEW v \in Users, v # u PROVE Person(v)'
  <2>1. sub'[v] = sub[v] /\ joins'[v] = joins[v]
    BY <1>1, <1>3
  <2>2. facts'[v] = facts[v]
    BY <1>3
  <2>3. (v \in optedOut' => v \in optedOut) /\ (v \in overtaken => v \in overtaken')
    BY <1>3, Zenon DEF Kept
  <2>4. QED
    BY <2>1, <2>2, <2>3 DEF Rows, Person, Active
<1>4. Person(u)'
  <2>1. /\ sub'[u] = new
        /\ joins'[u] = IF new.state = "subscribed" /\ sub[u].state # "subscribed"
                       THEN joins[u] + 1 ELSE joins[u]
    BY <1>1
  <2>2. /\ facts[u].unsub \in Nat /\ joins[u] \in Nat /\ facts'[u].unsub \in Nat
        /\ facts[u].unsub <= joins[u]
        /\ sub[u].state = "subscribed" => facts[u].unsub < joins[u]
    BY <1>1 DEF Rows, Person
  <2>3. facts'[u].unsub <= joins'[u]
    BY <2>1, <2>2
  <2>4. new.state = "subscribed" => facts'[u].unsub < joins'[u]
    BY <2>1, <2>2
  <2>5. QED
    BY <2>1, <2>3, <2>4 DEF Person, Active, Kept
<1>5. QED
  BY <1>2, <1>3, <1>4 DEF Rows

LEMMA WelcomeKept ==
  ASSUME Rows, NEW u \in Users, NEW new, Welcome(u)
  PROVE  Kept(u, new)
BY DEF Rows, RowsTyped, Welcome, Kept

\* A write that leaves a recipient only where there was one, or where there was
\* no row to remember an opt-out.
LEMMA ToldKept ==
  ASSUME Rows, NEW u \in Users, NEW new, UNCHANGED <<optedOut, overtaken>>,
         \/ sub[u].state = "none"
         \/ new.state # "none" /\ (new.state = "subscribed" /\ ~new.deleted => Active(u))
  PROVE  Kept(u, new)
BY DEF Rows, RowsTyped, Person, Kept

\* A write of the row that keeps its announcement.
LEMMA MoveInv ==
  ASSUME Rows, NEW u \in Users, NEW new \in Membership, Move(u, new), Kept(u, new),
         new.auto = sub[u].auto, new.state # "none", UNCHANGED facts
  PROVE  Rows'
<1>1. Put(u, new)
  BY DEF Move
<1>2. facts[u].auto <= 1 /\ (facts[u].auto = 1 <=> new.auto)
  BY DEF Rows, Person
<1>3. facts' \in [Users -> [auto : Nat, unsub : Nat]]
  BY DEF Rows, RowsTyped
<1>4. \A v \in Users : facts'[v] = facts[v]
  OBVIOUS
<1>5. QED
  BY <1>1, <1>2, <1>3, <1>4, PutInv

\* A row that goes or comes, and what the facts say of it with it.
LEMMA TransferInv ==
  ASSUME Rows, NEW u \in Users, NEW new \in Membership, Move(u, new), Kept(u, new),
         new.state = "none" => ~new.auto /\ ~new.deleted,
         facts' = [facts EXCEPT ![u].auto = IF new.auto THEN 1 ELSE 0]
  PROVE  Rows'
<1>1. Put(u, new)
  BY DEF Move
<1>2. facts \in [Users -> [auto : Nat, unsub : Nat]]
  BY DEF Rows, RowsTyped
<1>3. /\ facts' \in [Users -> [auto : Nat, unsub : Nat]]
      /\ \A v \in Users \ {u} : facts'[v] = facts[v]
      /\ facts'[u].unsub = facts[u].unsub
      /\ facts'[u].auto = IF new.auto THEN 1 ELSE 0
  BY <1>2
<1>4. facts'[u].auto <= 1 /\ (facts'[u].auto = 1 <=> new.auto)
  BY <1>3
<1>5. QED
  BY <1>1, <1>3, <1>4, PutInv

LEMMA AutoSubscribeInv ==
  ASSUME Rows, NEW u \in Users, AutoSubscribe(u), UNCHANGED <<optedOut, overtaken>>
  PROVE  Rows'
<1>1. CASE sub[u].state = "none"
  <2>1. Put(u, AutoMarked) /\ facts' = [facts EXCEPT ![u].auto = facts[u].auto + 1]
    BY <1>1 DEF AutoSubscribe
  <2>2. AutoMarked \in Membership /\ AutoMarked.auto /\ AutoMarked.state = "subscribed"
    BY DEF AutoMarked, Membership
  <2>3. facts \in [Users -> [auto : Nat, unsub : Nat]] /\ facts[u].auto = 0
    <3>1. facts \in [Users -> [auto : Nat, unsub : Nat]] /\ Person(u)
      BY DEF Rows, RowsTyped
    <3>2. ~sub[u].auto /\ facts[u].auto <= 1 /\ facts[u].auto # 1
      BY <1>1, <3>1 DEF Person
    <3>3. QED
      BY <3>1, <3>2
  <2>4. /\ facts' \in [Users -> [auto : Nat, unsub : Nat]]
        /\ \A v \in Users \ {u} : facts'[v] = facts[v]
        /\ facts'[u].unsub = facts[u].unsub
        /\ facts'[u].auto = 1
    BY <2>1, <2>3
  <2>5. Kept(u, AutoMarked)
    BY <1>1, ToldKept
  <2>6. QED
    BY <2>1, <2>2, <2>4, <2>5, PutInv
<1>2. CASE sub[u].state # "none"
  BY <1>2 DEF AutoSubscribe, Rows, RowsTyped, Person, Active
<1>3. QED
  BY <1>1, <1>2

LEMMA ApplyInv ==
  ASSUME Rows, NEW u \in Users, clock \in Times, Apply(u),
         optedOut' = optedOut \cup {v \in {u} : sub[v].state # "none"},
         overtaken' = overtaken \ {u}
  PROVE  Rows'
<1>1. /\ sub \in [Users -> Membership] /\ facts \in [Users -> [auto : Nat, unsub : Nat]]
      /\ optedOut \subseteq Users /\ overtaken \subseteq Users /\ Person(u)
  BY DEF Rows, RowsTyped
<1>2. /\ optedOut' \subseteq Users /\ overtaken' \subseteq Users
      /\ \A v \in Users \ {u} : /\ v \in optedOut' => v \in optedOut
                                /\ v \in overtaken => v \in overtaken'
      /\ u \in optedOut' => sub[u].state # "none"
  BY <1>1 DEF Person
<1>3. CASE Active(u)
  <2> DEFINE new == [sub[u] EXCEPT !.state = "unsubscribed", !.stamp = clock]
  <2>1. Put(u, new) /\ facts' = [facts EXCEPT ![u].unsub = facts[u].unsub + 1]
    BY <1>3 DEF Apply
  <2>2. /\ new \in Membership /\ new.auto = sub[u].auto /\ new.state = "unsubscribed"
        /\ sub[u].state = "subscribed"
    BY <1>1, <1>3 DEF Membership, Active
  <2>3. /\ facts' \in [Users -> [auto : Nat, unsub : Nat]]
        /\ \A v \in Users \ {u} : facts'[v] = facts[v]
        /\ facts'[u].unsub = facts[u].unsub + 1
        /\ facts'[u].auto = facts[u].auto
    BY <1>1, <2>1
  <2>4. facts'[u].auto <= 1 /\ (facts'[u].auto = 1 <=> new.auto)
    BY <1>1, <2>2, <2>3 DEF Person
  <2> HIDE DEF new
  <2>5. Kept(u, new)
    BY <1>2, <2>2 DEF Kept
  <2>6. QED
    BY <2>1, <2>2, <2>3, <2>4, <2>5, PutInv
<1>4. CASE ~Active(u)
  <2>1. UNCHANGED <<sub, joins, facts>>
    BY <1>4 DEF Apply
  <2>2. ASSUME NEW v \in Users, v # u PROVE Person(v)'
    BY <1>2, <2>1, <2>2 DEF Rows, Person, Active
  <2>3. Person(u)'
    BY <1>1, <1>2, <1>4, <2>1 DEF Person, Active
  <2>4. RowsTyped'
    BY <1>1, <1>2, <2>1 DEF Rows, RowsTyped
  <2>5. QED
    BY <2>2, <2>3, <2>4 DEF Rows
<1>5. QED
  BY <1>3, <1>4

\* Nothing of the rows moves.
LEMMA StillInv == Rows /\ UNCHANGED <<sub, joins, optedOut, overtaken, facts>> => Rows'
BY DEF Rows, RowsTyped, Person, Active

\* A write of the row by a verb or the generated CRUD.
Write(u) ==
  \/ Subscribe(u) \/ Resubscribe(u)
  \/ \E stamp \in Stamps : CreateByRoute(u, stamp) \/ Update(u, stamp)
  \/ Leave(u) \/ \E row \in Membership : Arrive(u, row)
  \/ SoftDelete(u) \/ Restore(u) \/ Purge(u)

LEMMA WriteInv == ASSUME Rows, NEW u \in Users, Write(u) PROVE Rows'
<1>1. sub[u] \in Membership /\ Person(u)
  BY DEF Rows, RowsTyped
<1>2. CASE Subscribe(u)
  BY <1>1, <1>2, WelcomeKept, MoveInv DEF Subscribe, Membership
<1>3. CASE Resubscribe(u)
  BY <1>1, <1>3, WelcomeKept, MoveInv DEF Resubscribe, Membership
<1>4. ASSUME NEW stamp \in Stamps, CreateByRoute(u, stamp) PROVE Rows'
  <2>1. Created(stamp) \in Membership /\ Created(stamp).auto = sub[u].auto
        /\ Created(stamp).state # "none"
    BY <1>1, <1>4 DEF CreateByRoute, Created, Membership, Stamps, Person
  <2>2. Kept(u, Created(stamp))
    BY <1>4, ToldKept DEF CreateByRoute, told
  <2>3. QED
    BY <1>4, <2>1, <2>2, MoveInv DEF CreateByRoute
<1>5. ASSUME NEW stamp \in Stamps, Update(u, stamp) PROVE Rows'
  <2> DEFINE new == Stamped(u, stamp)
  <2>1. /\ new \in Membership /\ new.auto = sub[u].auto /\ new.state = sub[u].state
        /\ new.deleted = sub[u].deleted
    BY <1>1, <1>5 DEF Stamped, Membership, Stamps
  <2>2. /\ Move(u, new) /\ sub[u].state # "none"
        /\ UNCHANGED <<optedOut, overtaken, facts>>
    BY <1>5 DEF Update, told
  <2> HIDE DEF new
  <2>3. Kept(u, new)
    BY <2>1, <2>2, ToldKept DEF Active
  <2>4. QED
    BY <2>1, <2>2, <2>3, MoveInv
<1>6. CASE Leave(u) \/ Purge(u)
  <2>1. Move(u, NoRow) /\ facts' = [facts EXCEPT ![u].auto = 0]
    BY <1>6 DEF Leave, Purge, Forget
  <2>2. NoRow.auto = FALSE /\ NoRow.deleted = FALSE
    BY DEF NoRow
  <2>3. facts' = [facts EXCEPT ![u].auto = IF NoRow.auto THEN 1 ELSE 0]
    BY <2>1, <2>2
  <2>4. Kept(u, NoRow)
    BY <1>6, WelcomeKept DEF Leave, Purge, Forget
  <2>5. QED
    BY <2>1, <2>2, <2>3, <2>4, NoRowTyped, TransferInv
<1>7. ASSUME NEW row \in Membership, Arrive(u, row) PROVE Rows'
  <2>1. Kept(u, row)
    BY <1>7, ToldKept DEF Arrive, told
  <2>2. QED
    BY <1>7, <2>1, TransferInv DEF Arrive
<1>8. CASE SoftDelete(u)
  <2> DEFINE new == [sub[u] EXCEPT !.deleted = TRUE]
  <2>1. new \in Membership /\ new.auto = sub[u].auto /\ new.state # "none" /\ new.deleted
    BY <1>1, <1>8 DEF SoftDelete, Membership
  <2>2. Move(u, new) /\ UNCHANGED <<optedOut, overtaken, facts>>
    BY <1>8 DEF SoftDelete, told
  <2> HIDE DEF new
  <2>3. Kept(u, new)
    BY <2>1, <2>2, ToldKept
  <2>4. QED
    BY <2>1, <2>2, <2>3, MoveInv
<1>9. CASE Restore(u)
  <2> DEFINE new == [sub[u] EXCEPT !.deleted = FALSE]
  <2>1. /\ new \in Membership /\ new.auto = sub[u].auto
        /\ new.state = sub[u].state /\ new.state # "none"
    BY <1>1, <1>9 DEF Restore, Membership, Person
  <2>2. Move(u, new) /\ facts' = facts
    BY <1>9 DEF Restore
  <2> HIDE DEF new
  <2>3. CASE sub[u].state = "subscribed"
    BY <1>9, <2>1, <2>2, <2>3, WelcomeKept, MoveInv DEF Restore
  <2>4. CASE sub[u].state # "subscribed"
    <3>1. UNCHANGED <<optedOut, overtaken>>
      BY <1>9, <2>4 DEF Restore
    <3>2. Kept(u, new)
      BY <2>1, <2>4, <3>1, ToldKept
    <3>3. QED
      BY <2>1, <2>2, <3>2, MoveInv
  <2>5. QED
    BY <2>3, <2>4
<1>10. QED
  BY <1>2, <1>3, <1>4, <1>5, <1>6, <1>7, <1>8, <1>9 DEF Write

LEMMA TransitionInv ==
  ASSUME Rows, Checked, NEW k \in Clerks, WriteTransition(k),
         clerk \in [Clerks -> Pending]
  PROVE  Rows'
<1> DEFINE u == clerk[k].user
           new == [sub[u] EXCEPT !.state = Target(clerk[k].verb)]
<1>1. u \in Users /\ facts' = facts
  BY DEF WriteTransition, Pending
<1>2. CASE sub[u].deleted
  BY <1>1, <1>2, StillInv DEF WriteTransition
<1>3. CASE ~sub[u].deleted
  <2>1. Move(u, new)
    BY <1>3 DEF WriteTransition
  <2>2. /\ new \in Membership /\ new.auto = sub[u].auto /\ new.state # "none"
    <3>1. sub[u] \in Membership
      BY <1>1 DEF Rows, RowsTyped
    <3>2. Target(clerk[k].verb) \in {"subscribed", "unsubscribed"}
      BY DEF Target
    <3> QED BY <3>1, <3>2 DEF Membership
  <2>3. /\ optedOut' = IF Asked(k) /\ k \notin newer THEN optedOut \ {u} ELSE optedOut
        /\ overtaken' = IF Asked(k) /\ k \in newer THEN overtaken \cup {u} ELSE overtaken \ {u}
    BY <1>3 DEF WriteTransition
  <2>4. ~Asked(k) => new.state = "unsubscribed"
    <3>1. clerk[k].verb \in Verbs /\ (~Asked(k) => clerk[k].verb # "resubscribe")
      BY DEF Pending, Checked
    <3>2. ~Asked(k) => Target(clerk[k].verb) = "unsubscribed"
      BY <3>1 DEF Target, Verbs
    <3> QED
      BY <1>1, <3>2 DEF Rows, RowsTyped, Membership
  <2>5. optedOut \subseteq Users /\ overtaken \subseteq Users /\ u \in Users
    BY <1>1 DEF Rows, RowsTyped
  <2> HIDE DEF new, u
  <2>6. Kept(u, new)
    BY <2>2, <2>3, <2>4, <2>5 DEF Kept
  <2>7. QED
    BY <1>1, <2>1, <2>2, <2>6, MoveInv
<1>4. QED
  BY <1>2, <1>3

LEMMA RowsInv == MembershipInv /\ [Next]_vars => Rows'
<1> SUFFICES ASSUME MembershipInv, [Next]_vars PROVE Rows'
  OBVIOUS
<1>1. Rows /\ TypeOK
  BY DEF MembershipInv, Rows, RowsTyped, TypeOK
<1>2. CASE Tick \/ UNCHANGED vars
  BY <1>1, <1>2, StillInv DEF Tick, told, vars
<1>3. ASSUME NEW e \in Envelopes,
             Deliver(e) \/ Resolve(e) \/ ResolveFails(e) \/ HandleFails(e) \/ Redeliver(e)
      PROVE  Rows'
  BY <1>1, <1>3, StillInv DEF Deliver, Resolve, ResolveFails, HandleFails, Redeliver, told
<1>4. ASSUME NEW e \in Envelopes, Handle(e) PROVE Rows'
  <2>1. Addressee(e) \in Users
    BY <1>4 DEF Handle, MembershipInv, Readable
  <2>2. QED
    BY <1>1, <1>4, <2>1, AutoSubscribeInv DEF Handle, told
<1>5. ASSUME NEW u \in Users, MailLink(u) PROVE Rows'
  BY <1>1, <1>5, StillInv DEF MailLink, told
<1>6. ASSUME NEW u \in Users, Write(u) PROVE Rows'
  BY <1>1, <1>6, WriteInv
<1>7. ASSUME NEW c \in Clicks, ClickFails(c) \/ \E t \in links : Click(c, t) PROVE Rows'
  BY <1>1, <1>7, StillInv DEF ClickFails, Click, told
<1>8. ASSUME NEW c \in Clicks, ApplyClick(c) PROVE Rows'
  <2>1. click[c] \in Users /\ clock \in Times
    BY <1>1, <1>8 DEF ApplyClick, TypeOK
  <2>2. QED
    BY <1>1, <1>8, <2>1, ApplyInv DEF ApplyClick
<1>9. ASSUME NEW k \in Clerks, NEW u \in Users, NEW verb \in Verbs, CheckTransition(k, u, verb)
      PROVE  Rows'
  BY <1>1, <1>9, StillInv DEF CheckTransition, told
<1>10. ASSUME NEW k \in Clerks, WriteTransition(k) PROVE Rows'
  BY <1>1, <1>10, TransitionInv DEF TypeOK, MembershipInv
<1>11. QED
  BY <1>2, <1>3, <1>4, <1>5, <1>6, <1>7, <1>8, <1>9, <1>10 DEF Next, Write

LEMMA ReadableInv == MembershipInv /\ [Next]_vars => Readable'
<1> SUFFICES ASSUME MembershipInv, [Next]_vars PROVE Readable'
  OBVIOUS
<1>1. /\ Readable
      /\ event \in [Envelopes -> [owed : BOOLEAN, at : {"idle", "resolving", "resolved"}]]
  BY DEF MembershipInv, TypeOK
<1>2. ASSUME NEW e \in Envelopes,
             \/ Deliver(e) \/ Resolve(e) \/ ResolveFails(e)
             \/ Handle(e) \/ HandleFails(e) \/ Redeliver(e)
      PROVE  Readable'
  <2>1. \A d \in Envelopes : d # e => event'[d] = event[d]
    BY <1>1, <1>2 DEF Deliver, Resolve, ResolveFails, Handle, HandleFails, Redeliver
  <2>2. event'[e].at # "idle" => Addressee(e) \in Users
    <3>1. CASE Deliver(e)
      BY <3>1, MembershipIds DEF Deliver
    <3>2. CASE Resolve(e)
      BY <1>1, <3>2 DEF Resolve, Readable
    <3>3. CASE ResolveFails(e) \/ Handle(e) \/ HandleFails(e) \/ Redeliver(e)
      BY <1>1, <3>3 DEF ResolveFails, Handle, HandleFails, Redeliver, Readable
    <3>4. QED
      BY <1>2, <3>1, <3>2, <3>3
  <2>3. QED
    BY <1>1, <2>1, <2>2 DEF Readable
<1>3. CASE UNCHANGED event
  BY <1>1, <1>3 DEF Readable
<1>4. QED
  BY <1>2, <1>3
     DEF Next, vars, Tick, MailLink, Subscribe, Resubscribe, CreateByRoute, Update, Leave, Forget,
         Arrive, SoftDelete, Restore, Purge, Click, ApplyClick, ClickFails, CheckTransition,
         WriteTransition

\* The machine lets a caller ask for a resubscribe only of a person who is out.
LEMMA CheckedInv == MembershipInv /\ [Next]_vars => Checked'
<1> SUFFICES ASSUME MembershipInv, [Next]_vars PROVE Checked'
  OBVIOUS
<1>1. Checked /\ clerk \in [Clerks -> Pending]
  BY DEF MembershipInv, TypeOK
<1>2. CASE UNCHANGED clerk
  BY <1>1, <1>2 DEF Checked, Asked
<1>3. ASSUME NEW k \in Clerks, NEW u \in Users, NEW verb \in Verbs, CheckTransition(k, u, verb)
      PROVE  Checked'
  <2>1. verb = "resubscribe" => sub[u].state = "unsubscribed"
    BY <1>3 DEF CheckTransition, can_transition
  <2>2. clerk' = [clerk EXCEPT ![k] = [user |-> u, verb |-> verb, read |-> sub[u].state]]
    BY <1>3 DEF CheckTransition
  <2>3. QED
    BY <1>1, <2>1, <2>2 DEF Checked, Asked
<1>4. ASSUME NEW k \in Clerks, WriteTransition(k) PROVE Checked'
  <2>1. clerk' = [clerk EXCEPT ![k] = NoVerb] /\ NoVerb.verb # "resubscribe"
    BY <1>4 DEF WriteTransition, NoVerb
  <2>2. QED
    BY <1>1, <2>1 DEF Checked, Asked
<1>5. ASSUME NEW u \in Users, Forget(u) PROVE Checked'
  <2>1. /\ clerk' = [k \in Clerks |-> IF clerk[k].user = u THEN NoVerb ELSE clerk[k]]
        /\ NoVerb.verb # "resubscribe"
    BY <1>5 DEF Forget, NoVerb
  <2>2. QED
    BY <1>1, <2>1 DEF Checked, Asked
<1>6. QED
  BY <1>2, <1>3, <1>4, <1>5
     DEF Next, vars, world, Tick, Deliver, Resolve, ResolveFails, Handle, HandleFails, Redeliver,
         MailLink, Subscribe, Resubscribe, CreateByRoute, Update, Leave, Arrive, SoftDelete, Restore,
         Purge, Click, ApplyClick, ClickFails

\* The rest of TypeOK.
WorldTyped ==
  /\ internal \subseteq Users /\ growth \in BOOLEAN
  /\ clock \in Times
  /\ event \in [Envelopes -> [owed : BOOLEAN, at : {"idle", "resolving", "resolved"}]]
  /\ links \subseteq [user : Users, exp : Nat]
  /\ click \in [Clicks -> Users \cup {NoUser}]
  /\ clerk \in [Clerks -> Pending] /\ newer \subseteq Clerks
  /\ moves \in 0 .. MaxMoves

LEMMA WorldInv == RowsTyped /\ WorldTyped /\ [Next]_vars => WorldTyped'
<1> SUFFICES ASSUME RowsTyped, WorldTyped, [Next]_vars PROVE WorldTyped'
  OBVIOUS
<1>1. CASE Tick
  BY <1>1, MembershipNat DEF Tick, config, told, WorldTyped, Times
<1>2. ASSUME NEW e \in Envelopes,
             \/ Deliver(e) \/ Resolve(e) \/ ResolveFails(e)
             \/ Handle(e) \/ HandleFails(e) \/ Redeliver(e)
      PROVE  WorldTyped'
  <2>1. UNCHANGED <<world, told>>
    BY <1>2 DEF Deliver, Resolve, ResolveFails, Handle, HandleFails, Redeliver
  <2>2. (event \in [Envelopes -> [owed : BOOLEAN, at : {"idle", "resolving", "resolved"}]])'
    <3> DEFINE E == [owed : BOOLEAN, at : {"idle", "resolving", "resolved"}]
    <3>1. event[e] \in E /\ event \in [Envelopes -> E]
      BY DEF WorldTyped
    <3>2. PICK row \in E : event' = [event EXCEPT ![e] = row]
      <4>1. CASE Deliver(e)
        BY <3>1, <4>1 DEF Deliver
      <4>2. CASE Resolve(e)
        BY <3>1, <4>2 DEF Resolve
      <4>3. CASE ResolveFails(e) \/ HandleFails(e) \/ Redeliver(e)
        BY <3>1, <4>3 DEF ResolveFails, HandleFails, Redeliver
      <4>4. CASE Handle(e)
        BY <3>1, <4>4 DEF Handle
      <4>5. QED
        BY <1>2, <4>1, <4>2, <4>3, <4>4
    <3>3. QED
      BY <3>1, <3>2
  <2>3. QED
    BY <2>1, <2>2 DEF WorldTyped, world, config, told
<1>3. ASSUME NEW u \in Users, MailLink(u) PROVE WorldTyped'
  <2>1. clock + TokenTTL \in Nat
    BY MembershipNat DEF WorldTyped, Times
  <2>2. QED
    BY <1>3, <2>1 DEF MailLink, WorldTyped, config, told
<1>4. ASSUME NEW u \in Users, Write(u) PROVE WorldTyped'
  <2>1. UNCHANGED <<config, clock, event, links, click>>
    BY <1>4 DEF Write, Subscribe, Resubscribe, CreateByRoute, Update, Leave, Forget, Arrive,
                SoftDelete, Restore, Purge
  <2>2. moves' \in 0 .. MaxMoves
    <3>1. \E new : Move(u, new)
      BY <1>4, Zenon DEF Write, Subscribe, Resubscribe, CreateByRoute, Update, Leave, Forget,
                         Arrive, SoftDelete, Restore, Purge
    <3>2. moves < MaxMoves /\ moves' = moves + 1
      BY <3>1 DEF Move
    <3>3. QED
      BY <3>2, MembershipNat DEF WorldTyped
  <2>3. clerk' \in [Clerks -> Pending]
    <3>1. \/ clerk' = clerk
          \/ clerk' = [k \in Clerks |-> IF clerk[k].user = u THEN NoVerb ELSE clerk[k]]
      BY <1>4 DEF Write, Subscribe, Resubscribe, CreateByRoute, Update, Leave, Forget, Arrive,
                  SoftDelete, Restore, Purge
    <3>2. QED
      BY <3>1 DEF WorldTyped, NoVerb, Pending, Verbs
  <2>4. newer' \subseteq newer
    BY <1>4 DEF Write, Subscribe, Resubscribe, CreateByRoute, Update, Leave, Forget, Arrive,
                SoftDelete, Restore, Purge, told
  <2>5. QED
    BY <2>1, <2>2, <2>3, <2>4 DEF WorldTyped, config
<1>5. ASSUME NEW c \in Clicks, \/ \E t \in links : Click(c, t)
                               \/ ApplyClick(c) \/ ClickFails(c)
      PROVE  WorldTyped'
  <2>1. UNCHANGED <<config, clock, event, links, clerk, moves>> /\ newer' \subseteq Clerks
    BY <1>5 DEF Click, ApplyClick, ClickFails, told, WorldTyped
  <2>2. click' \in [Clicks -> Users \cup {NoUser}]
    <3>1. \A t \in links : t.user \in Users
      BY DEF WorldTyped
    <3>2. PICK u \in Users \cup {NoUser} : click' = [click EXCEPT ![c] = u]
      BY <1>5, <3>1 DEF Click, ApplyClick, ClickFails
    <3>3. QED
      BY <3>2 DEF WorldTyped
  <2>3. QED
    BY <2>1, <2>2 DEF WorldTyped, config
<1>6. ASSUME NEW k \in Clerks, NEW u \in Users, NEW verb \in Verbs, CheckTransition(k, u, verb)
      PROVE  WorldTyped'
  <2>1. sub[u].state \in {"none", "subscribed", "unsubscribed"}
    BY DEF RowsTyped, Membership
  <2>2. clerk' \in [Clerks -> Pending]
    BY <1>6, <2>1 DEF CheckTransition, WorldTyped, Pending
  <2>3. QED
    BY <1>6, <2>2 DEF CheckTransition, WorldTyped, config, told
<1>7. ASSUME NEW k \in Clerks, WriteTransition(k) PROVE WorldTyped'
  <2>1. UNCHANGED <<config, clock, event, links, click>>
    BY <1>7 DEF WriteTransition
  <2>2. clerk' \in [Clerks -> Pending] /\ newer' \subseteq Clerks
    BY <1>7 DEF WriteTransition, WorldTyped, NoVerb, Pending, Verbs
  <2>3. moves' = moves \/ (moves < MaxMoves /\ moves' = moves + 1)
    BY <1>7 DEF WriteTransition, Move
  <2>4. QED
    BY <2>1, <2>2, <2>3, MembershipNat DEF WorldTyped, config
<1>8. CASE UNCHANGED vars
  BY <1>8 DEF vars, config, told, WorldTyped
<1>9. QED
  BY <1>1, <1>2, <1>3, <1>4, <1>5, <1>6, <1>7, <1>8 DEF Next, Write

LEMMA Inductive == MembershipInv /\ [Next]_vars => MembershipInv'
<1>1. TypeOK <=> RowsTyped /\ WorldTyped
  BY DEF TypeOK, RowsTyped, WorldTyped
<1>2. TypeOK' <=> RowsTyped' /\ WorldTyped'
  BY DEF TypeOK, RowsTyped, WorldTyped
<1>3. QED
  BY <1>1, <1>2, RowsInv, ReadableInv, CheckedInv, WorldInv DEF MembershipInv, Rows

LEMMA Always == Spec => []MembershipInv
BY InitInv, Inductive, PTL DEF Spec

-----------------------------------------------------------------------------

\* Rows, links, handlers and histories keep their types in every interleaving.
THEOREM MembershipTyped == Spec => []TypeOK
<1>1. MembershipInv => TypeOK
  BY DEF MembershipInv
<1>2. QED
  BY <1>1, Always, PTL

\* Nobody who opted out is a recipient again by a redelivered event, a repeated
\* click, a write of another field or a transition asked for while they were in;
\* the one stale write that does it was checked while they were out.
THEOREM OptOutSticksHolds == Spec => []OptOutSticks
<1>1. MembershipInv => OptOutSticks
  BY DEF MembershipInv, TypeOK, Person, OptOutSticks
<1>2. QED
  BY <1>1, Always, PTL

\* The loop announces a membership once, however often it hears of the person.
THEOREM AnnouncedOnceHolds == Spec => []AnnouncedOnce
<1>1. MembershipInv => AnnouncedOnce
  BY DEF MembershipInv, Person, AnnouncedOnce
<1>2. QED
  BY <1>1, Always, PTL

\* Any number of clicks in flight leave one fact per membership they end.
THEOREM OneFactHolds == Spec => []OneFactPerMembership
<1>1. MembershipInv => OneFactPerMembership
  BY DEF MembershipInv, Person, OneFactPerMembership
<1>2. QED
  BY <1>1, Always, PTL

\* A put of somebody's row that moves or keeps the state without a new stamp.
LEMMA PutKeepsStamp ==
  ASSUME sub \in [Users -> Membership], NEW u \in Users, NEW new \in Membership, Put(u, new),
         NEW w \in Users,
         sub[u].state = "unsubscribed" /\ new.state = "unsubscribed" => new.stamp = sub[u].stamp,
         sub[w].state = "unsubscribed", sub'[w].state = "unsubscribed"
  PROVE  sub'[w].stamp = sub[w].stamp
BY DEF Put

StampKept == \A u \in Users :
    /\ sub[u].state = "unsubscribed" /\ sub'[u].state = "unsubscribed"
    => sub'[u].stamp = sub[u].stamp \/ \E stamp \in Stamps : Update(u, stamp)

\* No step but a write of unsubscribed_at itself re-stamps an opt-out.
THEOREM NeverRestampedHolds == Spec => NeverRestamped
<1> DEFINE Still(w) == sub[w].state = "unsubscribed" /\ sub'[w].state = "unsubscribed"
                        => sub'[w].stamp = sub[w].stamp \/ \E stamp \in Stamps : Update(w, stamp)
<1>1. ASSUME MembershipInv, [Next]_vars, NEW w \in Users PROVE Still(w)
  <2>1. RowsTyped /\ WorldTyped /\ \A u \in Users : sub[u] \in Membership
    BY <1>1 DEF MembershipInv, TypeOK, RowsTyped, WorldTyped
  <2>2. CASE UNCHANGED sub
    BY <2>2
  <2>3. ASSUME NEW e \in Envelopes, Handle(e) PROVE Still(w)
    <3>1. CASE UNCHANGED sub
      BY <3>1
    <3>2. CASE ~UNCHANGED sub
      <4>1. Addressee(e) \in Users /\ Put(Addressee(e), AutoMarked) /\ AutoMarked \in Membership
            /\ AutoMarked.state = "subscribed"
        BY <1>1, <2>3, <3>2 DEF Handle, AutoSubscribe, MembershipInv, Readable, AutoMarked,
                                Membership
      <4>2. QED
        BY <2>1, <4>1, PutKeepsStamp DEF RowsTyped
    <3>3. QED
      BY <3>1, <3>2
  <2>4. ASSUME NEW u \in Users, Write(u) PROVE Still(w)
    <3>1. ASSUME NEW stamp \in Stamps, Update(u, stamp) PROVE Still(w)
      <4>1. CASE u = w
        BY <3>1, <4>1
      <4>2. CASE u # w
        BY <2>1, <3>1, <4>2 DEF Update, Move, Put, RowsTyped
      <4>3. QED
        BY <4>1, <4>2
    <3>2. CASE Write(u) /\ ~\E stamp \in Stamps : Update(u, stamp)
      <4>1. \/ Subscribe(u) \/ Resubscribe(u)
            \/ \E stamp \in Stamps : CreateByRoute(u, stamp)
            \/ Leave(u) \/ (\E row \in Membership : Arrive(u, row))
            \/ SoftDelete(u) \/ Restore(u) \/ Purge(u)
        BY <3>2 DEF Write
      <4>2. PICK new \in Membership :
              /\ Put(u, new)
              /\ sub[u].state = "unsubscribed" /\ new.state = "unsubscribed"
                   => new.stamp = sub[u].stamp
        <5>1. CASE Subscribe(u)
          <6> DEFINE new == [state |-> "subscribed", stamp |-> Null, deleted |-> FALSE,
                             auto |-> sub[u].auto]
          <6>1. new \in Membership /\ new.state = "subscribed" /\ Put(u, new)
            BY <2>1, <5>1 DEF Subscribe, Move, Membership
          <6> HIDE DEF new
          <6>2. QED
            BY <6>1
        <5>2. CASE Resubscribe(u)
          <6> DEFINE new == [sub[u] EXCEPT !.state = "subscribed", !.stamp = Null]
          <6>1. new \in Membership /\ new.state = "subscribed" /\ Put(u, new)
            BY <2>1, <5>2 DEF Resubscribe, Move, Membership
          <6> HIDE DEF new
          <6>2. QED
            BY <6>1
        <5>3. CASE \E stamp \in Stamps : CreateByRoute(u, stamp)
          BY <5>3 DEF CreateByRoute, Created, Move, Membership, Stamps
        <5>4. CASE Leave(u) \/ Purge(u)
          BY <5>4, NoRowTyped DEF Leave, Purge, Forget, Move, NoRow
        <5>5. CASE \E row \in Membership : Arrive(u, row)
          BY <5>5 DEF Arrive, Move
        <5>6. CASE SoftDelete(u)
          <6> DEFINE new == [sub[u] EXCEPT !.deleted = TRUE]
          <6>1. new \in Membership /\ new.stamp = sub[u].stamp /\ Put(u, new)
            BY <2>1, <5>6 DEF SoftDelete, Move, Membership
          <6> HIDE DEF new
          <6>2. QED
            BY <6>1
        <5>7. CASE Restore(u)
          <6> DEFINE new == [sub[u] EXCEPT !.deleted = FALSE]
          <6>1. new \in Membership /\ new.stamp = sub[u].stamp /\ Put(u, new)
            BY <2>1, <5>7 DEF Restore, Move, Membership
          <6> HIDE DEF new
          <6>2. QED
            BY <6>1
        <5>8. QED
          BY <4>1, <5>1, <5>2, <5>3, <5>4, <5>5, <5>6, <5>7
      <4>3. QED
        BY <2>1, <4>2, PutKeepsStamp DEF RowsTyped
    <3>3. QED
      BY <2>4, <3>1, <3>2
  <2>5. ASSUME NEW c \in Clicks, ApplyClick(c) PROVE Still(w)
    <3>1. CASE UNCHANGED sub
      BY <3>1
    <3>2. CASE ~UNCHANGED sub
      <4> DEFINE u == click[c]
                 new == [sub[u] EXCEPT !.state = "unsubscribed", !.stamp = clock]
      <4>1. u \in Users /\ Put(u, new) /\ sub[u].state = "subscribed"
        BY <2>1, <2>5, <3>2 DEF ApplyClick, Apply, Active, WorldTyped
      <4> HIDE DEF u
      <4>2. new \in Membership
        <5>1. sub[u] \in Membership /\ clock \in Times
          BY <2>1, <4>1 DEF WorldTyped
        <5>2. QED
          BY <5>1 DEF Membership
      <4> HIDE DEF new
      <4>3. QED
        BY <2>1, <4>1, <4>2, PutKeepsStamp DEF RowsTyped
    <3>3. QED
      BY <3>1, <3>2
  <2>6. ASSUME NEW k \in Clerks, WriteTransition(k) PROVE Still(w)
    <3>1. CASE UNCHANGED sub
      BY <3>1
    <3>2. CASE ~UNCHANGED sub
      <4> DEFINE u == clerk[k].user
                 new == [sub[u] EXCEPT !.state = Target(clerk[k].verb)]
      <4>1. u \in Users /\ Put(u, new)
        BY <2>1, <2>6, <3>2 DEF WriteTransition, Move, WorldTyped, Pending
      <4>2. new \in Membership /\ new.stamp = sub[u].stamp
        BY <2>1, <4>1 DEF Membership, Target
      <4> HIDE DEF u, new
      <4>3. QED
        BY <2>1, <4>1, <4>2, PutKeepsStamp DEF RowsTyped
    <3>3. QED
      BY <3>1, <3>2
  <2>7. QED
    BY <1>1, <2>2, <2>3, <2>4, <2>5, <2>6
       DEF Next, Write, vars, Tick, Deliver, Resolve, ResolveFails, HandleFails, Redeliver,
           MailLink, Click, ClickFails, CheckTransition
<1>2. MembershipInv /\ [Next]_vars => [StampKept]_vars
  BY <1>1 DEF StampKept
<1>3. QED
  BY <1>2, Always, PTL DEF Spec, NeverRestamped, StampKept

===============================================================================
