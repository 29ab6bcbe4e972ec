-------------------------- MODULE DigestMembership --------------------------
(***************************************************************************)
(* Who is in a digest: one row of digest_subscriptions per person, and the *)
(* five ways it is moved.  The growth loop creates it from user.created,   *)
(* delivered at least once; the subscribe verb upserts it; the one-click   *)
(* link of a mail unsubscribes it; the resubscribe verb takes that back;   *)
(* the generated transition routes check the state and then write it; and  *)
(* the generated CRUD creates, rewrites, soft-deletes, restores and purges *)
(* it.  Every statement binds one (digest, user) pair, so one digest is    *)
(* enough, and a row put under another person's name leaves the one and    *)
(* reaches the other.                                                      *)
(***************************************************************************)
EXTENDS Naturals, FiniteSets

CONSTANTS
  Users,
  Envelopes,        \* user.created events
  Addressee(_),     \* the payload's user_id, or NoUser when it does not parse
  Clicks,           \* unsubscribe requests in flight
  Clerks,           \* callers of the generated transition routes
  TokenTTL,         \* TOKEN_TTL_DAYS, in ticks
  MaxTime,          \* BOUND: the last tick
  MaxMoves,         \* BOUND: verbs, transitions and CRUD writes
  NoUser, Null

ASSUME MembershipNat == TokenTTL \in Nat /\ MaxTime \in Nat /\ MaxMoves \in Nat
ASSUME MembershipIds == /\ NoUser \notin Users /\ Null \notin Nat
                        /\ \A e \in Envelopes : Addressee(e) \in Users \cup {NoUser}

VARIABLES
  internal,  \* the users the recipient port calls internal
  growth,    \* is a default digest configured
  clock,
  sub,       \* digest_subscriptions, per user
  event,     \* per envelope: is it still owed, and where is its handler
  links,     \* the tokens mailed so far
  click,     \* per request: the user whose token verified, or NoUser
  clerk,     \* per caller: the transition that passed its check, and the state it read
  moves,
  optedOut,  \* history: told "you will no longer receive this digest", and nobody
             \* who knew of that brought them back
  newer,     \* history: callers whose person was told so after their check
  overtaken, \* history: people brought back by one of those callers
  joins,     \* history: how often the person became subscribed
  facts      \* history: audit facts, auto-subscribed and unsubscribed

config == <<internal, growth>>
world  == <<config, clock, links, click, clerk, moves>>
told   == <<optedOut, newer, overtaken>>
vars   == <<config, clock, sub, event, links, click, clerk, moves, told, joins, facts>>

Times      == 0 .. MaxTime
Membership == [state   : {"none", "subscribed", "unsubscribed"},
               stamp   : Times \cup {Null},     \* unsubscribed_at
               deleted : BOOLEAN,               \* metadata.deleted_at is set
               auto    : BOOLEAN]               \* metadata.auto_subscribed
Verbs      == {"unsubscribe", "resubscribe"}
NoRow      == [state |-> "none", stamp |-> Null, deleted |-> FALSE, auto |-> FALSE]
Pending    == [user : Users \cup {NoUser}, verb : Verbs,
               read : {"none", "subscribed", "unsubscribed"}]
NoVerb     == [user |-> NoUser, verb |-> "unsubscribe", read |-> "none"]

TypeOK ==
  /\ internal \subseteq Users /\ growth \in BOOLEAN
  /\ clock \in Times
  /\ sub \in [Users -> Membership]
  /\ event \in [Envelopes -> [owed : BOOLEAN, at : {"idle", "resolving", "resolved"}]]
  /\ links \subseteq [user : Users, exp : Nat]
  /\ click \in [Clicks -> Users \cup {NoUser}]
  /\ clerk \in [Clerks -> Pending]
  /\ moves \in 0 .. MaxMoves
  /\ optedOut \subseteq Users /\ newer \subseteq Clerks /\ overtaken \subseteq Users
  /\ joins \in [Users -> Nat]
  /\ facts \in [Users -> [auto : Nat, unsub : Nat]]

\* What active_recipients selects.
Active(u) == sub[u].state = "subscribed" /\ ~sub[u].deleted

-----------------------------------------------------------------------------
(* Writing the row *)

Joins(u, new) == IF new.state = "subscribed" /\ sub[u].state # "subscribed"
                 THEN [joins EXCEPT ![u] = @ + 1] ELSE joins

Put(u, new) == sub' = [sub EXCEPT ![u] = new] /\ joins' = Joins(u, new)

\* A write of u's row by a verb, a transition or the generated CRUD.
Move(u, new) == moves < MaxMoves /\ moves' = moves + 1 /\ Put(u, new)

\* Somebody means u to be in, or forgets that u was ever out.
Welcome(u) == optedOut' = optedOut \ {u} /\ overtaken' = overtaken \ {u}

-----------------------------------------------------------------------------
(* The growth loop: user.created *)

\* An unreadable payload errs, and stays owed; with no default digest the
\* event is refused and acknowledged; otherwise the port is asked.
Deliver(e) ==
  /\ event[e].owed /\ event[e].at = "idle"
  /\ Addressee(e) # NoUser
  /\ event' = [event EXCEPT ![e] = IF growth THEN [@ EXCEPT !.at = "resolving"]
                                             ELSE [@ EXCEPT !.owed = FALSE]]
  /\ UNCHANGED <<world, sub, told, joins, facts>>

\* Variant: a delivery the port could not answer is acknowledged.
ResolveFailsAcked(e) ==
  /\ event[e].at = "resolving"
  /\ event' = [event EXCEPT ![e] = [owed |-> FALSE, at |-> "idle"]]
  /\ UNCHANGED <<world, sub, told, joins, facts>>

\* The port errs or is not wired: the delivery errs and stays owed.
ResolveFails(e) ==
  /\ event[e].at = "resolving"
  /\ event' = [event EXCEPT ![e].at = "idle"]
  /\ UNCHANGED <<world, sub, told, joins, facts>>

\* A person who is not internal is refused, and the event acknowledged.
Resolve(e) ==
  /\ event[e].at = "resolving"
  /\ event' = [event EXCEPT ![e] = IF Addressee(e) \in internal
                                   THEN [@ EXCEPT !.at = "resolved"]
                                   ELSE [owed |-> FALSE, at |-> "idle"]]
  /\ UNCHANGED <<world, sub, told, joins, facts>>

AutoMarked == [state |-> "subscribed", stamp |-> Null, deleted |-> FALSE, auto |-> TRUE]

\* Variant: ON CONFLICT DO UPDATE, the subscribe verb's clause.
AutoSubscribeUpserts(u) ==
  /\ Put(u, AutoMarked)
  /\ facts' = [facts EXCEPT ![u].auto = IF sub[u].state = "none" THEN @ + 1 ELSE @]

\* Variant: the audit fact is written whether or not a row was.
AutoSubscribeAlwaysAudits(u) ==
  /\ IF sub[u].state = "none" THEN Put(u, AutoMarked) ELSE UNCHANGED <<sub, joins>>
  /\ facts' = [facts EXCEPT ![u].auto = @ + 1]

\* INSERT ... ON CONFLICT DO NOTHING, and the audit fact on a first row only.
AutoSubscribe(u) ==
  IF sub[u].state = "none"
  THEN Put(u, AutoMarked) /\ facts' = [facts EXCEPT ![u].auto = @ + 1]
  ELSE UNCHANGED <<sub, joins, facts>>

Handle(e) ==
  /\ event[e].at = "resolved"
  /\ AutoSubscribe(Addressee(e))
  /\ event' = [event EXCEPT ![e] = [owed |-> FALSE, at |-> "idle"]]
  /\ UNCHANGED <<world, told>>

\* The insert errs: the relay redelivers.
HandleFails(e) ==
  /\ event[e].at = "resolved"
  /\ event' = [event EXCEPT ![e].at = "idle"]
  /\ UNCHANGED <<world, sub, told, joins, facts>>

\* At least once: a handled event may come again.
Redeliver(e) ==
  /\ ~event[e].owed
  /\ event' = [event EXCEPT ![e].owed = TRUE]
  /\ UNCHANGED <<world, sub, told, joins, facts>>

-----------------------------------------------------------------------------
(* The link in every mail *)

\* Rendering a recipient's mail mints a fresh token.
MailLink(u) ==
  /\ Active(u)
  /\ links' = links \cup {[user |-> u, exp |-> clock + TokenTTL]}
  /\ UNCHANGED <<config, clock, sub, event, click, clerk, moves, told, joins, facts>>

\* The verdict on a token this service minted.
Genuine(t, now) == IF now <= t.exp THEN "valid" ELSE "expired"

\* A POST of a genuine token: the verdict.  An expired one changes nothing.
Click(c, t) ==
  /\ click[c] = NoUser
  /\ Genuine(t, clock) = "valid"
  /\ click' = [click EXCEPT ![c] = t.user]
  /\ UNCHANGED <<config, clock, sub, event, links, clerk, moves, told, joins, facts>>

\* Variant: the UPDATE lost its state = 'subscribed' condition.
ApplyAgain(u) ==
  IF sub[u].state # "none" /\ ~sub[u].deleted
  THEN /\ Put(u, [sub[u] EXCEPT !.state = "unsubscribed", !.stamp = clock])
       /\ facts' = [facts EXCEPT ![u].unsub = @ + 1]
  ELSE UNCHANGED <<sub, joins, facts>>

Apply(u) ==
  IF Active(u)
  THEN /\ Put(u, [sub[u] EXCEPT !.state = "unsubscribed", !.stamp = clock])
       /\ facts' = [facts EXCEPT ![u].unsub = @ + 1]
  ELSE UNCHANGED <<sub, joins, facts>>

\* unsubscribe_by_token goes on to the idempotent UPDATE; either answer tells
\* the person that no more mail will come.  With no row (purged since the
\* mail) the answer is the same, but nothing is left to remember it.
ApplyClick(c) ==
  /\ click[c] # NoUser
  /\ Apply(click[c])
  /\ optedOut' = optedOut \cup {u \in {click[c]} : sub[u].state # "none"}
  /\ newer' = newer \cup {k \in Clerks : clerk[k].user = click[c]}
  /\ overtaken' = overtaken \ {click[c]}
  /\ click' = [click EXCEPT ![c] = NoUser]
  /\ UNCHANGED <<config, clock, event, links, clerk, moves>>

\* The UPDATE errs: the person is told to try again.
ClickFails(c) ==
  /\ click[c] # NoUser
  /\ click' = [click EXCEPT ![c] = NoUser]
  /\ UNCHANGED <<config, clock, sub, event, links, clerk, moves, told, joins, facts>>

-----------------------------------------------------------------------------
(* The verbs, the generated transitions and the generated CRUD *)

\* The upsert: any row, soft-deleted or not, becomes subscribed.
Subscribe(u) ==
  /\ Move(u, [state |-> "subscribed", stamp |-> Null, deleted |-> FALSE, auto |-> sub[u].auto])
  /\ Welcome(u)
  /\ UNCHANGED <<config, clock, event, links, click, clerk, newer, facts>>

Resubscribe(u) ==
  /\ sub[u].state = "unsubscribed" /\ ~sub[u].deleted
  /\ Move(u, [sub[u] EXCEPT !.state = "subscribed", !.stamp = Null])
  /\ Welcome(u)
  /\ UNCHANGED <<config, clock, event, links, click, clerk, newer, facts>>

Target(verb) == IF verb = "unsubscribe" THEN "unsubscribed" ELSE "subscribed"

\* Variant: the route does not ask the state machine.
AnyTransition(state, verb) == verb \in Verbs

can_transition(state, verb) == <<state, verb>> \in {<<"subscribed", "unsubscribe">>,
                                                    <<"unsubscribed", "resubscribe">>}

\* The generated route reads the row and asks the state machine ...
CheckTransition(k, u, verb) ==
  /\ clerk[k] = NoVerb
  /\ sub[u].state # "none" /\ ~sub[u].deleted
  /\ can_transition(sub[u].state, verb)
  /\ clerk' = [clerk EXCEPT ![k] = [user |-> u, verb |-> verb, read |-> sub[u].state]]
  /\ UNCHANGED <<config, clock, sub, event, links, click, moves, told, joins, facts>>

\* The caller asked for a person who was out to be brought back.
Asked(k) == clerk[k].verb = "resubscribe" /\ clerk[k].read = "unsubscribed"

\* ... and then writes the state field, and only it, to the row as it is by then,
\* which may have taken a newer opt-out since.
WriteTransition(k) ==
  LET u == clerk[k].user
  IN  /\ u # NoUser
      /\ clerk' = [clerk EXCEPT ![k] = NoVerb]
      /\ newer' = newer \ {k}
      /\ IF sub[u].deleted
         THEN UNCHANGED <<sub, joins, moves, optedOut, overtaken>>
         ELSE /\ Move(u, [sub[u] EXCEPT !.state = Target(clerk[k].verb)])
              /\ optedOut' = IF Asked(k) /\ k \notin newer THEN optedOut \ {u} ELSE optedOut
              /\ overtaken' = IF Asked(k) /\ k \in newer THEN overtaken \cup {u}
                                                         ELSE overtaken \ {u}
      /\ UNCHANGED <<config, clock, event, links, click, facts>>

Stamps == Times \cup {Null}

Created(stamp) == [state |-> "subscribed", stamp |-> stamp, deleted |-> FALSE, auto |-> FALSE]

\* POST: the row is subscribed, whatever unsubscribed_at the body names; an
\* existing row refuses it, the soft-deleted ones too.
CreateByRoute(u, stamp) ==
  /\ sub[u].state = "none"
  /\ Move(u, Created(stamp))
  /\ UNCHANGED <<config, clock, event, links, click, clerk, told, facts>>

Stamped(u, stamp) == [sub[u] EXCEPT !.stamp = stamp]

\* PUT and PATCH: a body that moves the state is refused (only its verbs move
\* it), so unsubscribed_at is what they write.
Update(u, stamp) ==
  /\ sub[u].state # "none" /\ ~sub[u].deleted
  /\ Move(u, Stamped(u, stamp))
  /\ UNCHANGED <<config, clock, event, links, click, clerk, told, facts>>

\* u's row goes, and what it remembers; a transition that was checked on it
\* finds no row of u any more.
Forget(u) ==
  /\ Move(u, NoRow)
  /\ Welcome(u)
  /\ newer' = {k \in newer : clerk[k].user # u}
  /\ facts' = [facts EXCEPT ![u].auto = 0]
  /\ clerk' = [k \in Clerks |-> IF clerk[k].user = u THEN NoVerb ELSE clerk[k]]
  /\ UNCHANGED <<config, clock, event, links, click>>

\* PUT and PATCH may name another person: the row leaves u with all it knows ...
Leave(u) ==
  /\ sub[u].state # "none" /\ ~sub[u].deleted
  /\ Forget(u)

\* ... and reaches u, if u has none.
Arrive(u, row) ==
  /\ sub[u].state = "none" /\ row.state # "none" /\ ~row.deleted
  /\ Move(u, row)
  /\ facts' = [facts EXCEPT ![u].auto = IF row.auto THEN 1 ELSE 0]
  /\ UNCHANGED <<config, clock, event, links, click, clerk, told>>

SoftDelete(u) ==
  /\ sub[u].state # "none" /\ ~sub[u].deleted
  /\ Move(u, [sub[u] EXCEPT !.deleted = TRUE])
  /\ UNCHANGED <<config, clock, event, links, click, clerk, told, facts>>

Restore(u) ==
  /\ sub[u].deleted
  /\ Move(u, [sub[u] EXCEPT !.deleted = FALSE])
  /\ IF sub[u].state = "subscribed" THEN Welcome(u) ELSE UNCHANGED <<optedOut, overtaken>>
  /\ UNCHANGED <<config, clock, event, links, click, clerk, newer, facts>>

\* Permanent deletion from the trash.
Purge(u) == sub[u].deleted /\ Forget(u)

Tick ==
  /\ clock < MaxTime
  /\ clock' = clock + 1
  /\ UNCHANGED <<config, sub, event, links, click, clerk, moves, told, joins, facts>>

-----------------------------------------------------------------------------
Init ==
  /\ internal \in SUBSET Users /\ growth \in BOOLEAN
  /\ clock = 0
  /\ sub = [u \in Users |-> NoRow]
  /\ event = [e \in Envelopes |-> [owed |-> TRUE, at |-> "idle"]]
  /\ links = {}
  /\ click = [c \in Clicks |-> NoUser]
  /\ clerk = [k \in Clerks |-> NoVerb]
  /\ moves = 0
  /\ optedOut = {} /\ newer = {} /\ overtaken = {}
  /\ joins = [u \in Users |-> 0]
  /\ facts = [u \in Users |-> [auto |-> 0, unsub |-> 0]]

Next ==
  \/ Tick
  \/ \E e \in Envelopes : \/ Deliver(e) \/ Resolve(e) \/ ResolveFails(e)
                          \/ Handle(e) \/ HandleFails(e) \/ Redeliver(e)
  \/ \E u \in Users : \/ MailLink(u) \/ Subscribe(u) \/ Resubscribe(u)
                      \/ \E stamp \in Stamps : CreateByRoute(u, stamp) \/ Update(u, stamp)
                      \/ Leave(u) \/ \E row \in Membership : Arrive(u, row)
                      \/ SoftDelete(u) \/ Restore(u) \/ Purge(u)
  \/ \E c \in Clicks : \/ \E t \in links : Click(c, t)
                       \/ ApplyClick(c) \/ ClickFails(c)
  \/ \E k \in Clerks : \/ \E u \in Users, verb \in Verbs : CheckTransition(k, u, verb)
                       \/ WriteTransition(k)

\* The relay redelivers what it owes; the port and the insert do not fail
\* for ever; a request that verified goes on to its UPDATE or its error.
Fairness ==
  /\ \A e \in Envelopes : WF_vars(Deliver(e)) /\ SF_vars(Resolve(e)) /\ SF_vars(Handle(e))
  /\ \A c \in Clicks : WF_vars(ApplyClick(c) \/ ClickFails(c))

Spec     == Init /\ [][Next]_vars
FairSpec == Spec /\ Fairness

-----------------------------------------------------------------------------
(* Properties *)

\* Who was told that no more mail will come is a recipient again only by a
\* verb that says so, a restore of the row they left, or a purge or gift of the
\* row that remembers it; by no redelivered event, repeated click, update of
\* another field or transition asked for while they were in.  One stale write
\* does it in the code, and is named here: a resubscribe transition checked
\* while they were out, and written after a later click told them again.
OptOutSticks == \A u \in optedOut : Active(u) => u \in overtaken

\* However often user.created is delivered, a membership is announced as
\* auto-subscribed once, and one that was not created by the loop never.
AnnouncedOnce == \A u \in Users :
  /\ facts[u].auto <= 1
  /\ facts[u].auto = 1 <=> sub[u].auto

\* Concurrent clicks on one link leave one digest_unsubscribed fact: there
\* are never more of them than times the person joined.
OneFactPerMembership == \A u \in Users : facts[u].unsub <= joins[u]

\* A row that stays unsubscribed keeps the moment it became so, unless somebody
\* writes that very field: a repeated POST never re-stamps unsubscribed_at.
NeverRestamped == [][\A u \in Users :
    /\ sub[u].state = "unsubscribed" /\ sub'[u].state = "unsubscribed"
    => sub'[u].stamp = sub[u].stamp \/ \E stamp \in Stamps : Update(u, stamp)]_vars

\* Every internal person whose user.created the relay owes gets a membership,
\* however the port and the database stumble.
NewcomerJoins == \A e \in {e \in Envelopes : Addressee(e) # NoUser} :
  (Addressee(e) \in internal /\ growth) => <>(sub[Addressee(e)].state # "none")
=============================================================================
