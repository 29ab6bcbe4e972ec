-------------------------- MODULE DigestDeliverProofs --------------------------
(* What any number of overlapping sends leave behind, whatever fails in them  *)
(* and whatever people, tips, gates, KPIs and fences there are.               *)
EXTENDS DigestDeliver, FiniteSetTheorems, TLAPS

Mail == [tip : Tips \cup {NoTip}, notice : BOOLEAN]

\* The tips that the mails of a sequence carried.
Carried(s) == {s[i].tip : i \in DOMAIN s}

Passes(u, t) == t # NoTip => Gate(t) \in GroupsOf(u) \cup {NoGate}

\* A key that is not off is shown exactly when its fence lets it.
Declared(c) == \A k \in c.keys \ c.off :
  k \in c.shown <=> CASE Fence(k) = "shared"  -> TRUE
                      [] Fence(k) = "company" -> c.company # NoCompany
                      [] OTHER                -> c.company = Fence(k)

\* What the local state c of a call owes to the mails ms sent so far: a call
\* that began before the first mail still carries the notice, and one past the
\* enqueue finds its mail there.
CallOK(c, ms) ==
  /\ c.pc # "idle" => c.user \in Users
  /\ c.pc # "idle" /\ c.user \in AutoSubscribed /\ ms[c.user] = <<>> => c.first
  /\ c.pc \in {"enqueue", "mark", "stamp"} => Passes(c.user, c.tip)
  /\ c.pc \in {"mark", "stamp"} => /\ c.sent /\ ms[c.user] # <<>>
                                   /\ c.tip \in Carried(ms[c.user])
  /\ c.pc = "tip" => Declared(c)

\* What a person's mails s owe to the stamp and the markers.
PersonOK(u, s, warned, marks) ==
  /\ warned => s # <<>>
  /\ u \in AutoSubscribed /\ s # <<>> => s[1].notice
  /\ \A t \in Tips : marks[t] # "absent" => t \in Carried(s)
  /\ \A t \in Carried(s) : Passes(u, t)

DeliverInv ==
  /\ TypeOK
  /\ \A j \in Senders : CallOK(job[j], mails)
  /\ \A u \in Users : PersonOK(u, mails[u], stamped[u], marker[u])

-----------------------------------------------------------------------------
(* Operators *)

LEMMA IdleTyped == Idle \in Job /\ Idle.pc = "idle"
BY DEF Idle, Job

\* A carousel is never at a loss among tips that are open.
LEMMA FirstOfTyped == ASSUME NEW S \in SUBSET Tips PROVE FirstOf(S) \in S \cup {NoTip}
<1>1. CASE S = {}
  BY <1>1 DEF FirstOf
<1>2. CASE S # {}
  <2>1. S \subseteq Nat
    BY DEF Tips
  <2>2. PICK t \in S : \A s \in S : ~(<<s, t>> \in OpToRel(<, Nat))
    BY <1>2, <2>1, NatLessThanWellFounded, WFMin
  <2>3. \A s \in S : ~(s < t)
    BY <2>1, <2>2 DEF OpToRel
  <2>4. \E r \in S : \A s \in S : r <= s
    BY <2>1, <2>3
  <2>5. QED
    BY <1>2, <2>4 DEF FirstOf
<1>3. QED
  BY <1>1, <1>2

\* The picked tip passes the gate, a port that does not answer giving no keys.
LEMMA PickedPasses ==
  ASSUME NEW u \in Users, NEW answered \in BOOLEAN
  PROVE  LET t == FirstOf(Eligible(u, Held(u, answered)))
         IN  t \in Tips \cup {NoTip} /\ Passes(u, t)
<1> DEFINE S == Eligible(u, Held(u, answered))
<1>1. S \in SUBSET Tips /\ \A t \in S : Gate(t) \in GroupsOf(u) \cup {NoGate}
  BY DEF Eligible, Held
<1>2. FirstOf(S) \in S \cup {NoTip}
  BY <1>1, FirstOfTyped
<1>3. QED
  BY <1>1, <1>2 DEF Passes

\* One mail more.
LEMMA CarriedAppend ==
  ASSUME NEW s \in Seq(Mail), NEW m \in Mail
  PROVE  /\ Append(s, m) \in Seq(Mail) /\ Append(s, m) # <<>>
         /\ Carried(Append(s, m)) = Carried(s) \cup {m.tip}
         /\ s # <<>> => Append(s, m)[1] = s[1]
         /\ s = <<>> => Append(s, m)[1] = m
<1> DEFINE r == Append(s, m)
<1>1. /\ r \in Seq(Mail) /\ Len(r) = Len(s) + 1 /\ Len(s) \in Nat
      /\ DOMAIN s = 1 .. Len(s) /\ DOMAIN r = 1 .. (Len(s) + 1)
      /\ \A i \in 1 .. Len(s) : r[i] = s[i]
      /\ r[Len(s) + 1] = m
  OBVIOUS
<1>2. Carried(r) = Carried(s) \cup {m.tip}
  <2>1. ASSUME NEW t \in Carried(r) PROVE t \in Carried(s) \cup {m.tip}
    <3>1. PICK i \in 1 .. (Len(s) + 1) : t = r[i].tip
      BY <1>1 DEF Carried
    <3>2. i \in 1 .. Len(s) \/ i = Len(s) + 1
      BY <1>1
    <3>3. QED
      BY <1>1, <3>1, <3>2 DEF Carried
  <2>2. ASSUME NEW t \in Carried(s) PROVE t \in Carried(r)
    <3>1. PICK i \in 1 .. Len(s) : t = s[i].tip
      BY <1>1 DEF Carried
    <3>2. i \in DOMAIN r /\ r[i].tip = t
      BY <1>1, <3>1
    <3>3. QED
      BY <3>2 DEF Carried
  <2>3. Len(s) + 1 \in DOMAIN r
    BY <1>1
  <2>4. m.tip \in Carried(r)
    BY <1>1, <2>3 DEF Carried
  <2>5. QED
    BY <2>1, <2>2, <2>4
<1>3. r # <<>>
  BY <1>1
<1>4. s # <<>> => r[1] = s[1]
  <2>1. s # <<>> => 1 \in 1 .. Len(s)
    BY <1>1
  <2>2. QED
    BY <1>1, <2>1
<1>5. s = <<>> => r[1] = m
  BY <1>1
<1>6. QED
  BY <1>1, <1>2, <1>3, <1>4, <1>5

-----------------------------------------------------------------------------
(* Steps *)

LEMMA InitInv == Init => DeliverInv
<1> SUFFICES ASSUME Init PROVE DeliverInv
  OBVIOUS
<1>1. TypeOK
  BY DeliverNat, IdleTyped DEF Init, TypeOK, RowStates
<1>2. ASSUME NEW j \in Senders PROVE CallOK(job[j], mails)
  BY IdleTyped DEF Init, CallOK
<1>3. ASSUME NEW u \in Users PROVE PersonOK(u, mails[u], stamped[u], marker[u])
  BY DEF Init, PersonOK, Carried
<1>4. QED
  BY <1>1, <1>2, <1>3 DEF DeliverInv, Init

\* A call moves to the state new; no mail is sent.
LEMMA CallStep ==
  ASSUME DeliverInv, NEW j \in Senders, NEW new \in Job,
         job' = [job EXCEPT ![j] = new], CallOK(new, mails),
         UNCHANGED <<wired, company, kpi, mails, edits>>,
         stamped' \in [Users -> BOOLEAN],
         marker' \in [Users -> [Tips -> RowStates]],
         \A u \in Users : PersonOK(u, mails[u], stamped'[u], marker'[u]),
         unmarked' \subseteq (Users \X Tips),
         ended' \in [enqueued : BOOLEAN, ok : BOOLEAN]
  PROVE  DeliverInv'
<1>1. job \in [Senders -> Job]
  BY DEF DeliverInv, TypeOK
<1>2. job' \in [Senders -> Job] /\ job'[j] = new /\ \A i \in Senders \ {j} : job'[i] = job[i]
  BY <1>1
<1>3. TypeOK'
  BY <1>2 DEF DeliverInv, TypeOK
<1>4. ASSUME NEW i \in Senders PROVE CallOK(job'[i], mails')
  <2>1. CASE i = j
    BY <1>2, <2>1
  <2>2. CASE i # j
    BY <1>2, <2>2 DEF DeliverInv
  <2>3. QED
    BY <2>1, <2>2
<1>5. \A u \in Users : PersonOK(u, mails'[u], stamped'[u], marker'[u])
  OBVIOUS
<1>6. QED
  BY <1>3, <1>4, <1>5 DEF DeliverInv

\* A call that only moves on.
LEMMA LocalStep ==
  ASSUME DeliverInv, NEW j \in Senders, NEW new \in Job,
         job' = [job EXCEPT ![j] = new], CallOK(new, mails),
         UNCHANGED <<world, marker, mails>>,
         unmarked' \subseteq (Users \X Tips),
         ended' \in [enqueued : BOOLEAN, ok : BOOLEAN]
  PROVE  DeliverInv'
<1>1. /\ stamped' = stamped /\ marker' = marker
      /\ stamped \in [Users -> BOOLEAN]
      /\ marker \in [Users -> [Tips -> RowStates]]
  BY DEF DeliverInv, TypeOK, world
<1>2. \A u \in Users : PersonOK(u, mails[u], stamped'[u], marker'[u])
  BY <1>1 DEF DeliverInv
<1>3. UNCHANGED <<wired, company, kpi, mails, edits>>
  BY DEF world
<1>4. QED
  BY <1>1, <1>2, <1>3, CallStep

\* The call is over.
LEMMA EndStep ==
  ASSUME DeliverInv, NEW j \in Senders, job' = [job EXCEPT ![j] = Idle],
         UNCHANGED <<world, marker, mails>>,
         unmarked' \subseteq (Users \X Tips),
         ended' \in [enqueued : BOOLEAN, ok : BOOLEAN]
  PROVE  DeliverInv'
<1>1. CallOK(Idle, mails)
  BY IdleTyped DEF CallOK
<1>2. QED
  BY <1>1, IdleTyped, LocalStep

LEMMA EndedTyped == DeliverInv => /\ ended \in [enqueued : BOOLEAN, ok : BOOLEAN]
                                  /\ unmarked \subseteq (Users \X Tips)
BY DEF DeliverInv, TypeOK

LEMMA BeginInv == ASSUME DeliverInv, NEW j \in Senders, NEW u \in Users, Begin(j, u) PROVE DeliverInv'
<1> DEFINE new == [Idle EXCEPT !.pc = "resolve", !.user = u,
                               !.first = u \in AutoSubscribed /\ ~stamped[u]]
<1>1. /\ job' = [job EXCEPT ![j] = new] /\ UNCHANGED <<world, marker, mails, unmarked, ended>>
  BY DEF Begin
<1>2. new \in Job /\ new.pc = "resolve" /\ new.user = u
      /\ (u \in AutoSubscribed /\ ~stamped[u] => new.first)
  BY DEF Idle, Job
<1>3. mails[u] = <<>> => ~stamped[u]
  BY DEF DeliverInv, PersonOK
<1>4. CallOK(new, mails)
  <2> HIDE DEF new
  <2>1. QED
    BY <1>2, <1>3 DEF CallOK
<1> HIDE DEF new
<1>5. QED
  BY <1>1, <1>2, <1>4, EndedTyped, LocalStep

LEMMA ResolveInv == ASSUME DeliverInv, NEW j \in Senders, Resolve(j) PROVE DeliverInv'
<1> DEFINE new == [job[j] EXCEPT !.pc = "keys", !.company = company[job[j].user]]
<1>1. /\ job[j] \in Job /\ job[j].pc = "resolve" /\ CallOK(job[j], mails)
      /\ company \in [Users -> Companies \cup {NoCompany}]
  BY DEF DeliverInv, TypeOK, Resolve
<1>2. job[j].user \in Users
  BY <1>1 DEF CallOK
<1>3. new \in Job /\ new.pc = "keys" /\ new.user = job[j].user /\ new.first = job[j].first
  BY <1>1, <1>2 DEF Job
<1>4. job' = [job EXCEPT ![j] = new] /\ UNCHANGED <<world, marker, mails, unmarked, ended>>
  BY DEF Resolve
<1> HIDE DEF new
<1>5. CallOK(new, mails)
  BY <1>1, <1>3 DEF CallOK
<1>6. QED
  BY <1>3, <1>4, <1>5, EndedTyped, LocalStep

LEMMA ReadKeysInv == ASSUME DeliverInv, NEW j \in Senders, ReadKeys(j) PROVE DeliverInv'
<1> DEFINE new == [job[j] EXCEPT !.pc = "compute", !.keys = {k \in Keys : kpi[k] = "live"}]
<1>1. /\ job[j] \in Job /\ job[j].pc = "keys" /\ CallOK(job[j], mails)
  BY DEF DeliverInv, TypeOK, ReadKeys
<1>2. new \in Job /\ new.pc = "compute" /\ new.user = job[j].user /\ new.first = job[j].first
  BY <1>1 DEF Job
<1>3. job' = [job EXCEPT ![j] = new] /\ UNCHANGED <<world, marker, mails, unmarked, ended>>
  BY DEF ReadKeys
<1> HIDE DEF new
<1>4. CallOK(new, mails)
  BY <1>1, <1>2 DEF CallOK
<1>5. QED
  BY <1>2, <1>3, <1>4, EndedTyped, LocalStep

LEMMA ComputeInv == ASSUME DeliverInv, NEW j \in Senders, Compute(j) PROVE DeliverInv'
<1>1. PICK source \in [InFence(j) -> {"rows", "zero", "unavailable"}] :
        job' = [job EXCEPT ![j].pc = "tip",
                  ![j].shown = Shown(source),
                  ![j].off   = {k \in InFence(j) : source[k] = "unavailable"}
                                 \cup {k \in job[j].keys : ~Registered(k)}]
  BY DEF Compute
<1> DEFINE off == {k \in InFence(j) : source[k] = "unavailable"}
                    \cup {k \in job[j].keys : ~Registered(k)}
           new == [job[j] EXCEPT !.pc = "tip", !.shown = Shown(source), !.off = off]
<1>2. /\ job[j] \in Job /\ job[j].pc = "compute" /\ CallOK(job[j], mails)
      /\ job[j].keys \subseteq Keys
  BY DEF DeliverInv, TypeOK, Compute, Job
<1>3. InFence(j) \subseteq job[j].keys /\ Shown(source) \subseteq InFence(j)
  BY DEF InFence, Shown
<1>4. /\ new \in Job /\ new.pc = "tip" /\ new.user = job[j].user /\ new.first = job[j].first
      /\ new.keys = job[j].keys /\ new.company = job[j].company
      /\ new.shown = Shown(source) /\ new.off = off
  BY <1>2, <1>3 DEF Job
<1>5. job' = [job EXCEPT ![j] = new] /\ UNCHANGED <<world, marker, mails, unmarked, ended>>
  <2>1. UNCHANGED <<world, marker, mails, unmarked, ended>>
    BY DEF Compute
  <2>2. job' = [job EXCEPT ![j] = new]
    BY <1>1
  <2>3. QED
    BY <2>1, <2>2
<1>6. Declared(new)
  <2> SUFFICES ASSUME NEW k \in job[j].keys \ off
               PROVE  k \in Shown(source) <=>
                        CASE Fence(k) = "shared"  -> TRUE
                          [] Fence(k) = "company" -> job[j].company # NoCompany
                          [] OTHER                -> job[j].company = Fence(k)
    <3> HIDE DEF new, off
    <3>1. QED
      BY <1>4 DEF Declared
  <2>1. k \in Shown(source) <=> k \in InFence(j)
    BY DEF Shown
  <2>2. k \in InFence(j) <=> RendersFor(k, job[j].company)
    BY DEF InFence
  <2>3. Fence(k) # NoCompany
    BY <1>2, DeliverFences
  <2>4. QED
    BY <2>1, <2>2, <2>3 DEF RendersFor
<1> HIDE DEF new, off
<1>7. CallOK(new, mails)
  BY <1>2, <1>4, <1>6 DEF CallOK
<1>8. QED
  BY <1>4, <1>5, <1>7, EndedTyped, LocalStep

LEMMA PickTipInv == ASSUME DeliverInv, NEW j \in Senders, PickTip(j) PROVE DeliverInv'
<1> DEFINE u == job[j].user
<1>1. /\ job[j] \in Job /\ job[j].pc = "tip" /\ CallOK(job[j], mails) /\ wired \in BOOLEAN
  BY DEF DeliverInv, TypeOK, PickTip
<1>2. u \in Users
  BY <1>1 DEF CallOK
<1>3. PICK answered \in BOOLEAN :
        job' = [job EXCEPT ![j] =
                 [Idle EXCEPT !.pc = "enqueue", !.user = u, !.first = job[j].first,
                              !.tip = FirstOf(Eligible(u, Held(u, answered)))]]
  BY <1>1 DEF PickTip
<1> DEFINE t == FirstOf(Eligible(u, Held(u, answered)))
           new == [Idle EXCEPT !.pc = "enqueue", !.user = u, !.first = job[j].first, !.tip = t]
<1>4. t \in Tips \cup {NoTip} /\ Passes(u, t)
  BY <1>2, PickedPasses
<1>5. job' = [job EXCEPT ![j] = new] /\ UNCHANGED <<world, marker, mails, unmarked, ended>>
  BY <1>3 DEF PickTip
<1> HIDE DEF t
<1>6. new \in Job /\ new.pc = "enqueue" /\ new.user = u /\ new.first = job[j].first /\ new.tip = t
  BY <1>1, <1>2, <1>4 DEF Idle, Job
<1> HIDE DEF new
<1>7. CallOK(new, mails)
  BY <1>1, <1>4, <1>6 DEF CallOK
<1>8. QED
  BY <1>5, <1>6, <1>7, EndedTyped, LocalStep

\* One mail is queued: what calls and people owe to mails they owe to more.
LEMMA EnqueueInv == ASSUME DeliverInv, NEW j \in Senders, Enqueue(j) PROVE DeliverInv'
<1> DEFINE u == job[j].user
           m == [tip |-> job[j].tip, notice |-> job[j].first]
           new == [job[j] EXCEPT !.pc = "mark", !.sent = TRUE]
<1>1. /\ job \in [Senders -> Job] /\ job[j] \in Job /\ job[j].pc = "enqueue"
      /\ CallOK(job[j], mails) /\ mails \in [Users -> Seq(Mail)]
  BY DEF DeliverInv, TypeOK, Enqueue, Mail
<1>2. u \in Users /\ Passes(u, job[j].tip) /\ m \in Mail
  BY <1>1 DEF CallOK, Job, Mail
<1>3. /\ mails' = [mails EXCEPT ![u] = Append(mails[u], m)]
      /\ job' = [job EXCEPT ![j] = new]
      /\ UNCHANGED <<world, marker, unmarked, ended>>
  BY DEF Enqueue
<1>4. /\ Append(mails[u], m) \in Seq(Mail) /\ Append(mails[u], m) # <<>>
      /\ Carried(Append(mails[u], m)) = Carried(mails[u]) \cup {m.tip}
      /\ mails[u] # <<>> => Append(mails[u], m)[1] = mails[u][1]
      /\ mails[u] = <<>> => Append(mails[u], m)[1] = m
  BY <1>1, <1>2, CarriedAppend
<1>5. /\ mails' \in [Users -> Seq(Mail)] /\ mails'[u] = Append(mails[u], m)
      /\ \A v \in Users : v # u => mails'[v] = mails[v]
  BY <1>1, <1>2, <1>3, <1>4
<1>6. new \in Job /\ new.pc = "mark" /\ new.user = u /\ new.tip = job[j].tip /\ new.sent
      /\ new.first = job[j].first
  BY <1>1 DEF Job
<1>7. TypeOK'
  <2>1. job' \in [Senders -> Job]
    BY <1>1, <1>3, <1>6
  <2>2. QED
    BY <1>3, <1>5, <2>1 DEF DeliverInv, TypeOK, world, Mail
<1>8. \A v \in Users : /\ Carried(mails[v]) \subseteq Carried(mails'[v])
                       /\ mails[v] # <<>> => mails'[v] # <<>>
  <2>1. /\ Carried(mails[u]) \subseteq Carried(mails'[u])
        /\ mails[u] # <<>> => mails'[u] # <<>>
    BY <1>4, <1>5
  <2>2. QED
    BY <1>5, <2>1
<1> HIDE DEF new, m, u
<1>9. ASSUME NEW i \in Senders PROVE CallOK(job'[i], mails')
  <2>1. CASE i = j
    <3>1. job'[i] = new
      BY <1>1, <1>3, <2>1
    <3>2. mails'[u] # <<>> /\ job[j].tip \in Carried(mails'[u])
      BY <1>4, <1>5 DEF m
    <3>3. QED
      BY <1>2, <1>6, <3>1, <3>2 DEF CallOK
  <2>2. CASE i # j
    <3>1. job'[i] = job[i] /\ CallOK(job[i], mails)
      BY <1>1, <1>3, <2>2 DEF DeliverInv
    <3>2. CASE job[i].pc = "idle"
      BY <3>1, <3>2 DEF CallOK
    <3>3. CASE job[i].pc # "idle"
      <4>1. job[i].user \in Users
        BY <3>1, <3>3 DEF CallOK
      <4>2. /\ Carried(mails[job[i].user]) \subseteq Carried(mails'[job[i].user])
            /\ mails[job[i].user] # <<>> => mails'[job[i].user] # <<>>
        BY <1>8, <4>1
      <4>3. QED
        BY <3>1, <4>1, <4>2 DEF CallOK
    <3>4. QED
      BY <3>2, <3>3
  <2>3. QED
    BY <2>1, <2>2
<1>10. ASSUME NEW v \in Users PROVE PersonOK(v, mails'[v], stamped'[v], marker'[v])
  <2>1. stamped' = stamped /\ marker' = marker /\ PersonOK(v, mails[v], stamped[v], marker[v])
    BY <1>3 DEF world, DeliverInv
  <2>2. CASE v # u
    BY <1>5, <2>1, <2>2
  <2>3. CASE v = u
    <3>1. u \in AutoSubscribed => mails'[u][1].notice
      <4>1. CASE mails[u] = <<>>
        <5>1. u \in AutoSubscribed => job[j].first
          BY <1>1, <1>2, <4>1 DEF CallOK, u
        <5>2. mails'[u][1].notice = job[j].first
          BY <1>4, <1>5, <4>1 DEF m
        <5>3. QED
          BY <5>1, <5>2
      <4>2. CASE mails[u] # <<>>
        BY <1>4, <1>5, <2>1, <2>3, <4>2 DEF PersonOK
      <4>3. QED
        BY <4>1, <4>2
    <3>2. \A t \in Carried(mails'[u]) : Passes(u, t)
      BY <1>2, <1>4, <1>5, <2>1, <2>3 DEF PersonOK, m
    <3>3. QED
      BY <1>4, <1>5, <1>8, <2>1, <2>3, <3>1, <3>2 DEF PersonOK
  <2>4. QED
    BY <2>2, <2>3
<1>11. QED
  BY <1>3, <1>7, <1>9, <1>10 DEF DeliverInv

\* The marker is for the tip of a mail that is there.
LEMMA MarkTipInv == ASSUME DeliverInv, NEW j \in Senders, MarkTip(j) PROVE DeliverInv'
<1> DEFINE u == job[j].user
           t == job[j].tip
           new == [job[j] EXCEPT !.pc = "stamp"]
<1>1. /\ job[j] \in Job /\ job[j].pc = "mark" /\ CallOK(job[j], mails)
      /\ marker \in [Users -> [Tips -> RowStates]]
  BY DEF DeliverInv, TypeOK, MarkTip
<1>2. u \in Users /\ t \in Carried(mails[u]) /\ t \in Tips \cup {NoTip}
  BY <1>1 DEF CallOK, Job
<1>3. /\ marker' = IF t # NoTip /\ marker[u][t] = "absent"
                   THEN [marker EXCEPT ![u][t] = "live"] ELSE marker
      /\ job' = [job EXCEPT ![j] = new]
      /\ UNCHANGED <<world, mails, unmarked, ended>>
  BY DEF MarkTip
<1>4. new \in Job /\ new.pc = "stamp" /\ new.user = u /\ new.tip = t /\ new.sent = job[j].sent
      /\ new.first = job[j].first
  BY <1>1 DEF Job
<1>5. marker' \in [Users -> [Tips -> RowStates]]
  BY <1>1, <1>2, <1>3 DEF RowStates
<1>6. \A v \in Users, s \in Tips :
        marker'[v][s] # "absent" => marker[v][s] # "absent" \/ (v = u /\ s = t)
  <2>1. CASE t # NoTip /\ marker[u][t] = "absent"
    <3>1. t \in Tips /\ marker' = [marker EXCEPT ![u] = [marker[u] EXCEPT ![t] = "live"]]
      BY <1>2, <1>3, <2>1
    <3>2. QED
      BY <1>1, <1>2, <3>1
  <2>2. CASE ~(t # NoTip /\ marker[u][t] = "absent")
    BY <1>3, <2>2
  <2>3. QED
    BY <2>1, <2>2
<1> HIDE DEF new, u, t
<1>7. ASSUME NEW v \in Users PROVE PersonOK(v, mails[v], stamped'[v], marker'[v])
  <2>1. stamped' = stamped /\ PersonOK(v, mails[v], stamped[v], marker[v])
    BY <1>3 DEF world, DeliverInv
  <2>2. QED
    BY <1>2, <1>6, <2>1 DEF PersonOK
<1>8. CallOK(new, mails)
  BY <1>1, <1>4 DEF CallOK, u, t
<1>9. stamped' \in [Users -> BOOLEAN] /\ UNCHANGED <<wired, company, kpi, mails, edits>>
  BY <1>3 DEF world, DeliverInv, TypeOK
<1>10. QED
  BY <1>3, <1>4, <1>5, <1>7, <1>8, <1>9, EndedTyped, CallStep

\* The stamp is for a person whose mail is there.
LEMMA StampInv == ASSUME DeliverInv, NEW j \in Senders, Stamp(j) PROVE DeliverInv'
<1> DEFINE u == job[j].user
<1>1. /\ job[j] \in Job /\ job[j].pc = "stamp" /\ CallOK(job[j], mails)
      /\ marker \in [Users -> [Tips -> RowStates]] /\ stamped \in [Users -> BOOLEAN]
  BY DEF DeliverInv, TypeOK, Stamp
<1>2. u \in Users /\ job[j].sent /\ mails[u] # <<>> /\ job[j].sent \in BOOLEAN
  BY <1>1 DEF CallOK, Job
<1>3. /\ stamped' = [stamped EXCEPT ![u] = stamped[u] \/ job[j].first]
      /\ job' = [job EXCEPT ![j] = Idle]
      /\ ended' = [enqueued |-> job[j].sent, ok |-> TRUE]
      /\ UNCHANGED <<wired, company, kpi, marker, mails, edits, unmarked>>
  BY DEF Stamp
<1>4. stamped' \in [Users -> BOOLEAN] /\ \A v \in Users : v # u => stamped'[v] = stamped[v]
  <2>1. (stamped[u] \/ job[j].first) \in BOOLEAN
    OBVIOUS
  <2>2. QED
    BY <1>1, <1>3, <2>1, Zenon
<1>5. ASSUME NEW v \in Users PROVE PersonOK(v, mails[v], stamped'[v], marker'[v])
  <2>1. marker' = marker /\ PersonOK(v, mails[v], stamped[v], marker[v])
    BY <1>3 DEF DeliverInv
  <2>2. CASE v = u
    BY <1>2, <2>1, <2>2 DEF PersonOK
  <2>3. CASE v # u
    BY <1>4, <2>1, <2>3
  <2>4. QED
    BY <2>2, <2>3
<1>6. CallOK(Idle, mails)
  BY IdleTyped DEF CallOK
<1>7. ended' \in [enqueued : BOOLEAN, ok : BOOLEAN]
  BY <1>2, <1>3
<1>8. marker' \in [Users -> [Tips -> RowStates]] /\ unmarked' \subseteq (Users \X Tips)
  BY <1>1, <1>3, EndedTyped
<1>9. QED
  BY <1>3, <1>4, <1>5, <1>6, <1>7, <1>8, IdleTyped, CallStep

LEMMA FailuresInv ==
  ASSUME DeliverInv, NEW j \in Senders, RenderFails(j) \/ EnqueueFails(j) \/ MarkingFails(j)
  PROVE  DeliverInv'
<1>1. CASE RenderFails(j) \/ EnqueueFails(j)
  <2>1. /\ job' = [job EXCEPT ![j] = Idle] /\ ended' = [enqueued |-> FALSE, ok |-> FALSE]
        /\ UNCHANGED <<world, marker, mails, unmarked>>
    BY <1>1 DEF RenderFails, EnqueueFails
  <2>2. ended' \in [enqueued : BOOLEAN, ok : BOOLEAN]
    BY <2>1
  <2>3. QED
    BY <2>1, <2>2, EndedTyped, EndStep
<1>2. CASE MarkingFails(j)
  <2>1. job[j] \in Job /\ CallOK(job[j], mails) /\ job[j].pc \in {"mark", "stamp"}
    BY <1>2 DEF DeliverInv, TypeOK, MarkingFails
  <2>2. /\ job[j].user \in Users /\ job[j].sent \in BOOLEAN
        /\ job[j].tip # NoTip => job[j].tip \in Tips
    BY <2>1 DEF CallOK, Job
  <2>3. /\ job' = [job EXCEPT ![j] = Idle]
        /\ ended' = [enqueued |-> job[j].sent, ok |-> FALSE]
        /\ unmarked' = IF job[j].pc = "mark" /\ job[j].tip # NoTip
                       THEN unmarked \cup {<<job[j].user, job[j].tip>>} ELSE unmarked
        /\ UNCHANGED <<world, marker, mails>>
    BY <1>2 DEF MarkingFails
  <2>4. ended' \in [enqueued : BOOLEAN, ok : BOOLEAN]
    BY <2>2, <2>3
  <2>5. unmarked' \subseteq (Users \X Tips)
    BY <2>2, <2>3, EndedTyped
  <2>6. QED
    BY <2>3, <2>4, <2>5, EndStep
<1>3. QED
  BY <1>1, <1>2

\* What happens around the sends: no marker appears, no call and no mail moves.
LEMMA AroundStep ==
  ASSUME DeliverInv, UNCHANGED <<stamped, job, mails, ended>>,
         wired' \in BOOLEAN, company' \in [Users -> Companies \cup {NoCompany}],
         kpi' \in [Keys -> RowStates], marker' \in [Users -> [Tips -> RowStates]],
         edits' \in 0 .. MaxEdits, unmarked' \subseteq (Users \X Tips),
         \A u \in Users, t \in Tips : marker'[u][t] # "absent" => marker[u][t] # "absent"
  PROVE  DeliverInv'
<1>1. TypeOK'
  BY DEF DeliverInv, TypeOK
<1>2. ASSUME NEW u \in Users PROVE PersonOK(u, mails[u], stamped[u], marker'[u])
  BY DEF DeliverInv, PersonOK
<1>3. QED
  BY <1>1, <1>2 DEF DeliverInv

LEMMA AroundInv ==
  ASSUME DeliverInv,
         \/ InstallPort
         \/ \E u \in Users : \/ \E c \in Companies \cup {NoCompany} : MoveCompany(u, c)
                             \/ \E t \in Tips : TrashMarker(u, t)
         \/ \E k \in Keys : EnableKpi(k) \/ DisableKpi(k) \/ TrashKpi(k)
  PROVE  DeliverInv'
<1>1. /\ wired \in BOOLEAN /\ company \in [Users -> Companies \cup {NoCompany}]
      /\ kpi \in [Keys -> RowStates] /\ marker \in [Users -> [Tips -> RowStates]]
      /\ edits \in 0 .. MaxEdits /\ unmarked \subseteq (Users \X Tips)
  BY DEF DeliverInv, TypeOK
<1>2. Edit => edits' \in 0 .. MaxEdits
  BY <1>1, DeliverNat DEF Edit
<1>3. CASE InstallPort
  BY <1>1, <1>3, AroundStep DEF InstallPort
<1>4. ASSUME NEW u \in Users, NEW c \in Companies \cup {NoCompany}, MoveCompany(u, c)
      PROVE  DeliverInv'
  <2>1. company' \in [Users -> Companies \cup {NoCompany}]
    BY <1>1, <1>4 DEF MoveCompany
  <2>2. QED
    BY <1>1, <1>2, <1>4, <2>1, AroundStep DEF MoveCompany
<1>5. ASSUME NEW u \in Users, NEW t \in Tips, TrashMarker(u, t) PROVE DeliverInv'
  <2>1. /\ marker[u][t] = "live"
        /\ marker' = [marker EXCEPT ![u] = [marker[u] EXCEPT ![t] = "trashed"]]
    BY <1>5 DEF TrashMarker
  <2>2. /\ marker' \in [Users -> [Tips -> RowStates]]
        /\ \A v \in Users, s \in Tips : marker'[v][s] # "absent" => marker[v][s] # "absent"
    BY <1>1, <2>1 DEF RowStates
  <2>3. unmarked' \subseteq (Users \X Tips)
    BY <1>1, <1>5 DEF TrashMarker
  <2>4. QED
    BY <1>1, <1>2, <1>5, <2>2, <2>3, AroundStep DEF TrashMarker
<1>6. ASSUME NEW k \in Keys, EnableKpi(k) \/ DisableKpi(k) \/ TrashKpi(k) PROVE DeliverInv'
  <2>1. kpi' \in [Keys -> RowStates]
    BY <1>1, <1>6 DEF EnableKpi, DisableKpi, TrashKpi, RowStates
  <2>2. QED
    BY <1>1, <1>2, <1>6, <2>1, AroundStep DEF EnableKpi, DisableKpi, TrashKpi
<1>7. QED
  BY <1>3, <1>4, <1>5, <1>6

LEMMA Inductive == DeliverInv /\ [Next]_vars => DeliverInv'
<1> SUFFICES ASSUME DeliverInv, [Next]_vars PROVE DeliverInv'
  OBVIOUS
<1>1. CASE UNCHANGED vars
  BY <1>1 DEF vars, DeliverInv, TypeOK
<1>2. ASSUME NEW j \in Senders,
             \/ \E u \in Users : Begin(j, u)
             \/ Resolve(j) \/ ReadKeys(j) \/ Compute(j) \/ PickTip(j)
             \/ RenderFails(j) \/ Enqueue(j) \/ EnqueueFails(j)
             \/ MarkTip(j) \/ Stamp(j) \/ MarkingFails(j)
      PROVE  DeliverInv'
  BY <1>2, BeginInv, ResolveInv, ReadKeysInv, ComputeInv, PickTipInv, EnqueueInv, MarkTipInv,
     StampInv, FailuresInv
<1>3. CASE \/ InstallPort
           \/ \E u \in Users : \/ \E c \in Companies \cup {NoCompany} : MoveCompany(u, c)
                               \/ \E t \in Tips : TrashMarker(u, t)
           \/ \E k \in Keys : EnableKpi(k) \/ DisableKpi(k) \/ TrashKpi(k)
  BY <1>3, AroundInv
<1>4. QED
  BY <1>1, <1>2, <1>3 DEF Next

LEMMA Always == Spec => []DeliverInv
BY InitInv, Inductive, PTL DEF Spec

-----------------------------------------------------------------------------

\* Calls, markers and mails keep their types in every interleaving.
THEOREM DeliverTyped == Spec => []TypeOK
<1>1. DeliverInv => TypeOK
  BY DEF DeliverInv
<1>2. QED
  BY <1>1, Always, PTL

\* Every consumption marker answers for a mail, whichever step failed.
THEOREM ConsumedOnlyIfMailedHolds == Spec => []ConsumedOnlyIfMailed
<1>1. DeliverInv => ConsumedOnlyIfMailed
  BY DEF DeliverInv, PersonOK, ConsumedOnlyIfMailed, TipsMailed, Carried
<1>2. QED
  BY <1>1, Always, PTL

\* No overlap of calls sends an auto-subscribed person a first mail without
\* the notice, or silences the notice before one.
THEOREM FirstMailWarnsHolds == Spec => []FirstMailWarns
<1>1. DeliverInv => FirstMailWarns
  BY DeliverNulls DEF DeliverInv, PersonOK, FirstMailWarns
<1>2. QED
  BY <1>1, Always, PTL

\* No mail carries a tip its reader's group keys do not open.
THEOREM GateFailsClosedHolds == Spec => []GateFailsClosed
<1>1. DeliverInv => GateFailsClosed
  BY DEF DeliverInv, PersonOK, Passes, GateFailsClosed, TipsMailed, Carried
<1>2. QED
  BY <1>1, Always, PTL

\* What a mail leaves out is what the fences and the sources leave out.
THEOREM DropsOnlyAsDeclaredHolds == Spec => []DropsOnlyAsDeclared
<1>1. DeliverInv => DropsOnlyAsDeclared
  BY DEF DeliverInv, CallOK, Declared, DropsOnlyAsDeclared
<1>2. QED
  BY <1>1, Always, PTL

-----------------------------------------------------------------------------
(* What the callers rely on *)

\* What a call shows of itself: whom it mails while it runs, and a mail from
\* the enqueue to its end.
Shows(c) == /\ c.pc = "idle" => c.user = NoUser
            /\ c.sent <=> c.pc \in {"mark", "stamp"}

ShowsInv == \A j \in Senders : Shows(job[j])

View(c) == [user |-> c.user, sent |-> c.sent]

\* A call that moves to the state new is seen to move to View(new).
LEMMA SeenStep ==
  ASSUME DeliverInv, ShowsInv, NEW j \in Senders, NEW new,
         job' = [job EXCEPT ![j] = new], Shows(new)
  PROVE  ShowsInv' /\ Calls' = [Calls EXCEPT ![j] = View(new)] /\ Calls[j] = View(job[j])
<1>1. job'[j] = new /\ \A i \in Senders \ {j} : job'[i] = job[i]
  BY DEF DeliverInv, TypeOK
<1>2. ASSUME NEW i \in Senders PROVE Shows(job'[i])
  BY <1>1 DEF ShowsInv
<1>3. ShowsInv'
  BY <1>2 DEF ShowsInv, Shows
<1>4. ASSUME NEW i \in Senders
      PROVE  Calls'[i] = IF i = j THEN View(new) ELSE Calls[i]
  BY <1>1 DEF Calls, View
<1>5. Calls' = [i \in Senders |-> Calls'[i]] /\ DOMAIN Calls = Senders
  BY DEF Calls
<1>6. Calls' = [Calls EXCEPT ![j] = View(new)]
  BY <1>4, <1>5
<1>7. QED
  BY <1>3, <1>6 DEF Calls, View

\* A step of the rendering or of the writes behind the mail is none of the
\* abstract call.
LEMMA InnerSeen ==
  ASSUME DeliverInv, ShowsInv, NEW j \in Senders, NEW new,
         job' = [job EXCEPT ![j] = new], Shows(new), View(new) = View(job[j]),
         UNCHANGED <<mails, ended>>
  PROVE  ShowsInv' /\ UNCHANGED <<Calls, Queued, ended>>
<1>1. Calls' = [Calls EXCEPT ![j] = Calls[j]] /\ ShowsInv'
  BY SeenStep
<1>2. Calls' = Calls
  BY <1>1 DEF Calls
<1>3. Queued' = Queued
  BY DEF Queued
<1>4. QED
  BY <1>1, <1>2, <1>3

LEMMA BeginSeen ==
  ASSUME DeliverInv, ShowsInv, NEW j \in Senders, NEW u \in Users, Begin(j, u)
  PROVE  ShowsInv' /\ Send!Call(j, u)
<1> DEFINE new == [Idle EXCEPT !.pc = "resolve", !.user = u,
                               !.first = u \in AutoSubscribed /\ ~stamped[u]]
<1>1. job' = [job EXCEPT ![j] = new] /\ job[j].pc = "idle" /\ UNCHANGED <<mails, ended>>
  BY DEF Begin
<1>2. Shows(new) /\ View(new) = [user |-> u, sent |-> FALSE]
  BY DEF Idle, Shows, View
<1> HIDE DEF new
<1>3. /\ ShowsInv' /\ Calls' = [Calls EXCEPT ![j] = [user |-> u, sent |-> FALSE]]
      /\ Calls[j] = View(job[j])
  BY <1>1, <1>2, SeenStep
<1>4. job[j].user = NoUser /\ job[j].sent = FALSE
  BY <1>1 DEF ShowsInv, Shows, DeliverInv, TypeOK, Job
<1>5. Calls[j] = [user |-> NoUser, sent |-> FALSE]
  BY <1>3, <1>4 DEF View
<1>6. Queued' = Queued
  BY <1>1 DEF Queued
<1>7. QED
  BY <1>1, <1>3, <1>5, <1>6 DEF Send!Call, Send!NoCall

LEMMA WorkSeen ==
  ASSUME DeliverInv, ShowsInv, NEW j \in Senders,
         Resolve(j) \/ ReadKeys(j) \/ Compute(j) \/ PickTip(j) \/ MarkTip(j)
  PROVE  ShowsInv' /\ UNCHANGED <<Calls, Queued, ended>>
<1>0. job[j] \in Job /\ Shows(job[j]) /\ UNCHANGED <<mails, ended>>
  BY DEF DeliverInv, TypeOK, ShowsInv, Resolve, ReadKeys, Compute, PickTip, MarkTip
<1>1. CASE Resolve(j)
  <2> DEFINE new == [job[j] EXCEPT !.pc = "keys", !.company = company[job[j].user]]
  <2>1. job' = [job EXCEPT ![j] = new] /\ job[j].pc = "resolve"
    BY <1>1 DEF Resolve
  <2>2. Shows(new) /\ View(new) = View(job[j])
    BY <1>0, <2>1 DEF Shows, View, Job
  <2> HIDE DEF new
  <2>3. QED
    BY <1>0, <2>1, <2>2, InnerSeen
<1>2. CASE ReadKeys(j)
  <2> DEFINE new == [job[j] EXCEPT !.pc = "compute", !.keys = {k \in Keys : kpi[k] = "live"}]
  <2>1. job' = [job EXCEPT ![j] = new] /\ job[j].pc = "keys"
    BY <1>2 DEF ReadKeys
  <2>2. Shows(new) /\ View(new) = View(job[j])
    BY <1>0, <2>1 DEF Shows, View, Job
  <2> HIDE DEF new
  <2>3. QED
    BY <1>0, <2>1, <2>2, InnerSeen
<1>3. CASE Compute(j)
  <2>1. PICK a, b : job' = [job EXCEPT ![j].pc = "tip", ![j].shown = a, ![j].off = b]
    BY <1>3 DEF Compute
  <2> DEFINE new == [job[j] EXCEPT !.pc = "tip", !.shown = a, !.off = b]
  <2>2. job' = [job EXCEPT ![j] = new] /\ job[j].pc = "compute"
    BY <1>3, <2>1 DEF Compute
  <2>3. Shows(new) /\ View(new) = View(job[j])
    BY <1>0, <2>2 DEF Shows, View, Job
  <2> HIDE DEF new
  <2>4. QED
    BY <1>0, <2>2, <2>3, InnerSeen
<1>4. CASE PickTip(j)
  <2>1. PICK t : job' = [job EXCEPT ![j] = [Idle EXCEPT !.pc = "enqueue", !.user = job[j].user,
                                              !.first = job[j].first, !.tip = t]]
    BY <1>4 DEF PickTip
  <2> DEFINE new == [Idle EXCEPT !.pc = "enqueue", !.user = job[j].user,
                                 !.first = job[j].first, !.tip = t]
  <2>2. job' = [job EXCEPT ![j] = new] /\ job[j].pc = "tip"
    BY <1>4, <2>1 DEF PickTip
  <2>3. job[j].sent = FALSE
    BY <1>0, <2>2 DEF Shows, Job
  <2>4. Shows(new) /\ View(new) = View(job[j])
    BY <1>0, <2>3 DEF Shows, View, Idle
  <2> HIDE DEF new
  <2>5. QED
    BY <1>0, <2>2, <2>4, InnerSeen
<1>5. CASE MarkTip(j)
  <2> DEFINE new == [job[j] EXCEPT !.pc = "stamp"]
  <2>1. job' = [job EXCEPT ![j] = new] /\ job[j].pc = "mark"
    BY <1>5 DEF MarkTip
  <2>2. Shows(new) /\ View(new) = View(job[j])
    BY <1>0, <2>1 DEF Shows, View, Job
  <2> HIDE DEF new
  <2>3. QED
    BY <1>0, <2>1, <2>2, InnerSeen
<1>6. QED
  BY <1>1, <1>2, <1>3, <1>4, <1>5

LEMMA EnqueueSeen ==
  ASSUME DeliverInv, ShowsInv, NEW j \in Senders, Enqueue(j)
  PROVE  ShowsInv' /\ Send!Queue(j, job[j].user)
<1> DEFINE u == job[j].user
           m == [tip |-> job[j].tip, notice |-> job[j].first]
           new == [job[j] EXCEPT !.pc = "mark", !.sent = TRUE]
<1>1. /\ job' = [job EXCEPT ![j] = new] /\ job[j].pc = "enqueue" /\ ended' = ended
      /\ mails' = [mails EXCEPT ![u] = Append(@, m)]
  BY DEF Enqueue
<1>2. job[j] \in Job /\ Shows(job[j]) /\ CallOK(job[j], mails)
  BY DEF DeliverInv, TypeOK, ShowsInv
<1>3. u \in Users /\ job[j].sent = FALSE
  BY <1>1, <1>2 DEF CallOK, Shows, Job
<1>4. Shows(new) /\ View(new) = [user |-> u, sent |-> TRUE]
  BY <1>2 DEF Shows, View, Job
<1> HIDE DEF new, m
<1>5. /\ ShowsInv' /\ Calls' = [Calls EXCEPT ![j] = [user |-> u, sent |-> TRUE]]
      /\ Calls[j] = [user |-> u, sent |-> FALSE]
  <2>1. /\ ShowsInv' /\ Calls' = [Calls EXCEPT ![j] = View(new)] /\ Calls[j] = View(job[j])
    BY <1>1, <1>4, SeenStep
  <2>2. QED
    BY <1>3, <1>4, <2>1 DEF View
<1>6. Queued' = [Queued EXCEPT ![u] = @ + 1]
  <2>1. mails \in [Users -> Seq(Mail)]
    BY DEF DeliverInv, TypeOK, Mail
  <2>2. Len(Append(mails[u], m)) = Len(mails[u]) + 1
    BY <1>3, <2>1
  <2>3. ASSUME NEW v \in Users
        PROVE  Len(mails'[v]) = IF v = u THEN Len(mails[u]) + 1 ELSE Len(mails[v])
    BY <1>1, <1>3, <2>1, <2>2
  <2>4. QED
    BY <1>3, <2>3 DEF Queued
<1>7. QED
  BY <1>1, <1>5, <1>6 DEF Send!Queue

\* However a call ends, it answers for its mail.
LEMMA ReturnSeen ==
  ASSUME DeliverInv, ShowsInv, NEW j \in Senders,
         RenderFails(j) \/ EnqueueFails(j) \/ Stamp(j) \/ MarkingFails(j)
  PROVE  ShowsInv' /\ job[j].user \in Users /\ Send!Return(j, job[j].user)
<1>1. job[j] \in Job /\ Shows(job[j]) /\ CallOK(job[j], mails)
  BY DEF DeliverInv, TypeOK, ShowsInv
<1>2. job' = [job EXCEPT ![j] = Idle] /\ mails' = mails /\ job[j].pc # "idle"
  BY DEF RenderFails, EnqueueFails, Stamp, MarkingFails
<1>3. PICK ok \in BOOLEAN : /\ ended' = [enqueued |-> job[j].sent, ok |-> ok]
                            /\ ok => job[j].sent
  <2>1. CASE RenderFails(j) \/ EnqueueFails(j)
    <3>1. job[j].pc \notin {"mark", "stamp"} /\ ended' = [enqueued |-> FALSE, ok |-> FALSE]
      BY <2>1 DEF RenderFails, EnqueueFails
    <3>2. job[j].sent = FALSE
      BY <1>1, <3>1 DEF Shows, Job
    <3>3. QED
      BY <3>1, <3>2
  <2>2. CASE Stamp(j)
    <3>1. job[j].pc = "stamp" /\ ended' = [enqueued |-> job[j].sent, ok |-> TRUE]
      BY <2>2 DEF Stamp
    <3>2. QED
      BY <1>1, <3>1 DEF Shows
  <2>3. CASE MarkingFails(j)
    BY <2>3 DEF MarkingFails
  <2>4. QED
    BY <2>1, <2>2, <2>3
<1>4. Shows(Idle) /\ View(Idle) = Send!NoCall
  BY DEF Shows, View, Idle, Send!NoCall
<1>5. ShowsInv' /\ Calls' = [Calls EXCEPT ![j] = Send!NoCall] /\ Calls[j] = View(job[j])
  BY <1>2, <1>4, SeenStep
<1>6. Calls[j].user = job[j].user /\ Calls[j].sent = job[j].sent
  BY <1>5 DEF View
<1>7. ended' \in Send!Outcomes /\ ended'.enqueued = Calls[j].sent
  BY <1>1, <1>3, <1>6 DEF Send!Outcomes, Job
<1>8. Queued' = Queued
  BY <1>2 DEF Queued
<1>9. job[j].user \in Users
  BY <1>1, <1>2 DEF CallOK
<1>10. QED
  BY <1>5, <1>6, <1>7, <1>8, <1>9 DEF Send!Return

\* Overlapping calls, with whatever fails in them and is edited around them,
\* are calls of DigestSend: one mail at most, to the right person, and no
\* success without it.
THEOREM DeliverImplementsSend == Spec => ImplementsSend
<1>1. Init => Send!Init /\ ShowsInv
  <2> SUFFICES ASSUME Init PROVE Send!Init /\ ShowsInv
    OBVIOUS
  <2>1. ShowsInv
    BY DEF Init, ShowsInv, Shows, Idle
  <2>2. Calls = [j \in Senders |-> Send!NoCall]
    BY DEF Init, Calls, Idle, Send!NoCall
  <2>3. Queued = [u \in Users |-> 0]
    BY DEF Init, Queued
  <2>4. QED
    BY <2>1, <2>2, <2>3 DEF Init, Send!Init
<1>2. DeliverInv /\ ShowsInv /\ [Next]_vars => ShowsInv' /\ [Send!Next]_(Send!vars)
  <2> SUFFICES ASSUME DeliverInv, ShowsInv, [Next]_vars
               PROVE  ShowsInv' /\ (Send!Next \/ UNCHANGED <<Calls, Queued, ended>>)
    BY DEF Send!vars
  <2>1. ASSUME UNCHANGED <<job, mails, ended>>
        PROVE  ShowsInv' /\ UNCHANGED <<Calls, Queued, ended>>
    BY <2>1 DEF ShowsInv, Calls, Queued
  <2>2. CASE UNCHANGED vars
    BY <2>1, <2>2 DEF vars
  <2>3. ASSUME NEW j \in Senders, NEW u \in Users, Begin(j, u) PROVE ShowsInv' /\ Send!Next
    BY <2>3, BeginSeen DEF Send!Next
  <2>4. ASSUME NEW j \in Senders, Enqueue(j) PROVE ShowsInv' /\ Send!Next
    <3>1. job[j].user \in Users
      BY <2>4 DEF Enqueue, DeliverInv, CallOK
    <3>2. QED
      BY <2>4, <3>1, EnqueueSeen DEF Send!Next
  <2>5. ASSUME NEW j \in Senders,
               RenderFails(j) \/ EnqueueFails(j) \/ Stamp(j) \/ MarkingFails(j)
        PROVE  ShowsInv' /\ Send!Next
    BY <2>5, ReturnSeen DEF Send!Next
  <2>6. ASSUME \/ InstallPort
               \/ \E u \in Users : \/ \E c \in Companies \cup {NoCompany} : MoveCompany(u, c)
                                   \/ \E t \in Tips : TrashMarker(u, t)
               \/ \E k \in Keys : EnableKpi(k) \/ DisableKpi(k) \/ TrashKpi(k)
        PROVE  UNCHANGED <<job, mails, ended>>
    BY <2>6 DEF InstallPort, MoveCompany, TrashMarker, EnableKpi, DisableKpi, TrashKpi
  <2>7. QED
    BY <2>1, <2>2, <2>3, <2>4, <2>5, <2>6, WorkSeen DEF Next
<1>3. QED
  BY <1>1, <1>2, Always, PTL DEF Spec, ImplementsSend, Send!Spec

-----------------------------------------------------------------------------
(* Repeats of a tip *)

\* The calls that are to enqueue, or to mark, tip t for u.
At(pc, u, t) == {j \in Senders : job[j].pc = pc /\ job[j].user = u /\ job[j].tip = t}

\* The mails of s that carried tip t.
Copies(s, t) == {i \in DOMAIN s : s[i].tip = t}

\* Until its marker is written, each mail with the tip is one that a call has
\* still to mark.  From then on nobody picks the tip, so the mails that carried
\* it and those about to are of different calls.
RepeatsOK(u, t) ==
  /\ marker[u][t] # "trashed"
  /\ marker[u][t] = "absent" =>
       Cardinality(Copies(mails[u], t)) <= Cardinality(At("mark", u, t))
  /\ marker[u][t] = "live" =>
       Cardinality(Copies(mails[u], t)) + Cardinality(At("enqueue", u, t))
         <= Cardinality(Senders)

RepeatInv == \A u \in Users, t \in Tips : <<u, t>> \notin unmarked => RepeatsOK(u, t)

LEMMA AtFinite ==
  ASSUME NEW pc, NEW u, NEW t
  PROVE  /\ IsFiniteSet(At(pc, u, t)) /\ Cardinality(At(pc, u, t)) \in Nat
         /\ IsFiniteSet(At(pc, u, t)') /\ Cardinality(At(pc, u, t)') \in Nat
<1>1. At(pc, u, t) \subseteq Senders /\ At(pc, u, t)' \subseteq Senders
  BY DEF At
<1>2. QED
  BY <1>1, DeliverSenders, FS_Subset, FS_CardinalityType

\* A call does one thing at a time.
LEMMA AtTogether ==
  ASSUME NEW u, NEW t
  PROVE  Cardinality(At("mark", u, t)) + Cardinality(At("enqueue", u, t)) <= Cardinality(Senders)
<1> DEFINE M == At("mark", u, t)
           E == At("enqueue", u, t)
<1>1. M \cup E \subseteq Senders /\ M \cap E = {}
  BY DEF At
<1>2. IsFiniteSet(M) /\ IsFiniteSet(E) /\ Cardinality(M) \in Nat /\ Cardinality(E) \in Nat
  BY AtFinite
<1> HIDE DEF M, E
<1>3. Cardinality(M \cup E) = Cardinality(M) + Cardinality(E)
  <2>1. Cardinality(M \cup E) = Cardinality(M) + Cardinality(E) - Cardinality(M \cap E)
    BY <1>2, FS_Union
  <2>2. Cardinality(M \cap E) = 0
    BY <1>1, FS_EmptySet
  <2>3. QED
    BY <1>2, <2>1, <2>2
<1>4. Cardinality(M \cup E) <= Cardinality(Senders)
  BY <1>1, DeliverSenders, FS_Subset
<1>5. QED
  BY <1>3, <1>4 DEF M, E

LEMMA CopiesFinite ==
  ASSUME NEW s \in Seq(Mail), NEW t
  PROVE  IsFiniteSet(Copies(s, t)) /\ Cardinality(Copies(s, t)) \in Nat
<1>1. Copies(s, t) \subseteq 1 .. Len(s) /\ Len(s) \in Nat
  BY DEF Copies
<1>2. IsFiniteSet(1 .. Len(s))
  BY <1>1, FS_Interval
<1>3. QED
  BY <1>1, <1>2, FS_Subset, FS_CardinalityType

LEMMA CopiesAppend ==
  ASSUME NEW s \in Seq(Mail), NEW m \in Mail, NEW t
  PROVE  Cardinality(Copies(Append(s, m), t)) =
           IF m.tip = t THEN Cardinality(Copies(s, t)) + 1 ELSE Cardinality(Copies(s, t))
<1> DEFINE r == Append(s, m)
<1>1. /\ DOMAIN s = 1 .. Len(s) /\ DOMAIN r = (1 .. Len(s)) \cup {Len(s) + 1}
      /\ \A i \in 1 .. Len(s) : r[i] = s[i]
      /\ r[Len(s) + 1] = m /\ Len(s) \in Nat
  <2>1. /\ Len(r) = Len(s) + 1 /\ Len(s) \in Nat /\ DOMAIN s = 1 .. Len(s)
        /\ DOMAIN r = 1 .. (Len(s) + 1) /\ \A i \in 1 .. Len(s) : r[i] = s[i]
        /\ r[Len(s) + 1] = m
    OBVIOUS
  <2>2. 1 .. (Len(s) + 1) = (1 .. Len(s)) \cup {Len(s) + 1}
    BY <2>1
  <2>3. QED
    BY <2>1, <2>2
<1> HIDE DEF r
<1>2. Len(s) + 1 \notin Copies(s, t) /\ IsFiniteSet(Copies(s, t))
  <2>1. Len(s) + 1 \notin DOMAIN s
    BY <1>1
  <2>2. QED
    BY <2>1, CopiesFinite DEF Copies
<1>3. CASE m.tip = t
  <2>1. Copies(r, t) = Copies(s, t) \cup {Len(s) + 1}
    BY <1>1, <1>3 DEF Copies
  <2>2. QED
    <3>1. Cardinality(Copies(s, t) \cup {Len(s) + 1}) = Cardinality(Copies(s, t)) + 1
      BY <1>2, FS_AddElement
    <3>2. Cardinality(Copies(r, t)) = Cardinality(Copies(s, t)) + 1
      BY <2>1, <3>1
    <3>3. QED
      BY <1>3, <3>2 DEF r
<1>4. CASE m.tip # t
  <2>1. Copies(r, t) = Copies(s, t)
    BY <1>1, <1>4 DEF Copies
  <2>2. QED
    BY <1>4, <2>1 DEF r
<1>5. QED
  BY <1>3, <1>4

\* Steps that queue no mail, pick no tip and mark none, unless they are noted
\* in unmarked.
LEMMA RepeatQuiet ==
  ASSUME DeliverInv, RepeatInv, mails' = mails, unmarked \subseteq unmarked',
         \A u \in Users, t \in Tips : <<u, t>> \notin unmarked' => marker'[u][t] = marker[u][t],
         \A j \in Senders : job'[j].pc = "enqueue" => job'[j] = job[j],
         \A j \in Senders : job[j].pc = "mark" /\ job[j].tip \in Tips
                              => job'[j] = job[j] \/ <<job[j].user, job[j].tip>> \in unmarked'
  PROVE  RepeatInv'
<1> SUFFICES ASSUME NEW u \in Users, NEW t \in Tips, <<u, t>> \notin unmarked'
             PROVE  RepeatsOK(u, t)'
  BY DEF RepeatInv
<1>1. RepeatsOK(u, t) /\ marker'[u][t] = marker[u][t]
  BY DEF RepeatInv
<1>2. At("mark", u, t) \subseteq At("mark", u, t)' /\ At("enqueue", u, t)' \subseteq At("enqueue", u, t)
  BY DEF At
<1>3. /\ Cardinality(At("mark", u, t)) <= Cardinality(At("mark", u, t)')
      /\ Cardinality(At("enqueue", u, t)') <= Cardinality(At("enqueue", u, t))
  BY <1>2, AtFinite, FS_Subset
<1>4. /\ Cardinality(Copies(mails[u], t)) \in Nat
      /\ Cardinality(At("mark", u, t)) \in Nat /\ Cardinality(At("mark", u, t)') \in Nat
      /\ Cardinality(At("enqueue", u, t)) \in Nat /\ Cardinality(At("enqueue", u, t)') \in Nat
      /\ Cardinality(Senders) \in Nat
  BY AtFinite, CopiesFinite, DeliverSenders, FS_CardinalityType DEF DeliverInv, TypeOK, Mail
<1>5. Copies(mails[u], t)' = Copies(mails[u], t)
  OBVIOUS
<1>6. QED
  BY <1>1, <1>3, <1>4, <1>5 DEF RepeatsOK

\* The picked tip has no live marker.
LEMMA PickedUnmarked ==
  ASSUME NEW u \in Users, NEW held, NEW t \in Tips, t = FirstOf(Eligible(u, held))
  PROVE  marker[u][t] # "live"
<1>1. Eligible(u, held) \in SUBSET Tips
  BY DEF Eligible
<1>2. t \in Eligible(u, held)
  BY <1>1, FirstOfTyped, DeliverNulls DEF Tips
<1>3. QED
  BY <1>2 DEF Eligible

LEMMA PickRepeat == ASSUME DeliverInv, RepeatInv, NEW j \in Senders, PickTip(j) PROVE RepeatInv'
<1> SUFFICES ASSUME NEW u \in Users, NEW t \in Tips, <<u, t>> \notin unmarked'
             PROVE  RepeatsOK(u, t)'
  BY DEF RepeatInv
<1>1. job \in [Senders -> Job] /\ job[j].pc = "tip" /\ UNCHANGED <<marker, mails, unmarked>>
  BY DEF DeliverInv, TypeOK, PickTip
<1>2. RepeatsOK(u, t)
  BY <1>1 DEF RepeatInv
<1>3. PICK held : /\ job'[j].pc = "enqueue" /\ job'[j].user = job[j].user
                  /\ job'[j].tip = FirstOf(Eligible(job[j].user, held))
  BY <1>1 DEF PickTip, Idle
<1>4. \A i \in Senders : i # j => job'[i] = job[i]
  BY <1>1 DEF PickTip
<1>5. At("mark", u, t)' = At("mark", u, t)
  BY <1>1, <1>3, <1>4 DEF At
<1>6. marker[u][t] = "live" => At("enqueue", u, t)' = At("enqueue", u, t)
  <2> SUFFICES ASSUME marker[u][t] = "live" PROVE At("enqueue", u, t)' = At("enqueue", u, t)
    OBVIOUS
  <2>1. ~(job'[j].user = u /\ job'[j].tip = t)
    BY <1>3, PickedUnmarked
  <2>2. QED
    BY <1>1, <1>4, <2>1 DEF At
<1>7. QED
  BY <1>1, <1>2, <1>5, <1>6 DEF RepeatsOK

LEMMA EnqueueRepeat == ASSUME DeliverInv, RepeatInv, NEW j \in Senders, Enqueue(j) PROVE RepeatInv'
<1> SUFFICES ASSUME NEW u \in Users, NEW t \in Tips, <<u, t>> \notin unmarked'
             PROVE  RepeatsOK(u, t)'
  BY DEF RepeatInv
<1> DEFINE m == [tip |-> job[j].tip, notice |-> job[j].first]
<1>1. /\ job \in [Senders -> Job] /\ mails \in [Users -> Seq(Mail)]
      /\ job[j].pc = "enqueue" /\ job[j].user \in Users /\ m \in Mail
      /\ UNCHANGED <<marker, unmarked>>
      /\ mails' = [mails EXCEPT ![job[j].user] = Append(mails[job[j].user], m)]
      /\ job' = [job EXCEPT ![j].pc = "mark", ![j].sent = TRUE]
  BY DEF DeliverInv, TypeOK, CallOK, Enqueue, Mail, Job
<1>2. /\ job'[j].pc = "mark" /\ job'[j].user = job[j].user /\ job'[j].tip = job[j].tip
      /\ \A i \in Senders : i # j => job'[i] = job[i]
  BY <1>1 DEF Job
<1>3. RepeatsOK(u, t)
  BY <1>1 DEF RepeatInv
<1>4. /\ Cardinality(Copies(mails[u], t)) \in Nat
      /\ IsFiniteSet(At("mark", u, t)) /\ Cardinality(At("mark", u, t)) \in Nat
      /\ IsFiniteSet(At("enqueue", u, t)) /\ Cardinality(At("enqueue", u, t)) \in Nat
      /\ Cardinality(Senders) \in Nat
  BY <1>1, AtFinite, CopiesFinite, DeliverSenders, FS_CardinalityType
<1>5. CASE job[j].user = u /\ job[j].tip = t
  <2>1. Cardinality(Copies(mails'[u], t)) = Cardinality(Copies(mails[u], t)) + 1
    <3>1. mails'[u] = Append(mails[u], m) /\ m.tip = t /\ mails[u] \in Seq(Mail)
      BY <1>1, <1>5
    <3>2. QED
      BY <1>1, <3>1, CopiesAppend
  <2>2. Cardinality(At("mark", u, t)') = Cardinality(At("mark", u, t)) + 1
    <3>1. At("mark", u, t)' = At("mark", u, t) \cup {j} /\ j \notin At("mark", u, t)
      BY <1>1, <1>2, <1>5 DEF At
    <3>2. QED
      BY <1>4, <3>1, FS_AddElement
  <2>3. Cardinality(At("enqueue", u, t)') = Cardinality(At("enqueue", u, t)) - 1
    <3>1. At("enqueue", u, t)' = At("enqueue", u, t) \ {j} /\ j \in At("enqueue", u, t)
      BY <1>1, <1>2, <1>5 DEF At
    <3>2. QED
      BY <1>4, <3>1, FS_RemoveElement
  <2>4. QED
    BY <1>1, <1>3, <1>4, <2>1, <2>2, <2>3 DEF RepeatsOK
<1>6. CASE ~(job[j].user = u /\ job[j].tip = t)
  <2>1. Cardinality(Copies(mails'[u], t)) = Cardinality(Copies(mails[u], t))
    <3>1. CASE job[j].user = u
      <4>1. mails'[u] = Append(mails[u], m) /\ m.tip # t /\ mails[u] \in Seq(Mail)
        BY <1>1, <1>6, <3>1
      <4>2. QED
        BY <1>1, <4>1, CopiesAppend
    <3>2. CASE job[j].user # u
      BY <1>1, <3>2
    <3>3. QED
      BY <3>1, <3>2
  <2>2. At("mark", u, t)' = At("mark", u, t) /\ At("enqueue", u, t)' = At("enqueue", u, t)
    BY <1>1, <1>2, <1>6 DEF At
  <2>3. QED
    BY <1>1, <1>3, <2>1, <2>2 DEF RepeatsOK
<1>7. QED
  BY <1>5, <1>6

LEMMA MarkRepeat == ASSUME DeliverInv, RepeatInv, NEW j \in Senders, MarkTip(j) PROVE RepeatInv'
<1> SUFFICES ASSUME NEW u \in Users, NEW t \in Tips, <<u, t>> \notin unmarked'
             PROVE  RepeatsOK(u, t)'
  BY DEF RepeatInv
<1>1. /\ job \in [Senders -> Job] /\ mails \in [Users -> Seq(Mail)]
      /\ marker \in [Users -> [Tips -> RowStates]]
      /\ job[j].pc = "mark" /\ job[j].user \in Users /\ job[j].tip \in Tips \cup {NoTip}
      /\ UNCHANGED <<mails, unmarked>>
      /\ job' = [job EXCEPT ![j].pc = "stamp"]
  BY DEF DeliverInv, TypeOK, CallOK, MarkTip, Mail, Job
<1>2. job'[j].pc = "stamp" /\ \A i \in Senders : i # j => job'[i] = job[i]
  BY <1>1 DEF Job
<1>3. RepeatsOK(u, t) /\ t # NoTip
  BY <1>1, DeliverNulls DEF RepeatInv, Tips
<1>4. /\ Cardinality(Copies(mails[u], t)) \in Nat
      /\ Cardinality(At("mark", u, t)) \in Nat /\ Cardinality(At("enqueue", u, t)) \in Nat
      /\ Cardinality(Senders) \in Nat
  BY <1>1, AtFinite, CopiesFinite, DeliverSenders, FS_CardinalityType
<1>5. At("enqueue", u, t)' = At("enqueue", u, t)
  BY <1>1, <1>2 DEF At
<1>6. marker[u][t] \in {"absent", "live"}
  BY <1>1, <1>3 DEF RepeatsOK, RowStates
<1>7. CASE job[j].user = u /\ job[j].tip = t
  <2>1. marker'[u][t] = "live"
    BY <1>1, <1>3, <1>6, <1>7 DEF MarkTip
  <2>2. marker[u][t] = "absent" =>
          Cardinality(Copies(mails[u], t)) + Cardinality(At("enqueue", u, t))
            <= Cardinality(Senders)
    BY <1>3, <1>4, AtTogether DEF RepeatsOK
  <2>3. QED
    BY <1>1, <1>3, <1>5, <1>6, <2>1, <2>2 DEF RepeatsOK
<1>8. CASE ~(job[j].user = u /\ job[j].tip = t)
  <2>1. marker'[u][t] = marker[u][t]
    BY <1>1, <1>8 DEF MarkTip
  <2>2. At("mark", u, t)' = At("mark", u, t)
    BY <1>1, <1>2, <1>8 DEF At
  <2>3. QED
    BY <1>1, <1>3, <1>5, <2>1, <2>2 DEF RepeatsOK
<1>9. QED
  BY <1>7, <1>8

\* Every other step of a call leaves the tip alone, or is noted in unmarked.
LEMMA CallRepeat ==
  ASSUME DeliverInv, RepeatInv, NEW j \in Senders,
         \/ \E u \in Users : Begin(j, u)
         \/ Resolve(j) \/ ReadKeys(j) \/ Compute(j) \/ RenderFails(j)
         \/ EnqueueFails(j) \/ Stamp(j) \/ MarkingFails(j)
  PROVE  RepeatInv'
<1>1. job \in [Senders -> Job]
  BY DEF DeliverInv, TypeOK
<1>2. marker' = marker /\ mails' = mails /\ unmarked \subseteq unmarked'
  BY DEF Begin, Resolve, ReadKeys, Compute, RenderFails, EnqueueFails, Stamp, MarkingFails
<1>3. \A i \in Senders : i # j => job'[i] = job[i]
  BY <1>1 DEF Begin, Resolve, ReadKeys, Compute, RenderFails, EnqueueFails, Stamp, MarkingFails
<1>4. job'[j].pc # "enqueue"
  <2>1. CASE \E u \in Users : Begin(j, u)
    <3>1. PICK u \in Users : Begin(j, u)
      BY <2>1
    <3> DEFINE new == [Idle EXCEPT !.pc = "resolve", !.user = u,
                                   !.first = u \in AutoSubscribed /\ ~stamped[u]]
    <3>2. job' = [job EXCEPT ![j] = new]
      BY <3>1 DEF Begin
    <3>3. new.pc = "resolve"
      BY DEF Idle
    <3> HIDE DEF new
    <3>4. QED
      BY <1>1, <3>2, <3>3
  <2>2. CASE RenderFails(j) \/ EnqueueFails(j) \/ Stamp(j) \/ MarkingFails(j)
    <3>1. job' = [job EXCEPT ![j] = Idle]
      BY <2>2 DEF RenderFails, EnqueueFails, Stamp, MarkingFails
    <3>2. QED
      BY <1>1, <3>1, IdleTyped
  <2>3. CASE Resolve(j)
    BY <1>1, <2>3 DEF Resolve, Job
  <2>4. CASE ReadKeys(j)
    BY <1>1, <2>4 DEF ReadKeys, Job
  <2>5. CASE Compute(j)
    <3>1. PICK shown, off : job' = [job EXCEPT ![j].pc = "tip", ![j].shown = shown, ![j].off = off]
      BY <2>5 DEF Compute
    <3>2. QED
      BY <1>1, <3>1 DEF Job
  <2>6. QED
    BY <2>1, <2>2, <2>3, <2>4, <2>5
<1>5. job[j].pc = "mark" /\ job[j].tip \in Tips => <<job[j].user, job[j].tip>> \in unmarked'
  BY DeliverNulls DEF Tips, Begin, Resolve, ReadKeys, Compute, RenderFails, EnqueueFails, Stamp, MarkingFails
<1>6. QED
  BY <1>2, <1>3, <1>4, <1>5, RepeatQuiet

LEMMA AroundRepeat ==
  ASSUME DeliverInv, RepeatInv,
         \/ UNCHANGED vars
         \/ InstallPort
         \/ \E u \in Users : \/ \E c \in Companies \cup {NoCompany} : MoveCompany(u, c)
                             \/ \E t \in Tips : TrashMarker(u, t)
         \/ \E k \in Keys : EnableKpi(k) \/ DisableKpi(k) \/ TrashKpi(k)
  PROVE  RepeatInv'
<1>1. job' = job /\ mails' = mails /\ unmarked \subseteq unmarked'
  BY DEF vars, InstallPort, MoveCompany, TrashMarker, EnableKpi, DisableKpi, TrashKpi
<1>2. ASSUME NEW u \in Users, NEW t \in Tips, <<u, t>> \notin unmarked'
      PROVE  marker'[u][t] = marker[u][t]
  <2>1. ASSUME NEW v \in Users, NEW s \in Tips, TrashMarker(v, s)
        PROVE  marker'[u][t] = marker[u][t]
    <3>1. marker \in [Users -> [Tips -> RowStates]]
      BY DEF DeliverInv, TypeOK
    <3>2. ~(v = u /\ s = t)
      BY <1>2, <2>1 DEF TrashMarker
    <3>3. QED
      BY <2>1, <3>1, <3>2 DEF TrashMarker
  <2>2. QED
    BY <2>1 DEF vars, InstallPort, MoveCompany, EnableKpi, DisableKpi, TrashKpi
<1>3. QED
  BY <1>1, <1>2, RepeatQuiet

\* As long as its markers are written and kept, a tip reaches a person at most
\* once per call in flight, however the calls interleave and fail.
THEOREM RepeatsOnlyByOverlapHolds == Spec => []RepeatsOnlyByOverlap
<1>1. Init => RepeatInv
  <2> SUFFICES ASSUME Init, NEW u \in Users, NEW t \in Tips PROVE RepeatsOK(u, t)
    BY DEF RepeatInv
  <2>1. marker[u][t] = "absent" /\ Copies(mails[u], t) = {} /\ At("mark", u, t) = {}
    BY DEF Init, Copies, At, Idle
  <2>2. Cardinality({}) = 0
    BY FS_EmptySet
  <2>3. QED
    BY <2>1, <2>2 DEF RepeatsOK
<1>2. DeliverInv /\ RepeatInv /\ [Next]_vars => RepeatInv'
  <2> SUFFICES ASSUME DeliverInv, RepeatInv, [Next]_vars PROVE RepeatInv'
    OBVIOUS
  <2>1. QED
    BY PickRepeat, EnqueueRepeat, MarkRepeat, CallRepeat, AroundRepeat DEF Next
<1>3. DeliverInv /\ RepeatInv => RepeatsOnlyByOverlap
  <2> SUFFICES ASSUME DeliverInv, RepeatInv,
                      NEW u \in Users, NEW t \in Tips, <<u, t>> \notin unmarked
               PROVE  Cardinality(Copies(mails[u], t)) <= Cardinality(Senders)
    BY DEF RepeatsOnlyByOverlap, Copies
  <2>1. RepeatsOK(u, t) /\ marker[u][t] \in RowStates
    BY DEF RepeatInv, DeliverInv, TypeOK
  <2>2. /\ Cardinality(Copies(mails[u], t)) \in Nat
        /\ Cardinality(At("mark", u, t)) \in Nat /\ Cardinality(At("enqueue", u, t)) \in Nat
        /\ Cardinality(Senders) \in Nat
    BY AtFinite, CopiesFinite, DeliverSenders, FS_CardinalityType DEF DeliverInv, TypeOK, Mail
  <2>3. QED
    BY <2>1, <2>2, AtTogether DEF RepeatsOK, RowStates
<1>4. QED
  BY <1>1, <1>2, <1>3, Always, PTL DEF Spec
===============================================================================
