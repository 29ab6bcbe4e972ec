-------------------------- MODULE DigestConfigProofs --------------------------
(* What a digest's configuration keeps to for every number of replicas and of *)
(* transition callers, every set of cadences and every horizon.               *)
EXTENDS DigestConfig, TLAPS

RowTyped == today \in Int /\ row \in Row /\ batches \in Nat /\ dated \in Nat

\* What a step may do to the schedule and its history.
Unmoved == /\ row' \in Row /\ row'.next = row.next
           /\ row'.state = "none" <=> row.state = "none"
           /\ UNCHANGED <<today, batches, dated>>
Dated   == row' \in Row /\ dated' = dated + 1 /\ UNCHANGED <<today, batches>>
Emptied == row' = NoRow /\ UNCHANGED <<today, batches, dated>>
Settled == /\ IsDue
           /\ row' \in Row /\ row'.next \in Int /\ row'.next > today
           /\ batches' = batches + 1 /\ UNCHANGED <<today, dated>>
NewDay  == row' = row /\ today' \in Int /\ batches' = 0 /\ dated' = 0

LEMMA NoRowTyped == NoRow \in Row
BY ConfigNat DEF NoRow, Row, Dates

\* Each step is one of the five.
LEMMA StepKinds ==
  ASSUME RowTyped, Next
  PROVE  Unmoved \/ Dated \/ Emptied \/ Settled \/ NewDay
<1> USE ConfigNat DEF RowTyped, Row, Dates
<1>1. CASE NextDay
  BY <1>1 DEF NextDay, NewDay
<1>2. ASSUME NEW r \in Replicas,
             \/ \E host \in Hosts, secret \in Secrets, url \in BOOLEAN :
                  <<secret, url>> \in Settings /\ build(r, host, secret, url)
             \/ \E def \in Definitions : register_kpi(r, def)
             \/ RegisterNext(r) \/ Stop(r) \/ send_now(r)
      PROVE  Unmoved
  BY <1>2 DEF build, register_kpi, RegisterNext, Stop, send_now, Unmoved
<1>3. ASSUME NEW r \in Replicas, NEW sent \in BOOLEAN, NEW full \in BOOLEAN, NEW p \in Cadences,
             Pull(r, sent, full, p)
      PROVE  Settled
  <2>1. SettledDate(full, p) \in Int /\ SettledDate(full, p) > today
    BY DEF SettledDate
  <2>2. QED
    BY <1>3, <2>1 DEF Pull, Settled, IsDue
<1>4. ASSUME NEW r \in Replicas, NEW key \in Names, enable_kpi(r, key)
      PROVE  Unmoved
  BY <1>4 DEF enable_kpi, Edit, Unmoved
<1>5. ASSUME NEW p \in Cadences, create_digest(p) \/ set_periodicity(p)
      PROVE  Dated
  <2>1. today + Step[p] \in Dates
    OBVIOUS
  <2>2. row' \in Row
    <3>1. CASE create_digest(p)
      BY <2>1, <3>1 DEF create_digest
    <3>2. CASE set_periodicity(p)
      BY <2>1, <3>2 DEF set_periodicity
    <3>3. QED
      BY <1>5, <3>1, <3>2
  <2>3. QED
    BY <1>5, <2>2 DEF create_digest, set_periodicity, Edit, Dated
<1>6. ASSUME NEW p \in Cadences, NEW d \in GivenDates, CreateByRoute(p, d) \/ Update(p, d)
      PROVE  Dated
  <2>1. d \in Dates
    BY DEF GivenDates
  <2>2. row' \in Row
    <3>1. CASE CreateByRoute(p, d)
      BY <2>1, <3>1 DEF CreateByRoute
    <3>2. CASE Update(p, d)
      BY <2>1, <3>2 DEF Update
    <3>3. QED
      BY <1>6, <3>1, <3>2
  <2>3. QED
    BY <1>6, <2>2 DEF CreateByRoute, Update, Edit, Dated
<1>7. ASSUME NEW s \in {"activated", "deactivated"}, set_state(s)
      PROVE  Unmoved
  BY <1>7 DEF set_state, Edit, Unmoved
<1>8. ASSUME SoftDelete \/ Restore \/ \E p \in Cadences : UpdateCadence(p)
      PROVE  Unmoved
  BY <1>8 DEF SoftDelete, Restore, UpdateCadence, Live, Edit, Unmoved
<1>9. CASE Purge
  BY <1>9 DEF Purge, Edit, Emptied
<1>10. ASSUME NEW key \in Names, \/ CreateKpiByRoute(key) \/ disable_kpi(key)
                                 \/ \E new \in Names : UpdateKpi(key, new)
                                 \/ TrashKpi(key) \/ RestoreKpi(key) \/ PurgeKpi(key)
       PROVE  Unmoved
  BY <1>10 DEF CreateKpiByRoute, disable_kpi, UpdateKpi, TrashKpi, RestoreKpi, PurgeKpi,
               WriteKpis, Edit, Unmoved
<1>11. ASSUME NEW k \in Clerks, NEW verb \in Verbs, CheckTransition(k, verb)
       PROVE  Unmoved
  BY <1>11 DEF CheckTransition, bounds, Unmoved
<1>12. ASSUME NEW k \in Clerks, WriteTransition(k)
       PROVE  Unmoved
  BY <1>12 DEF WriteTransition, Moved, target_state, Live, bounds, Unmoved
<1>13. QED
  BY <1>1, <1>2, <1>3, <1>4, <1>5, <1>6, <1>7, <1>8, <1>9, <1>10, <1>11, <1>12 DEF Next

LEMMA Inductive ==
  ASSUME RowTyped, SettledOncePerDate, [Next]_vars
  PROVE  RowTyped' /\ SettledOncePerDate'
<1> USE DEF RowTyped, SettledOncePerDate, IsDue
<1>1. CASE UNCHANGED vars
  BY <1>1 DEF vars
<1>2. CASE Next
  <2>1. CASE Unmoved
    BY <2>1 DEF Unmoved
  <2>2. CASE Dated
    BY <2>2 DEF Dated
  <2>3. CASE Emptied
    BY <2>3, NoRowTyped DEF Emptied, NoRow
  <2>4. CASE Settled
    BY <2>4 DEF Settled
  <2>5. CASE NewDay
    BY <2>5 DEF NewDay
  <2>6. QED
    BY <1>2, <2>1, <2>2, <2>3, <2>4, <2>5, StepKinds
<1>3. QED
  BY <1>1, <1>2

\* The pull settles a digest once for every date it is given on a day.
THEOREM SettledOncePerDateHolds == Spec => []SettledOncePerDate
<1>1. Init => RowTyped /\ SettledOncePerDate
  BY NoRowTyped DEF Init, RowTyped, SettledOncePerDate, IsDue, NoRow
<1>2. RowTyped /\ SettledOncePerDate /\ [Next]_vars => RowTyped' /\ SettledOncePerDate'
  BY Inductive
<1>3. QED
  BY <1>1, <1>2, PTL DEF Spec

-----------------------------------------------------------------------------
\* A step that sends leaves the registry and the KPI rows alone; every other
\* step leaves no mail to look at.
LEMMA MailKinds ==
  ASSUME Next
  PROVE  \/ mail' = NoMail
         \/ \E r \in Replicas : /\ proc[r].up /\ Linked(r) /\ mail' = Render(r)
                                /\ UNCHANGED <<proc, kpis>>
<1>1. ASSUME NEW r \in Replicas, NEW sent \in BOOLEAN, NEW full \in BOOLEAN, NEW p \in Cadences,
             Pull(r, sent, full, p)
      PROVE  \/ mail' = NoMail
             \/ proc[r].up /\ Linked(r) /\ mail' = Render(r) /\ UNCHANGED <<proc, kpis>>
  BY <1>1 DEF Pull
<1>2. ASSUME NEW r \in Replicas, send_now(r)
      PROVE  proc[r].up /\ Linked(r) /\ mail' = Render(r) /\ UNCHANGED <<proc, kpis>>
  BY <1>2 DEF send_now
<1>3. Edit => mail' = NoMail
  BY DEF Edit
<1>4. QED
  BY <1>1, <1>2, <1>3
     DEF Next, NextDay, build, register_kpi, RegisterNext, Stop, enable_kpi, create_digest, set_periodicity,
         CreateByRoute, Update, UpdateCadence, set_state, SoftDelete, Restore, Purge, WriteKpis,
         CreateKpiByRoute, UpdateKpi, TrashKpi, RestoreKpi, PurgeKpi,
         disable_kpi, CheckTransition, WriteTransition

-----------------------------------------------------------------------------
Paused == row.state # "none" /\ row'.state \notin {"none", row.state}
            => row' = [row EXCEPT !.state = row'.state]

LEMMA StateMovesAlone ==
  ASSUME RowTyped, Next
  PROVE  Paused
<1> USE DEF RowTyped, Row, Paused
<1>1. row' = row => Paused
  OBVIOUS
<1>2. ASSUME NEW r \in Replicas, NEW sent \in BOOLEAN, NEW full \in BOOLEAN, NEW p \in Cadences,
             Pull(r, sent, full, p)
      PROVE  Paused
  BY <1>2 DEF Pull
<1>3. ASSUME NEW p \in Cadences, create_digest(p) \/ set_periodicity(p)
      PROVE  Paused
  BY <1>3 DEF create_digest, set_periodicity
<1>4. ASSUME NEW p \in Cadences, NEW d \in GivenDates, CreateByRoute(p, d) \/ Update(p, d)
      PROVE  Paused
  BY <1>4 DEF CreateByRoute, Update
<1>5. ASSUME NEW s \in {"activated", "deactivated"}, set_state(s)
      PROVE  Paused
  BY <1>5 DEF set_state
<1>6. ASSUME SoftDelete \/ Restore \/ \E p \in Cadences : UpdateCadence(p)
      PROVE  Paused
  BY <1>6 DEF SoftDelete, Restore, UpdateCadence
<1>7. CASE Purge
  BY <1>7 DEF Purge, NoRow
<1>8. ASSUME NEW k \in Clerks, WriteTransition(k)
      PROVE  Paused
  BY <1>8 DEF WriteTransition, Moved, target_state
<1>9. ASSUME NEW r \in Replicas,
             \/ \E host \in Hosts, secret \in Secrets, url \in BOOLEAN :
                  <<secret, url>> \in Settings /\ build(r, host, secret, url)
             \/ \E def \in Definitions : register_kpi(r, def)
             \/ RegisterNext(r) \/ Stop(r) \/ send_now(r)
      PROVE  row' = row
  BY <1>9 DEF build, register_kpi, RegisterNext, Stop, send_now
<1>10. ASSUME NEW key \in Names,
              \/ \E r \in Replicas : enable_kpi(r, key)
              \/ CreateKpiByRoute(key) \/ disable_kpi(key)
              \/ \E new \in Names : UpdateKpi(key, new)
              \/ TrashKpi(key) \/ RestoreKpi(key) \/ PurgeKpi(key)
       PROVE  row' = row
  BY <1>10 DEF enable_kpi, WriteKpis, CreateKpiByRoute, UpdateKpi, TrashKpi, RestoreKpi,
               PurgeKpi, disable_kpi
<1>11. NextDay \/ (\E k \in Clerks, verb \in Verbs : CheckTransition(k, verb)) => row' = row
  BY DEF NextDay, CheckTransition
<1> HIDE DEF RowTyped, Row, Paused
<1>12. QED
  BY <1>1, <1>2, <1>3, <1>4, <1>5, <1>6, <1>7, <1>8, <1>9, <1>10, <1>11 DEF Next

\* Pausing and resuming never moves the schedule.
THEOREM PauseKeepsScheduleHolds == Spec => PauseKeepsSchedule
<1>1. Init => RowTyped /\ SettledOncePerDate
  BY NoRowTyped DEF Init, RowTyped, SettledOncePerDate, IsDue, NoRow
<1>2. RowTyped /\ SettledOncePerDate /\ [Next]_vars => RowTyped' /\ SettledOncePerDate'
  BY Inductive
<1>3. RowTyped /\ [Next]_vars => [Paused]_vars
  BY StateMovesAlone
<1>4. QED
  BY <1>1, <1>2, <1>3, PTL DEF Spec, PauseKeepsSchedule, Paused

-----------------------------------------------------------------------------
\* What a replica may show: the registry of a build grows by one definition at
\* a time, so it stays a map from names to computers.

LEMMA RegisterTyped ==
  ASSUME NEW entries \in Shown, NEW def \in Definitions
  PROVE  register(entries, def).entries \in Shown
<1>1. PICK keys \in SUBSET Names : entries \in [keys -> Computers]
  BY DEF Shown
<1>2. def.name \in Names /\ def.computer \in Computers
  BY ConfigKpis DEF Computers
<1>3. insert(entries, def) \in [keys \cup {def.name} -> Computers]
  BY <1>1, <1>2 DEF insert
<1>4. insert(entries, def) \in Shown
  BY <1>2, <1>3 DEF Shown
<1> QED
  BY <1>4 DEF register

\* A registration that is not refused adds its definition and keeps the others.
LEMMA RegisterKeeps ==
  ASSUME NEW entries, NEW def, register(entries, def).ok
  PROVE  LET after == register(entries, def).entries
         IN  /\ def.name \in DOMAIN after /\ after[def.name] = def.computer
             /\ \A n \in DOMAIN entries : n \in DOMAIN after /\ after[n] = entries[n]
BY DEF register, insert

LEMMA RenderTyped ==
  ASSUME NEW r \in Replicas, proc[r] \in Process
  PROVE  /\ Render(r).shown \in Shown
         /\ DOMAIN Render(r).shown = DOMAIN proc[r].entries \cap Enabled
         /\ \A n \in DOMAIN Render(r).shown : Render(r).shown[n] = proc[r].entries[n]
<1>1. PICK keys \in SUBSET Names : proc[r].entries \in [keys -> Computers]
  BY DEF Shown, Process
<1>2. Render(r).shown \in [keys \cap Enabled -> Computers]
  BY <1>1 DEF Render, Restrict
<1> QED
  BY <1>1, <1>2 DEF Shown, Render, Restrict

\* What a replica has been composed of so far: every definition it was given is
\* still to come or is behind its name.
Has(p, def) == def.name \in DOMAIN p.entries /\ p.entries[def.name] = def.computer
Composed(p) ==
  /\ p.up => p.todo = <<>>
  /\ p.up \/ p.todo # <<>> =>
       \A def \in Range(Base) \cup p.asked : def \in Range(p.todo) \/ Has(p, def)
ProcInv == proc \in [Replicas -> Process] /\ \A r \in Replicas : Composed(proc[r])

\* The registry of a running replica only grows.
Grows(p, q) == p.up /\ q.up =>
                 \A n \in DOMAIN p.entries : n \in DOMAIN q.entries /\ q.entries[n] = p.entries[n]
Grown == \A r \in Replicas : Grows(proc[r], proc'[r])

LEMMA DownComposed == Down \in Process /\ Composed(Down)
<1>1. <<>> \in [{} -> Computers]
  OBVIOUS
<1>2. <<>> \in Shown
  BY <1>1 DEF Shown
<1> QED
  BY <1>2 DEF Down, Process, Secrets, Composed

LEMMA BuildComposed ==
  ASSUME NEW host \in Hosts, NEW secret \in Secrets, NEW url \in BOOLEAN
  PROVE  LET p == [Down EXCEPT !.asked = Range(host), !.todo = Composition(host),
                               !.secret = secret, !.url = url]
         IN  p \in Process /\ Composed(p) /\ ~p.up
<1> DEFINE p == [Down EXCEPT !.asked = Range(host), !.todo = Composition(host),
                             !.secret = secret, !.url = url]
<1>1. /\ Base \in Seq(Definitions) /\ host \in Seq(Definitions)
      /\ Range(host) \in SUBSET Definitions
  BY ConfigKpis DEF Definitions
<1>2. Base \o host \in Seq(Definitions)
  BY <1>1
<1>3. \A def \in Range(Base) \cup Range(host) : def \in Range(Base \o host)
  <2> TAKE def \in Range(Base) \cup Range(host)
  <2>1. CASE def \in Range(Base)
    <3>1. PICK i \in DOMAIN Base : def = Base[i]
      BY <2>1 DEF Range
    <3>2. i \in DOMAIN (Base \o host) /\ (Base \o host)[i] = def
      BY <1>1, <3>1
    <3> QED
      BY <3>2 DEF Range
  <2>2. CASE def \in Range(host)
    <3>1. PICK i \in DOMAIN host : def = host[i]
      BY <2>2 DEF Range
    <3>2. /\ Len(Base) + i \in DOMAIN (Base \o host)
          /\ (Base \o host)[Len(Base) + i] = def
      BY <1>1, <3>1
    <3> QED
      BY <3>2 DEF Range
  <2> QED
    BY <2>1, <2>2
<1>4. p \in Process
  BY <1>1, <1>2, DownComposed DEF Process, Composition
<1>5. p.asked = Range(host) /\ p.todo = Base \o host /\ p.up = FALSE
  BY DEF Down, Composition
<1> HIDE DEF p
<1>6. Composed(p)
  BY <1>3, <1>5 DEF Composed
<1> QED
  BY <1>4, <1>5, <1>6 DEF p

LEMMA NextComposed ==
  ASSUME NEW p \in Process, Composed(p), p.todo # <<>>,
         NEW reg, reg = register(p.entries, Head(p.todo)), reg.ok
  PROVE  LET q == [p EXCEPT !.up = Tail(p.todo) = <<>>, !.entries = reg.entries, !.todo = Tail(p.todo)]
         IN  q \in Process /\ Composed(q)
<1> DEFINE q == [p EXCEPT !.up = Tail(p.todo) = <<>>, !.entries = reg.entries, !.todo = Tail(p.todo)]
<1>1. p.todo \in Seq(Definitions) /\ p.entries \in Shown
  BY DEF Process
<1>2. Head(p.todo) \in Definitions /\ Tail(p.todo) \in Seq(Definitions)
  BY <1>1
<1>3. reg.entries \in Shown
  BY <1>1, <1>2, RegisterTyped
<1>4. q \in Process
  BY <1>2, <1>3 DEF Process
<1>5. /\ q.up = (Tail(p.todo) = <<>>) /\ q.entries = reg.entries /\ q.todo = Tail(p.todo)
      /\ q.asked = p.asked
  BY DEF Process
<1> HIDE DEF q
<1>6. ASSUME NEW def \in Range(p.todo) PROVE def = Head(p.todo) \/ def \in Range(Tail(p.todo))
  <2>1. PICK i \in DOMAIN p.todo : def = p.todo[i]
    BY DEF Range
  <2>2. CASE i = 1
    BY <1>1, <2>1, <2>2
  <2>3. CASE i # 1
    <3>1. i - 1 \in DOMAIN Tail(p.todo) /\ Tail(p.todo)[i - 1] = def
      BY <1>1, <2>1, <2>3
    <3> QED
      BY <3>1 DEF Range
  <2> QED
    BY <2>2, <2>3
<1>7. ASSUME NEW def \in Range(Base) \cup p.asked PROVE def \in Range(q.todo) \/ Has(q, def)
  <2>1. def \in Range(p.todo) \/ Has(p, def)
    BY DEF Composed
  <2>2. CASE Has(p, def)
    BY <1>5, <2>2, RegisterKeeps DEF Has
  <2>3. CASE def = Head(p.todo)
    BY <1>5, <2>3, RegisterKeeps DEF Has
  <2> QED
    BY <1>5, <1>6, <2>1, <2>2, <2>3
<1>8. Composed(q)
  BY <1>5, <1>7 DEF Composed
<1> QED
  BY <1>4, <1>8 DEF q

LEMMA LateComposed ==
  ASSUME NEW p \in Process, Composed(p), p.up, NEW def \in Definitions,
         NEW reg, reg = register(p.entries, def), reg.ok
  PROVE  LET q == [p EXCEPT !.entries = reg.entries, !.asked = p.asked \cup {def}]
         IN  q \in Process /\ Composed(q) /\ Grows(p, q)
<1> DEFINE q == [p EXCEPT !.entries = reg.entries, !.asked = p.asked \cup {def}]
<1>1. reg.entries \in Shown
  BY RegisterTyped DEF Process
<1>2. q \in Process
  BY <1>1 DEF Process
<1>3. q.up = p.up /\ q.entries = reg.entries /\ q.todo = p.todo /\ q.asked = p.asked \cup {def}
  BY DEF Process
<1> HIDE DEF q
<1>4. ASSUME NEW d \in Range(Base) \cup q.asked PROVE d \in Range(q.todo) \/ Has(q, d)
  <2>1. CASE d = def
    BY <1>3, <2>1, RegisterKeeps DEF Has
  <2>2. CASE d # def
    <3>1. d \in Range(p.todo) \/ Has(p, d)
      BY <1>3, <2>2 DEF Composed
    <3> QED
      BY <1>3, <3>1, RegisterKeeps DEF Has
  <2> QED
    BY <2>1, <2>2
<1>5. Composed(q)
  BY <1>3, <1>4 DEF Composed
<1>6. Grows(p, q)
  BY <1>3, RegisterKeeps DEF Grows
<1> QED
  BY <1>2, <1>5, <1>6 DEF q

LEMMA ProcKinds ==
  ASSUME Next
  PROVE  \/ proc' = proc
         \/ \E r \in Replicas :
              \/ \E host \in Hosts, secret \in Secrets, url \in BOOLEAN :
                   <<secret, url>> \in Settings /\ build(r, host, secret, url)
              \/ \E def \in Definitions : register_kpi(r, def)
              \/ RegisterNext(r) \/ Stop(r)
<1>1. Edit => proc' = proc
  BY DEF Edit
<1>2. QED
  BY <1>1
     DEF Next, NextDay, Pull, send_now, enable_kpi, create_digest, set_periodicity,
         CreateByRoute, Update, UpdateCadence, set_state, SoftDelete, Restore, Purge, WriteKpis,
         CreateKpiByRoute, UpdateKpi, TrashKpi, RestoreKpi, PurgeKpi,
         disable_kpi, CheckTransition, WriteTransition

\* One replica is composed on; the others are as they were.
LEMMA OneReplica ==
  ASSUME ProcInv, NEW r \in Replicas, NEW q \in Process, Composed(q), Grows(proc[r], q),
         proc' = [proc EXCEPT ![r] = q]
  PROVE  ProcInv' /\ Grown
<1>1. proc' \in [Replicas -> Process]
  BY DEF ProcInv
<1>2. ASSUME NEW s \in Replicas PROVE Composed(proc'[s]) /\ Grows(proc[s], proc'[s])
  <2>1. CASE s = r
    BY <2>1 DEF ProcInv
  <2>2. CASE s # r
    <3>1. proc'[s] = proc[s]
      BY <2>2 DEF ProcInv
    <3> QED
      BY <3>1 DEF ProcInv, Grows
  <2> QED
    BY <2>1, <2>2
<1>3. \A s \in Replicas : Composed(proc'[s])
  BY <1>2
<1>4. ProcInv'
  BY <1>1, <1>3 DEF ProcInv, Composed, Has
<1> QED
  BY <1>2, <1>4 DEF Grown

LEMMA ProcInductive ==
  ASSUME ProcInv, [Next]_vars
  PROVE  ProcInv' /\ Grown
<1>1. CASE proc' = proc
  BY <1>1 DEF ProcInv, Composed, Has, Grown, Grows
<1>2. ASSUME NEW r \in Replicas, NEW host \in Hosts, NEW secret \in Secrets, NEW url \in BOOLEAN,
             build(r, host, secret, url)
      PROVE  ProcInv' /\ Grown
  <2> DEFINE q == [Down EXCEPT !.asked = Range(host), !.todo = Composition(host),
                               !.secret = secret, !.url = url]
  <2>1. proc' = [proc EXCEPT ![r] = q]
    BY <1>2 DEF build
  <2>2. q \in Process /\ Composed(q) /\ ~q.up
    BY BuildComposed
  <2> HIDE DEF q
  <2>3. Grows(proc[r], q)
    BY <2>2 DEF Grows
  <2> QED
    BY <2>1, <2>2, <2>3, OneReplica
<1>3. ASSUME NEW r \in Replicas, NEW def \in Definitions, register_kpi(r, def)
      PROVE  ProcInv' /\ Grown
  <2> DEFINE p == proc[r]  reg == register(p.entries, def)
             q == [p EXCEPT !.entries = reg.entries, !.asked = p.asked \cup {def}]
  <2>1. p.up /\ reg.ok /\ proc' = [proc EXCEPT ![r] = q]
    BY <1>3 DEF register_kpi
  <2>2. p \in Process /\ Composed(p)
    BY DEF ProcInv
  <2> HIDE DEF p, reg
  <2>3. q \in Process /\ Composed(q) /\ Grows(p, q)
    BY <2>1, <2>2, LateComposed DEF reg
  <2> HIDE DEF q
  <2> QED
    BY <2>1, <2>3, OneReplica DEF p
<1>4. ASSUME NEW r \in Replicas, RegisterNext(r)
      PROVE  ProcInv' /\ Grown
  <2> DEFINE p == proc[r]  reg == register(p.entries, Head(p.todo))
             q == [p EXCEPT !.up = Tail(p.todo) = <<>>, !.entries = reg.entries, !.todo = Tail(p.todo)]
  <2>1. p.todo # <<>> /\ proc' = [proc EXCEPT ![r] = IF reg.ok THEN q ELSE Down]
    BY <1>4 DEF RegisterNext
  <2>2. p \in Process /\ Composed(p)
    BY DEF ProcInv
  <2>3. ~p.up
    BY <2>1, <2>2 DEF Composed
  <2> HIDE DEF p, reg
  <2>4. reg.ok => q \in Process /\ Composed(q)
    BY <2>1, <2>2, NextComposed DEF reg
  <2> HIDE DEF q
  <2> DEFINE n == IF reg.ok THEN q ELSE Down
  <2>5. n \in Process /\ Composed(n) /\ Grows(p, n)
    BY <2>3, <2>4, DownComposed DEF Grows
  <2>6. proc' = [proc EXCEPT ![r] = n]
    BY <2>1
  <2> HIDE DEF n
  <2> QED
    BY <2>5, <2>6, OneReplica DEF p
<1>5. ASSUME NEW r \in Replicas, Stop(r)
      PROVE  ProcInv' /\ Grown
  <2>1. proc' = [proc EXCEPT ![r] = Down]
    BY <1>5 DEF Stop
  <2>2. Down \in Process /\ Composed(Down) /\ Grows(proc[r], Down)
    BY DownComposed DEF Grows, Down
  <2> QED
    BY <2>1, <2>2, OneReplica
<1> QED
  BY <1>1, <1>2, <1>3, <1>4, <1>5, ProcKinds DEF vars

LEMMA ProcStarts == Init => ProcInv
BY DownComposed DEF Init, ProcInv

\* While a replica runs, a metric name keeps its computer.
THEOREM OneMeaningPerNameHolds == Spec => OneMeaningPerName
<1>1. ProcInv /\ [Next]_vars => ProcInv' /\ [Grown]_vars
  BY ProcInductive
<1>2. QED
  BY <1>1, ProcStarts, PTL DEF Spec, OneMeaningPerName, Grown, Grows

\* What a mail shows is what its host was allowed to register, by name.
THEOREM MailShowsCompositionHolds == Spec => []MailShowsComposition
<1>1. Init => MailShowsComposition
  BY DEF Init, MailShowsComposition
<1>2. ProcInv /\ MailShowsComposition /\ [Next]_vars => MailShowsComposition'
  <2> SUFFICES ASSUME ProcInv, MailShowsComposition, [Next]_vars
               PROVE  MailShowsComposition'
    OBVIOUS
  <2>1. CASE UNCHANGED vars
    BY <2>1 DEF vars, MailShowsComposition, Enabled
  <2>2. CASE mail' = NoMail
    BY <2>2 DEF MailShowsComposition, NoMail
  <2>3. ASSUME NEW r \in Replicas, mail' = Render(r), UNCHANGED <<proc, kpis>>, proc[r].up
        PROVE  MailShowsComposition'
    <3>1. /\ DOMAIN mail'.shown = DOMAIN proc[r].entries \cap Enabled
          /\ \A n \in DOMAIN mail'.shown : mail'.shown[n] = proc[r].entries[n]
      BY <2>3, RenderTyped DEF ProcInv
    <3>2. mail'.by = r /\ Enabled' = Enabled /\ proc' = proc
      BY <2>3 DEF Render, Enabled
    <3>3. \A def \in Range(Base) \cup proc[r].asked :
            def.name \in DOMAIN proc[r].entries /\ proc[r].entries[def.name] = def.computer
      BY <2>3 DEF ProcInv, Composed, Has, Range
    <3> QED
      BY <3>1, <3>2, <3>3 DEF MailShowsComposition
  <2> QED
    BY <2>1, <2>2, <2>3, MailKinds
<1> QED
  BY <1>1, <1>2, ProcInductive, ProcStarts, PTL DEF Spec

-----------------------------------------------------------------------------
\* The tables and the callers, beside the replicas.
Tables == /\ kpis \in [Names -> KpiRow]
          /\ row.state = "none" => kpis = NoKpis
          /\ clerk \in [Clerks -> [verb : Verbs \cup {Null}, read : Row]]
Counts == today \in 1 .. LastDay /\ edits \in 0 .. MaxEdits /\ starts \in 0 .. MaxStarts

LEMMA NoVerbTyped == NoVerb \in [verb : Verbs \cup {Null}, read : Row]
BY NoRowTyped DEF NoVerb

LEMMA EditCounts == Counts /\ Edit => Counts'
BY ConfigNat DEF Counts, Edit

\* A write to the digest's row alone keeps the foreign key if the row stays.
LEMMA RowWritten ==
  ASSUME Tables, UNCHANGED <<kpis, clerk>>, row'.state = "none" => row.state = "none"
  PROVE  Tables'
BY DEF Tables

\* A write to one KPI row, of a digest that is there.
LEMMA KpiWritten ==
  ASSUME Tables, row.state # "none", UNCHANGED <<row, clerk>>, kpis' \in [Names -> KpiRow]
  PROVE  Tables'
BY DEF Tables

\* A KPI row says that its digest is there.
LEMMA HasDigest ==
  ASSUME Tables, NEW key \in Names, kpis[key] # "absent"
  PROVE  row.state # "none"
BY DEF Tables, NoKpis

LEMMA RowStep ==
  ASSUME RowTyped, Tables, Counts, Next
  PROVE  Tables' /\ Counts'
<1>1. CASE NextDay
  <2>1. Counts'
    BY <1>1, ConfigNat DEF NextDay, bounds, Counts
  <2>2. Tables'
    BY <1>1, RowWritten DEF NextDay
  <2> QED
    BY <2>1, <2>2
<1>2. ASSUME NEW r \in Replicas, NEW host \in Hosts, NEW secret \in Secrets, NEW url \in BOOLEAN,
             build(r, host, secret, url)
      PROVE  Tables' /\ Counts'
  <2>1. Counts'
    BY <1>2, ConfigNat DEF build, Counts
  <2>2. Tables'
    BY <1>2, RowWritten DEF build
  <2> QED
    BY <2>1, <2>2
<1>3. ASSUME NEW r \in Replicas, \/ \E def \in Definitions : register_kpi(r, def)
                                \/ RegisterNext(r) \/ Stop(r) \/ send_now(r)
      PROVE  Tables' /\ Counts'
  <2>1. UNCHANGED <<today, row, kpis, clerk, bounds>>
    BY <1>3 DEF register_kpi, RegisterNext, Stop, send_now
  <2> QED
    BY <2>1, RowWritten DEF bounds, Counts
<1>4. ASSUME NEW r \in Replicas, NEW sent \in BOOLEAN, NEW full \in BOOLEAN, NEW p \in Cadences,
             Pull(r, sent, full, p)
      PROVE  Tables' /\ Counts'
  <2>1. UNCHANGED <<today, kpis, clerk, bounds>> /\ row'.state = row.state
    BY <1>4 DEF Pull, RowTyped, Row
  <2> QED
    BY <2>1, RowWritten DEF bounds, Counts
<1>5. ASSUME NEW r \in Replicas, NEW key \in Names, enable_kpi(r, key)
      PROVE  Tables' /\ Counts'
  <2>1. /\ row.state # "none" /\ UNCHANGED <<row, clerk>> /\ Edit
        /\ kpis' = [kpis EXCEPT ![key] = IF kpis[key] = "absent" THEN "live" ELSE kpis[key]]
    BY <1>5 DEF enable_kpi
  <2>2. kpis' \in [Names -> KpiRow]
    BY <2>1 DEF Tables, KpiRow
  <2> QED
    BY <2>1, <2>2, KpiWritten, EditCounts
<1>6. ASSUME NEW p \in Cadences, create_digest(p) \/ set_periodicity(p)
      PROVE  Tables' /\ Counts'
  <2>1. Edit /\ UNCHANGED <<kpis, clerk>> /\ row'.state # "none"
    <3>1. CASE create_digest(p)
      BY <3>1 DEF create_digest
    <3>2. CASE set_periodicity(p)
      BY <3>2 DEF set_periodicity, RowTyped, Row
    <3> QED
      BY <1>6, <3>1, <3>2
  <2> QED
    BY <2>1, RowWritten, EditCounts
<1>7. ASSUME NEW p \in Cadences, NEW d \in GivenDates, CreateByRoute(p, d) \/ Update(p, d)
      PROVE  Tables' /\ Counts'
  <2>1. Edit /\ UNCHANGED <<kpis, clerk>> /\ row'.state # "none"
    <3>1. CASE CreateByRoute(p, d)
      BY <3>1 DEF CreateByRoute
    <3>2. CASE Update(p, d)
      BY <3>2 DEF Update, Live, RowTyped, Row
    <3> QED
      BY <1>7, <3>1, <3>2
  <2> QED
    BY <2>1, RowWritten, EditCounts
<1>8. ASSUME NEW s \in {"activated", "deactivated"}, set_state(s)
      PROVE  Tables' /\ Counts'
  <2>1. Edit /\ UNCHANGED <<kpis, clerk>> /\ row'.state # "none"
    BY <1>8 DEF set_state, RowTyped, Row
  <2> QED
    BY <2>1, RowWritten, EditCounts
<1>9. ASSUME SoftDelete \/ Restore \/ \E p \in Cadences : UpdateCadence(p)
      PROVE  Tables' /\ Counts'
  <2>1. Edit /\ UNCHANGED <<kpis, clerk>> /\ row'.state = row.state
    BY <1>9 DEF SoftDelete, Restore, UpdateCadence, RowTyped, Row
  <2> QED
    BY <2>1, RowWritten, EditCounts
<1>10. CASE Purge
  <2>1. Edit /\ kpis' = NoKpis /\ clerk' = [k \in Clerks |-> NoVerb]
    BY <1>10 DEF Purge
  <2>2. Tables'
    BY <2>1, NoVerbTyped DEF Tables, NoKpis, KpiRow
  <2> QED
    BY <2>1, <2>2, EditCounts
<1>11. ASSUME NEW key \in Names, \/ CreateKpiByRoute(key) \/ disable_kpi(key)
                                 \/ \E new \in Names : UpdateKpi(key, new)
                                 \/ TrashKpi(key) \/ RestoreKpi(key) \/ PurgeKpi(key)
       PROVE  Tables' /\ Counts'
  <2>1. UNCHANGED <<row, clerk>> /\ Edit
    BY <1>11 DEF CreateKpiByRoute, disable_kpi, UpdateKpi, TrashKpi, RestoreKpi, PurgeKpi, WriteKpis
  <2>2. row.state # "none"
    <3>1. CASE CreateKpiByRoute(key)
      BY <3>1 DEF CreateKpiByRoute
    <3>2. CASE ~CreateKpiByRoute(key)
      BY <1>11, <3>2, HasDigest DEF disable_kpi, UpdateKpi, TrashKpi, RestoreKpi, PurgeKpi
    <3> QED
      BY <3>1, <3>2
  <2>3. kpis' \in [Names -> KpiRow]
    BY <1>11 DEF Tables, KpiRow, CreateKpiByRoute, disable_kpi, UpdateKpi, Rekeyed, TrashKpi,
                 RestoreKpi, PurgeKpi, WriteKpis
  <2> QED
    BY <2>1, <2>2, <2>3, KpiWritten, EditCounts
<1>12. ASSUME NEW k \in Clerks, \/ \E verb \in Verbs : CheckTransition(k, verb)
                                \/ WriteTransition(k)
       PROVE  Tables' /\ Counts'
  <2>1. UNCHANGED <<today, kpis, bounds>>
    BY <1>12 DEF CheckTransition, WriteTransition
  <2>2. clerk' \in [Clerks -> [verb : Verbs \cup {Null}, read : Row]]
    <3>1. ASSUME NEW verb \in Verbs, CheckTransition(k, verb)
          PROVE  clerk' \in [Clerks -> [verb : Verbs \cup {Null}, read : Row]]
      BY <3>1 DEF CheckTransition, Tables, RowTyped
    <3>2. CASE WriteTransition(k)
      BY <3>2, NoVerbTyped DEF WriteTransition, Tables
    <3> QED
      BY <1>12, <3>1, <3>2
  <2>3. row'.state = "none" => row.state = "none"
    <3>1. Moved(k).state # "none"
      BY DEF Moved, target_state, RowTyped, Row
    <3> QED
      BY <1>12, <3>1 DEF CheckTransition, WriteTransition
  <2> QED
    BY <2>1, <2>2, <2>3 DEF Tables, Counts, bounds
<1> QED
  BY <1>1, <1>2, <1>3, <1>4, <1>5, <1>6, <1>7, <1>8, <1>9, <1>10, <1>11, <1>12 DEF Next

Mailed == mail \in [by : Replicas \cup {Null}, shown : Shown]

LEMMA NoMailTyped == NoMail \in [by : Replicas \cup {Null}, shown : Shown]
BY DownComposed DEF NoMail, Down, Process

LEMMA MailTyped ==
  ASSUME ProcInv, Mailed, [Next]_vars
  PROVE  Mailed'
<1>1. CASE UNCHANGED vars
  BY <1>1 DEF vars, Mailed
<1>2. CASE mail' = NoMail
  BY <1>2, NoMailTyped DEF Mailed
<1>3. ASSUME NEW r \in Replicas, mail' = Render(r)
      PROVE  Mailed'
  <2>1. Render(r).shown \in Shown
    BY RenderTyped DEF ProcInv
  <2> QED
    BY <1>3, <2>1 DEF Mailed, Render
<1> QED
  BY <1>1, <1>2, <1>3, MailKinds

ConfigInv == RowTyped /\ SettledOncePerDate /\ Tables /\ Counts /\ ProcInv /\ Mailed

LEMMA ConfigMoves == ConfigInv /\ [Next]_vars => ConfigInv'
<1> SUFFICES ASSUME ConfigInv, [Next]_vars PROVE ConfigInv'
  OBVIOUS
<1>1. RowTyped' /\ SettledOncePerDate' /\ ProcInv' /\ Mailed'
  BY Inductive, ProcInductive, MailTyped DEF ConfigInv
<1>2. Tables' /\ Counts'
  <2>1. CASE Next
    BY <2>1, RowStep DEF ConfigInv
  <2>2. CASE UNCHANGED vars
    BY <2>2 DEF vars, bounds, ConfigInv, Tables, Counts
  <2> QED
    BY <2>1, <2>2
<1> QED
  BY <1>1, <1>2 DEF ConfigInv

LEMMA ConfigStarts == Init => ConfigInv
<1> SUFFICES ASSUME Init PROVE ConfigInv
  OBVIOUS
<1>1. RowTyped /\ SettledOncePerDate
  BY NoRowTyped DEF Init, RowTyped, SettledOncePerDate, IsDue, NoRow
<1>2. Tables /\ Counts
  BY NoVerbTyped, ConfigNat DEF Init, Tables, Counts, NoKpis, KpiRow
<1>3. Mailed
  BY NoMailTyped DEF Init, Mailed
<1> QED
  BY <1>1, <1>2, <1>3, ProcStarts DEF ConfigInv

\* The tables, the callers, the replicas and the latest mail keep their types,
\* and no KPI row outlives its digest.
THEOREM ConfigTyped == Spec => []TypeOK
<1>1. ConfigInv => TypeOK
  BY DEF ConfigInv, RowTyped, Tables, Counts, ProcInv, Mailed, TypeOK
<1> QED
  BY <1>1, ConfigStarts, ConfigMoves, PTL DEF Spec

===============================================================================
