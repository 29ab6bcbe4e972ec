------------------------ MODULE DigestScheduleProofs ------------------------
(* DigestSchedule keeps its promise for every set of digests, every horizon   *)
(* and every calendar whose cadences are later than today.                    *)
EXTENDS DigestSchedule, TLAPS

USE DEF Days, Row

LEMMA NextRungIsPeriodicity ==
  ASSUME NEW p \in Periodicities
  PROVE  NextRung(p) \in Periodicities
BY DEF NextRung, Periodicities

LEMMA InitInv == Init => ScheduleInv
BY ScheduleBounds
   DEF Init, ScheduleInv, TypeOK, BatchIsDue, SettledOnce, SettledOnceAt, Periodicities

\* Opening a batch: the digest is due on t, so no batch of t has settled.
LEMMA OpenInv ==
  ASSUME ScheduleInv, NEW d \in Digests, NEW t \in Days, Open(d, t)
  PROVE  ScheduleInv'
<1> USE ScheduleBounds DEF ScheduleInv, TypeOK, Open
<1>1. TypeOK'
  <2>1. batch' \in [Digests -> Days \cup {NoBatch}]
    OBVIOUS
  <2>2. claims' \in [Digests -> [Days -> Nat]]
    OBVIOUS
  <2>3. UNCHANGED <<day, row, lost>>
    OBVIOUS
  <2>4. QED
    BY <2>1, <2>2, <2>3
<1>2. BatchIsDue'
  BY DEF BatchIsDue, Due
<1>3. SettledOnce'
  <2> SUFFICES ASSUME NEW e \in Digests, NEW u \in Days
               PROVE  SettledOnceAt(e, u)'
    BY DEF SettledOnce, SettledOnceAt
  <2>1. SettledOnceAt(e, u)
    BY DEF SettledOnce, SettledOnceAt
  <2>2. claims[e][u] \in Nat /\ lost[e][u] \in Nat
    OBVIOUS
  <2>3. CASE e = d /\ u = t
    <3>1. ~(row[d].nextRun # NoDate /\ row[d].nextRun > t) /\ batch[d] # t
      BY DEF Due
    <3>2. claims[d][t] = lost[d][t]
      BY <2>1, <2>2, <2>3, <3>1 DEF SettledOnceAt
    <3>3. claims'[d][t] = claims[d][t] + 1 /\ batch'[d] = t
      OBVIOUS
    <3>4. QED
      BY <2>2, <2>3, <3>2, <3>3 DEF SettledOnceAt
  <2>4. CASE ~(e = d /\ u = t)
    <3>1. claims'[e][u] = claims[e][u] /\ (batch'[e] = u <=> batch[e] = u)
      <4>1. claims'[e][u] = claims[e][u]
        BY <2>4
      <4>2. e = d => batch[e] = NoBatch /\ batch'[e] = t /\ t # u
        BY <2>4
      <4>3. e # d => batch'[e] = batch[e]
        OBVIOUS
      <4> HIDE DEF ScheduleInv, TypeOK, Open
      <4>4. QED
        BY <4>1, <4>2, <4>3
    <3>2. UNCHANGED <<day, row, lost>>
      OBVIOUS
    <3>3. QED
      BY <2>1, <3>1, <3>2 DEF SettledOnceAt
  <2>5. QED
    BY <2>3, <2>4
<1>4. QED
  BY <1>1, <1>2, <1>3

\* Closing a batch: its date settles, and the new due date lies beyond every
\* date settled before, all of which lie before the date of the batch.
LEMMA CloseInv ==
  ASSUME ScheduleInv, NEW d \in Digests, Close(d)
  PROVE  ScheduleInv'
<1> USE ScheduleBounds DEF ScheduleInv, TypeOK
<1>0. row[d] \in Row /\ row \in [Digests -> Row]
  OBVIOUS
<1>1. PICK t \in Days : batch[d] = t /\ t <= day /\ Due(d, t)
  BY DEF Close, BatchIsDue
<1>2. PICK r \in Row : /\ row' = [row EXCEPT ![d] = r]
                       /\ r.nextRun \in Nat
                       /\ r.nextRun > t
  <2>1. CASE row' = [row EXCEPT ![d].nextRun = t + 1]
    <3> DEFINE r == [row[d] EXCEPT !.nextRun = t + 1]
    <3>1. r \in Row /\ r.nextRun \in Nat /\ r.nextRun > t
      <4> HIDE DEF ScheduleInv, TypeOK
      <4>1. t \in Nat
        OBVIOUS
      <4>2. QED
        BY <1>0, <4>1
    <3>2. row' = [row EXCEPT ![d] = r]
      BY <1>0, <2>1
    <3> HIDE DEF r
    <3>3. QED
      BY <3>1, <3>2
  <2>2. ASSUME NEW p \in {row[d].periodicity, NextRung(row[d].periodicity)},
               row' = [row EXCEPT ![d].periodicity = p, ![d].nextRun = Advance(p, t)]
        PROVE  \E r \in Row : /\ row' = [row EXCEPT ![d] = r]
                              /\ r.nextRun \in Nat
                              /\ r.nextRun > t
    <3>1. p \in Periodicities
      BY NextRungIsPeriodicity
    <3>2. Advance(p, t) \in Nat /\ Advance(p, t) > t
      BY <3>1, LaterDueDate
    <3> DEFINE r == [row[d] EXCEPT !.periodicity = p, !.nextRun = Advance(p, t)]
    <3>3. r \in Row /\ r.nextRun = Advance(p, t)
      <4>1. row[d] \in Row
        OBVIOUS
      <4>2. QED
        BY <3>1, <3>2, <4>1
    <3>4. row' = [row EXCEPT ![d] = r]
      BY <2>2
    <3> HIDE DEF r
    <3>5. QED
      BY <3>2, <3>3, <3>4
  <2>3. QED
    BY <1>1, <2>1, <2>2 DEF Close
<1>3. /\ batch' = [batch EXCEPT ![d] = NoBatch]
      /\ UNCHANGED <<day, claims, lost>>
  BY DEF Close
<1>4. TypeOK'
  BY <1>2, <1>3
<1>5. BatchIsDue'
  BY <1>2, <1>3 DEF BatchIsDue, Due
<1>6. SettledOnce'
  <2> SUFFICES ASSUME NEW e \in Digests, NEW u \in Days
               PROVE  SettledOnceAt(e, u)'
    BY DEF SettledOnce, SettledOnceAt
  <2>1. SettledOnceAt(e, u) /\ claims[e][u] \in Nat /\ lost[e][u] \in Nat
    BY DEF SettledOnce, SettledOnceAt
  <2>2. CASE e # d
    <3>1. row'[e] = row[e] /\ batch'[e] = batch[e]
      BY <1>2, <1>3, <2>2
    <3>2. QED
      BY <1>3, <2>1, <3>1 DEF SettledOnceAt
  <2>3. CASE e = d
    <3>1. row'[d] = r /\ batch'[d] # u /\ row[d].nextRun \in Nat /\ row[d].nextRun <= t
      <4>1. row'[d] = r /\ batch'[d] # u
        <5>1. batch'[d] = NoBatch
          BY <1>3
        <5> HIDE DEF ScheduleInv, TypeOK
        <5>2. row'[d] = r
          BY <1>0, <1>2
        <5>3. QED
          BY <5>1, <5>2
      <4> HIDE DEF ScheduleInv, TypeOK
      <4>2. row[d].nextRun \in Nat /\ row[d].nextRun <= t
        BY <1>0, <1>1 DEF Due
      <4>3. QED
        BY <4>1, <4>2
    <3>2. CASE u = t
      <4>1. claims[d][t] = lost[d][t] + 1
        BY <1>1, <2>1, <2>3, <3>1, <3>2 DEF SettledOnceAt
      <4>2. QED
        BY <1>1, <1>2, <1>3, <2>1, <2>3, <3>1, <3>2, <4>1 DEF SettledOnceAt
    <3>3. CASE u # t
      <4>1. row[d].nextRun > u => r.nextRun > u
        <5>1. row[d].nextRun > u => t > u
          BY <3>1
        <5>2. t > u => r.nextRun > u
          BY <1>2
        <5>3. QED
          BY <5>1, <5>2
      <4>2. r.nextRun # NoDate
        BY <1>2
      <4>3. batch[d] # u
        BY <1>1, <3>3
      <4>4. QED
        BY <1>3, <2>1, <2>3, <3>1, <4>1, <4>2, <4>3 DEF SettledOnceAt
    <3>4. QED
      BY <3>2, <3>3
  <2>4. QED
    BY <2>2, <2>3
<1>7. QED
  BY <1>4, <1>5, <1>6

LEMMA LoseInv ==
  ASSUME ScheduleInv, NEW d \in Digests, Lose(d)
  PROVE  ScheduleInv'
<1> USE ScheduleBounds DEF ScheduleInv, TypeOK
<1>1. PICK t \in Days : batch[d] = t
  BY DEF Lose
<1>2. /\ batch' = [batch EXCEPT ![d] = NoBatch]
      /\ lost' = [lost EXCEPT ![d][t] = @ + 1]
      /\ UNCHANGED <<day, row, claims>>
  BY <1>1 DEF Lose
<1>3. TypeOK'
  <2>1. batch' \in [Digests -> Days \cup {NoBatch}]
    BY <1>2
  <2>2. lost' \in [Digests -> [Days -> Nat]]
    BY <1>2
  <2>3. QED
    BY <1>2, <2>1, <2>2
<1>4. BatchIsDue'
  BY <1>2 DEF BatchIsDue, Due
<1>5. SettledOnce'
  <2> SUFFICES ASSUME NEW e \in Digests, NEW u \in Days
               PROVE  SettledOnceAt(e, u)'
    BY DEF SettledOnce, SettledOnceAt
  <2>1. SettledOnceAt(e, u) /\ claims[e][u] \in Nat /\ lost[e][u] \in Nat
    BY DEF SettledOnce, SettledOnceAt
  <2>2. CASE e = d /\ u = t
    <3>1. batch[e] = u /\ batch'[e] # u /\ lost'[e][u] = lost[e][u] + 1
      BY <1>1, <1>2, <2>2
    <3>2. QED
      BY <1>2, <2>1, <3>1 DEF SettledOnceAt
  <2>3. CASE ~(e = d /\ u = t)
    <3>1. lost'[e][u] = lost[e][u]
      BY <1>2, <2>3
    <3>2. batch'[e] = u <=> batch[e] = u
      <4>1. CASE e = d
        BY <1>1, <1>2, <2>3, <4>1
      <4>2. CASE e # d
        BY <1>2, <4>2
      <4>3. QED
        BY <4>1, <4>2
    <3>3. QED
      BY <1>2, <2>1, <3>1, <3>2 DEF SettledOnceAt
  <2>4. QED
    BY <2>2, <2>3
<1>6. QED
  BY <1>3, <1>4, <1>5

\* Writing a row: today is not before any settled date, so the new due date is
\* after all of them.
LEMMA WriteInv ==
  ASSUME ScheduleInv, NEW d \in Digests, Write(d)
  PROVE  ScheduleInv'
<1> USE ScheduleBounds DEF ScheduleInv, TypeOK
<1>0. UNCHANGED <<day, batch, claims, lost>> /\ batch[d] = NoBatch
  BY DEF Write
<1>1. PICK r \in Row : /\ row' = [row EXCEPT ![d] = r]
                       /\ \/ r.nextRun = row[d].nextRun
                          \/ r.nextRun \in Nat /\ r.nextRun > day
  <2> DEFINE Written == \E r \in Row : /\ row' = [row EXCEPT ![d] = r]
                                       /\ \/ r.nextRun = row[d].nextRun
                                          \/ r.nextRun \in Nat /\ r.nextRun > day
  <2>0. ASSUME NEW p \in Periodicities
        PROVE  Advance(p, day) \in Nat /\ Advance(p, day) > day
    BY LaterDueDate
  <2>1. ASSUME NEW p \in Periodicities,
               row' = [row EXCEPT ![d] = [periodicity |-> p, nextRun |-> Advance(p, day),
                                          state |-> "activated"]]
        PROVE  Written
    <3>1. [periodicity |-> p, nextRun |-> Advance(p, day), state |-> "activated"] \in Row
      BY <2>0
    <3>2. QED
      BY <2>0, <2>1, <3>1
  <2>2. ASSUME NEW p \in Periodicities,
               row' = [row EXCEPT ![d].periodicity = p, ![d].nextRun = Advance(p, day)]
        PROVE  Written
    <3>1. [row[d] EXCEPT !.periodicity = p, !.nextRun = Advance(p, day)] \in Row
      BY <2>0
    <3>2. QED
      BY <2>0, <2>2, <3>1
  <2>3. ASSUME NEW value \in {"activated", "deactivated"},
               row' = [row EXCEPT ![d].state = value]
        PROVE  Written
    <3> WITNESS [row[d] EXCEPT !.state = value] \in Row
    <3> QED
      BY <2>3
  <2>4. QED
    BY <2>1, <2>2, <2>3 DEF Write
<1>2. TypeOK'
  BY <1>0, <1>1
<1>3. BatchIsDue'
  BY <1>0, <1>1 DEF BatchIsDue, Due
<1>4. SettledOnce'
  BY <1>0, <1>1 DEF SettledOnce, SettledOnceAt
<1>5. QED
  BY <1>2, <1>3, <1>4

LEMMA NextDayInv ==
  ASSUME ScheduleInv, NextDay
  PROVE  ScheduleInv'
<1> USE ScheduleBounds DEF ScheduleInv, TypeOK, NextDay
<1>1. TypeOK'
  OBVIOUS
<1>2. BatchIsDue'
  BY DEF BatchIsDue, Due
<1>3. SettledOnce'
  BY DEF SettledOnce, SettledOnceAt
<1>4. QED
  BY <1>1, <1>2, <1>3

\* The schedule's inductive invariant holds for every instance.
THEOREM ScheduleCorrect == Spec => []ScheduleInv
<1>1. ScheduleInv /\ [Next]_vars => ScheduleInv'
  <2> SUFFICES ASSUME ScheduleInv, [Next]_vars
               PROVE  ScheduleInv'
    OBVIOUS
  <2>1. CASE UNCHANGED vars
    BY <2>1 DEF vars, ScheduleInv, TypeOK, BatchIsDue, SettledOnce, SettledOnceAt, Due
  <2>2. CASE Next
    BY <2>2, OpenInv, CloseInv, LoseInv, WriteInv, NextDayInv DEF Next
  <2>3. QED
    BY <2>1, <2>2
<1>2. QED
  BY InitInv, <1>1, PTL DEF Spec

\* The promise: on a date, a second batch only replaces a lost one.
THEOREM OneBatchPerDateHolds == Spec => []OneBatchPerDate
<1>1. ScheduleInv => OneBatchPerDate
  <2> SUFFICES ASSUME ScheduleInv, NEW d \in Digests, NEW t \in Days
               PROVE  claims[d][t] <= 1 + lost[d][t]
    BY DEF OneBatchPerDate
  <2>1. SettledOnceAt(d, t) /\ claims[d][t] \in Nat /\ lost[d][t] \in Nat
    <3>1. SettledOnceAt(d, t)
      BY DEF ScheduleInv, SettledOnce
    <3>2. claims[d][t] \in Nat /\ lost[d][t] \in Nat
      BY DEF ScheduleInv, TypeOK
    <3>3. QED
      BY <3>1, <3>2
  <2>2. batch[d] = t => claims[d][t] = lost[d][t] + 1
    <3> SUFFICES ASSUME batch[d] = t
                 PROVE  claims[d][t] = lost[d][t] + 1
      OBVIOUS
    <3>1. row[d].nextRun \in Nat /\ row[d].nextRun <= t
      BY ScheduleBounds DEF ScheduleInv, TypeOK, BatchIsDue, Due
    <3>2. QED
      BY <2>1, <3>1 DEF SettledOnceAt
  <2>3. QED
    BY <2>1, <2>2 DEF SettledOnceAt
<1>2. QED
  BY ScheduleCorrect, <1>1, PTL
=============================================================================
