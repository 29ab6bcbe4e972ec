-------------------------- MODULE DigestSweepProofs --------------------------
(***************************************************************************)
(* The daily pull is correct for every set of digests, users, replicas and *)
(* operators, every horizon, every number of faults and edits and every    *)
(* calendar whose cadences are later than today.                           *)
(*                                                                         *)
(* PullInv is inductive (PullCorrect).  From it follow that a claim        *)
(* freezes its row (ClaimFreezesRowHolds) and that each step of the sweeps *)
(* is a step or a stutter of DigestSchedule (SweepImplementsSchedule),     *)
(* whose promise then bounds the claims of a date.  With what one step     *)
(* does to one sweep (SweepMoves) four more properties become inductive:   *)
(* AttemptInv counts the claims each sweep may still make, MailInv the     *)
(* mails each claim has queued and may still queue (with the bound on the  *)
(* claims it gives OneBatchPerDayHolds), ListInv ties the recipient lists  *)
(* to the subscriptions, LadderInv what a batch is about to write to whom  *)
(* it has mailed.                                                          *)
(***************************************************************************)
EXTENDS DigestSweep, FiniteSetTheorems, TLAPS

LEMMA NextRungIsPeriodicity ==
  ASSUME NEW p \in Periodicities
  PROVE  NextRung(p) \in Periodicities
BY DEF NextRung, Periodicities

LEMMA IdleSweepIsSweep == IdleSweep \in Sweep
BY BoundsAreNat DEF IdleSweep, Sweep, Days, Periodicities

LEMMA IdleManualIsManual == IdleManual \in Manual
BY DEF IdleManual, Manual

LEMMA InitInv == Init => PullInv
<1> SUFFICES ASSUME Init PROVE PullInv
  OBVIOUS
<1>1. TypeOK
  <2>1. NoRow \in Row
    BY DEF NoRow, Row, RowState, Periodicities
  <2>2. row \in [Digests -> Row] /\ subs \in [Digests -> [Users -> SubState]]
    BY <2>1 DEF Init, SubState
  <2>3. /\ sweep \in [Sweepers -> Sweep]
        /\ manual \in [Operators -> Manual]
    BY IdleSweepIsSweep, IdleManualIsManual DEF Init
  <2>4. /\ starts \in [Days -> Nat]
        /\ claims \in [Digests -> [Days -> Nat]]
        /\ lost \in [Digests -> [Days -> Nat]]
    BY DEF Init
  <2>5. QED
    BY <2>2, <2>3, <2>4, BoundsAreNat DEF Init, TypeOK, Days
<1>2. LockOwned
  BY DEF Init, LockOwned
<1>3. ASSUME NEW s \in Sweepers PROVE SweeperOK(s)
  <2>1. sweep[s] = IdleSweep /\ day = 0
    BY DEF Init
  <2>2. ~InBatch(s) /\ ~Holds(s)
    BY <2>1 DEF InBatch, Holds, IdleSweep
  <2>3. day \in Nat /\ 0 <= day
    BY <2>1
  <2>4. QED
    BY <2>1, <2>2, <2>3 DEF SweeperOK, IdleSweep
<1>4. QED
  BY <1>1, <1>2, <1>3 DEF PullInv

-----------------------------------------------------------------------------
(* Type correctness *)

LEMMA NextClaimIsSweep ==
  ASSUME TypeOK, NEW s \in Sweepers
  PROVE  NextClaim(s) \in Sweep
BY IdleSweepIsSweep DEF TypeOK, NextClaim, Sweep, IdleSweep

LEMMA SettledRowIsRow ==
  ASSUME TypeOK, NEW s \in Sweepers, InBatch(s)
  PROVE  SettledRow(s) \in Row
<1> DEFINE w == sweep[s]
<1>1. w \in Sweep /\ w.claim \in Digests
  BY DEF TypeOK, InBatch, Sweep
<1>2. w.now \in Days /\ w.now \in Nat /\ w.target \in Periodicities
  BY <1>1, BoundsAreNat DEF Sweep, Days
<1>3. Advance(w.target, w.now) \in Nat
  BY <1>2, AdvanceIsLater
<1>4. row[w.claim] \in Row
  BY <1>1 DEF TypeOK
<1>5. [row[w.claim] EXCEPT !.nextRun = w.now + 1] \in Row
  BY <1>2, <1>4 DEF Row
<1>6. [row[w.claim] EXCEPT !.periodicity = w.target,
                           !.nextRun = Advance(w.target, w.now)] \in Row
  BY <1>2, <1>3, <1>4 DEF Row
<1>7. QED
  BY <1>5, <1>6, Zenon DEF SettledRow

\* The steps of a replica keep the types.
LEMMA PullStepType ==
  ASSUME TypeOK, NEW s \in Sweepers, StartPull(s) \/ PullStep(s)
  PROVE  TypeOK'
<1>0. sweep[s] \in Sweep
  BY DEF TypeOK
<1>1. CASE StartPull(s)
  <2>1. [IdleSweep EXCEPT !.pc = "claim", !.now = day] \in Sweep
    BY IdleSweepIsSweep DEF TypeOK, Sweep
  <2>2. QED
    BY <1>1, <2>1 DEF StartPull, TypeOK, dbVars
<1>2. ASSUME NEW d \in Digests, Claim(s, d) PROVE TypeOK'
  <2>1. [IdleSweep EXCEPT
           !.pc = "read", !.now = sweep[s].now,
           !.processed = sweep[s].processed \cup {d}, !.claim = d,
           !.cadence = row[d].periodicity, !.target = row[d].periodicity] \in Sweep
    BY <1>0, IdleSweepIsSweep DEF TypeOK, Sweep, Row
  <2>2. sweep[s].now \in Days
    BY <1>0 DEF Sweep
  <2>3. QED
    BY <1>2, <2>1, <2>2 DEF Claim, TypeOK
<1>3. CASE Drain(s)
  BY <1>3, IdleSweepIsSweep DEF Drain, TypeOK, dbVars, histVars
<1>4. CASE ReadRecipients(s)
  <2>1. ActiveRecipients(sweep[s].claim) \in SUBSET Users
    BY DEF ActiveRecipients
  <2>2. [sweep[s] EXCEPT !.pc = "judge", !.todo = ActiveRecipients(sweep[s].claim)] \in Sweep
    BY <1>0, <2>1 DEF Sweep
  <2>3. QED
    BY <1>4, <2>2 DEF ReadRecipients, TypeOK, dbVars, histVars
<1>5. CASE JudgeSlowdown(s)
  <2>1. PICK p \in {sweep[s].cadence, NextRung(sweep[s].cadence)} :
           sweep' = [sweep EXCEPT ![s].pc = "send", ![s].target = p]
    BY <1>5 DEF JudgeSlowdown
  <2>2. [sweep[s] EXCEPT !.pc = "send", !.target = p] \in Sweep
    BY <1>0, NextRungIsPeriodicity DEF Sweep
  <2>3. QED
    BY <1>5, <2>1, <2>2 DEF JudgeSlowdown, TypeOK, dbVars, histVars
<1>6. ASSUME NEW u \in Users, SendToRecipient(s, u) PROVE TypeOK'
  <2>1. PICK r \in SendOutcome :
           sweep' = [sweep EXCEPT
                       ![s].todo   = @ \ {u},
                       ![s].failed = @ \/ ~r.ok,
                       ![s].mailed = IF r.enqueued THEN @ \cup {u} ELSE @]
    BY <1>6 DEF SendToRecipient
  <2>2. [sweep[s] EXCEPT !.todo   = @ \ {u},
                         !.failed = @ \/ ~r.ok,
                         !.mailed = IF r.enqueued THEN @ \cup {u} ELSE @] \in Sweep
    BY <1>0 DEF Sweep, SendOutcome
  <2>3. queued' \in [Digests -> [Users -> [Days -> Nat]]]
    <3> DEFINE c == sweep[s].claim
               n == sweep[s].now
    <3>1. queued' \in {queued, [queued EXCEPT ![c][u][n] = @ + 1]}
      BY <1>6 DEF SendToRecipient
    <3>2. n \in Days /\ queued \in [Digests -> [Users -> [Days -> Nat]]]
      BY <1>0 DEF Sweep, TypeOK
    <3> HIDE DEF c, n
    <3>3. [queued EXCEPT ![c][u][n] = @ + 1] \in [Digests -> [Users -> [Days -> Nat]]]
      <4>1. ASSUME c \in Digests PROVE [queued[c][u] EXCEPT ![n] = @ + 1] \in [Days -> Nat]
        BY <3>2, <4>1
      <4>2. QED
        BY <3>2, <4>1
    <3>4. QED
      BY <3>1, <3>2, <3>3
  <2>4. sweep' \in [Sweepers -> Sweep]
    BY <2>1, <2>2 DEF TypeOK
  <2>5. QED
    BY <1>6, <2>3, <2>4 DEF SendToRecipient, TypeOK, dbVars
<1>7. CASE Settle(s)
  BY <1>7, NextClaimIsSweep, SettledRowIsRow DEF Settle, Holds, TypeOK, histVars
<1>8. CASE IsolateBatch(s)
  <2>1. sweep[s].claim \in Digests /\ sweep[s].now \in Days
    BY <1>0, <1>8 DEF IsolateBatch, Holds, InBatch, Sweep
  <2>2. QED
    BY <1>8, <2>1, NextClaimIsSweep DEF IsolateBatch, TypeOK
<1>9. CASE NoticeLostConnection(s)
  BY <1>9, IdleSweepIsSweep DEF NoticeLostConnection, EndInError, TypeOK, dbVars, histVars
<1>10. QED
  BY <1>1, <1>2, <1>3, <1>4, <1>5, <1>6, <1>7, <1>8, <1>9 DEF PullStep

\* So do the faults,
LEMMA SweepFaultType ==
  ASSUME TypeOK, NEW s \in Sweepers, SweepFault(s)
  PROVE  TypeOK'
<1>0. sweep[s] \in Sweep
  BY DEF TypeOK
<1>1. Fault => faults' \in 0 .. MaxFaults
  BY BoundsAreNat DEF Fault, TypeOK
<1>2. AbandonBatch(s) => /\ lock' \in [Digests -> Sweepers \cup {Unlocked}]
                         /\ lost' \in [Digests -> [Days -> Nat]]
  <2> SUFFICES ASSUME AbandonBatch(s)
               PROVE  /\ lock' \in [Digests -> Sweepers \cup {Unlocked}]
                      /\ lost' \in [Digests -> [Days -> Nat]]
    OBVIOUS
  <2>1. CASE Holds(s)
    <3>1. sweep[s].claim \in Digests /\ sweep[s].now \in Days
      BY <1>0, <2>1 DEF Holds, InBatch, Sweep
    <3>2. lock' = [lock EXCEPT ![sweep[s].claim] = Unlocked]
      BY <2>1, Zenon DEF AbandonBatch
    <3>3. lost' = [lost EXCEPT ![sweep[s].claim][sweep[s].now] = @ + 1]
      BY <2>1, Zenon DEF AbandonBatch
    <3>4. lock' \in [Digests -> Sweepers \cup {Unlocked}]
      BY <3>1, <3>2 DEF TypeOK
    <3>5. lost' \in [Digests -> [Days -> Nat]]
      BY <3>1, <3>3 DEF TypeOK
    <3>6. QED
      BY <3>4, <3>5
  <2>2. CASE ~Holds(s)
    BY <2>2 DEF AbandonBatch, TypeOK
  <2>3. QED
    BY <2>1, <2>2
<1>3. EndInError(s) => /\ sweep' \in [Sweepers -> Sweep]
                       /\ ran' \in [Sweepers -> BOOLEAN]
  BY IdleSweepIsSweep DEF EndInError, TypeOK
<1>4. CASE Die(s)
  BY <1>1, <1>2, <1>3, <1>4 DEF Die, TypeOK
<1>5. CASE CommitUnacknowledged(s)
  BY <1>1, <1>3, <1>5, SettledRowIsRow DEF CommitUnacknowledged, Holds, TypeOK, histVars
<1>6. CASE LoseConnection(s)
  BY <1>1, <1>2, <1>6 DEF LoseConnection, TypeOK
<1>7. QED
  BY <1>4, <1>5, <1>6 DEF SweepFault

\* the manual sends,
LEMMA ManualType ==
  ASSUME TypeOK, NEW o \in Operators,
         ManualStep(o) \/ \E d \in Digests : SendNow(o, d)
  PROVE  TypeOK'
<1>0. manual[o] \in Manual
  BY DEF TypeOK
<1>1. ASSUME NEW d \in Digests, SendNow(o, d) PROVE TypeOK'
  <2>1. [IdleManual EXCEPT !.digest = d, !.todo = ActiveRecipients(d)] \in Manual
    BY IdleManualIsManual DEF Manual, ActiveRecipients
  <2>2. QED
    BY <1>1, <2>1 DEF SendNow, TypeOK, dbVars, histVars
<1>2. ASSUME NEW u \in Users, SendNowToRecipient(o, u) PROVE TypeOK'
  <2>1. PICK m \in {manual[o].mailed, manual[o].mailed \cup {u}} :
           manual' = [manual EXCEPT ![o].todo = @ \ {u}, ![o].mailed = m]
    <3>1. PICK r \in SendOutcome :
             manual' = [manual EXCEPT ![o].todo   = @ \ {u},
                                      ![o].mailed = IF r.enqueued THEN @ \cup {u} ELSE @]
      BY <1>2 DEF SendNowToRecipient
    <3>2. CASE r.enqueued
      BY <3>1, <3>2, Zenon
    <3>3. CASE ~r.enqueued
      BY <3>1, <3>3, Zenon
    <3>4. QED
      BY <3>2, <3>3
  <2>2. [manual[o] EXCEPT !.todo = @ \ {u}, !.mailed = m] \in Manual
    BY <1>0 DEF Manual
  <2>3. QED
    BY <1>2, <2>1, <2>2 DEF SendNowToRecipient, TypeOK, dbVars, histVars
<1>3. CASE SendNowDone(o)
  BY <1>3, IdleManualIsManual DEF SendNowDone, TypeOK, dbVars, histVars
<1>4. QED
  BY <1>1, <1>2, <1>3 DEF ManualStep

\* and the write verbs.
LEMMA VerbType ==
  ASSUME TypeOK, NEW d \in Digests, Verb(d)
  PROVE  TypeOK'
<1>0. row[d] \in Row /\ subs[d] \in [Users -> SubState] /\ day \in Days
  BY DEF TypeOK
<1>1. Edit => edits' \in 0 .. MaxEdits
  BY BoundsAreNat DEF Edit, TypeOK
<1>2. ASSUME NEW p \in Periodicities PROVE Advance(p, day) \in Nat
  BY <1>0, AdvanceIsLater
<1>3. ASSUME NEW p \in Periodicities, CreateDigest(d, p) PROVE TypeOK'
  <2>1. [periodicity |-> p, nextRun |-> Advance(p, day), state |-> "activated"] \in Row
    BY <1>2 DEF Row, RowState
  <2>2. QED
    BY <1>3, <2>1 DEF CreateDigest, TypeOK, histVars
<1>4. ASSUME NEW p \in Periodicities, SetPeriodicity(d, p) PROVE TypeOK'
  <2>1. [row[d] EXCEPT !.periodicity = p, !.nextRun = Advance(p, day)] \in Row
    BY <1>0, <1>2 DEF Row
  <2>2. QED
    BY <1>1, <1>4, <2>1 DEF SetPeriodicity, TypeOK, histVars
<1>5. ASSUME NEW value \in {"activated", "deactivated"}, SetState(d, value) PROVE TypeOK'
  <2>1. [row[d] EXCEPT !.state = value] \in Row
    BY <1>0 DEF Row, RowState
  <2>2. QED
    BY <1>1, <1>5, <2>1 DEF SetState, TypeOK, histVars
<1>6. ASSUME NEW u \in Users, SubscribeNew(d, u) PROVE TypeOK'
  BY <1>6 DEF SubscribeNew, TypeOK, SubState, histVars
<1>7. ASSUME NEW u \in Users, SubscribeAgain(d, u) \/ PurgeSubscription(d, u) PROVE TypeOK'
  <2>1. subs' \in [Digests -> [Users -> SubState]]
    <3>1. PICK new \in SubState : subs' = [subs EXCEPT ![d][u] = new]
      BY <1>7 DEF SubscribeAgain, PurgeSubscription, SubState
    <3>2. QED
      BY <3>1 DEF TypeOK
  <2>2. QED
    BY <1>1, <1>7, <2>1 DEF SubscribeAgain, PurgeSubscription, TypeOK, histVars
<1>8. ASSUME NEW u \in Users, LeaveList(d, u) PROVE TypeOK'
  <2>1. subs' \in [Digests -> [Users -> SubState]]
    BY <1>8 DEF LeaveList, TypeOK, SubState
  <2>2. ASSUME NEW s \in Sweepers PROVE [sweep[s] EXCEPT !.gone = @ \cup {u}] \in Sweep
    <3>1. sweep[s] \in Sweep
      BY DEF TypeOK
    <3>2. QED
      BY <3>1 DEF Sweep
  <2>3. sweep' \in [Sweepers -> Sweep]
    BY <1>8, <2>2 DEF LeaveList, TypeOK
  <2>4. ASSUME NEW o \in Operators PROVE [manual[o] EXCEPT !.gone = @ \cup {u}] \in Manual
    <3>1. manual[o] \in Manual
      BY DEF TypeOK
    <3>2. QED
      BY <3>1 DEF Manual
  <2>5. manual' \in [Operators -> Manual]
    BY <1>8, <2>4 DEF LeaveList, TypeOK
  <2>6. QED
    BY <1>1, <1>8, <2>1, <2>3, <2>5 DEF LeaveList, TypeOK, histVars
<1>9. QED
  BY <1>3, <1>4, <1>5, <1>6, <1>7, <1>8 DEF Verb

\* Every step keeps the types.
LEMMA NextType == TypeOK /\ [Next]_vars => TypeOK'
<1> SUFFICES ASSUME TypeOK, [Next]_vars PROVE TypeOK'
  OBVIOUS
<1>1. CASE UNCHANGED vars
  BY <1>1 DEF vars, TypeOK
<1>2. CASE NextDay
  BY <1>2, BoundsAreNat DEF NextDay, TypeOK, Days, dbVars, histVars
<1>3. CASE Next
  BY <1>2, <1>3, PullStepType, SweepFaultType, ManualType, VerbType DEF Next
<1>4. QED
  BY <1>1, <1>3

\* The variables keep their types for every value of the constants.
THEOREM TypeCorrect == Spec => []TypeOK
<1>1. Init => TypeOK
  BY InitInv DEF PullInv
<1>2. QED
  BY <1>1, NextType, PTL DEF Spec

-----------------------------------------------------------------------------
(* The inductive invariant *)

\* Steps that leave every replica where it is: whatever row they write is not
\* locked, and they may drop a lock.
SameBatch(v, w) ==
  /\ v.pc = w.pc /\ v.now = w.now /\ v.claim = w.claim
  /\ v.cadence = w.cadence /\ v.target = w.target
  /\ v.todo = w.todo /\ v.mailed = w.mailed

LEMMA QuietStep ==
  ASSUME PullInv, day <= day', day' \in Nat,
         \A s \in Sweepers : SameBatch(sweep'[s], sweep[s]),
         \A d \in Digests : \/ lock'[d] = Unlocked
                            \/ lock'[d] = lock[d] /\ row'[d] = row[d]
  PROVE  LockOwned' /\ \A s \in Sweepers : SweeperOK(s)'
<1>1. LockOwned'
  <2> SUFFICES ASSUME NEW d \in Digests, lock'[d] # Unlocked
               PROVE  sweep'[lock'[d]].claim = d
    BY DEF LockOwned
  <2>1. lock[d] \in Sweepers /\ lock'[d] = lock[d] /\ sweep[lock[d]].claim = d
    BY DEF PullInv, TypeOK, LockOwned
  <2>2. QED
    BY <2>1 DEF SameBatch
<1>2. ASSUME NEW s \in Sweepers PROVE SweeperOK(s)'
  <2>1. SweeperOK(s) /\ sweep[s] \in Sweep /\ SameBatch(sweep'[s], sweep[s])
    BY DEF PullInv, TypeOK
  <2>2. sweep[s].now \in Nat /\ day \in Nat /\ sweep[s].claim \in Digests \cup {NoDigest}
    BY <2>1, BoundsAreNat DEF PullInv, TypeOK, Sweep, Days
  <2>3. Holds(s)' => Holds(s) /\ row'[sweep[s].claim] = row[sweep[s].claim]
    BY <2>1, <2>2, NullsAreFresh DEF Holds, InBatch, SameBatch
  <2>4. sweep'[s].now <= day'
    BY <2>1, <2>2 DEF SweeperOK, SameBatch
  <2>5. Holds(s)' => Due(sweep[s].claim, sweep[s].now)' /\ row'[sweep'[s].claim].periodicity = sweep'[s].cadence
    BY <2>1, <2>3 DEF SweeperOK, SameBatch, Due
  <2>6. QED
    BY <2>1, <2>4, <2>5 DEF SweeperOK, SameBatch, InBatch, Due
<1>3. QED
  BY <1>1, <1>2

\* Steps that put replica s outside a batch: it keeps no lock, and only the row
\* it releases is written.
OutOfBatch(w) ==
  /\ w.claim = NoDigest /\ w.pc \in {"idle", "claim"}
  /\ w.todo = {} /\ w.mailed = {} /\ w.target = w.cadence

LEMMA OutStep ==
  ASSUME PullInv, NEW s \in Sweepers, NEW w,
         sweep' = [sweep EXCEPT ![s] = w], OutOfBatch(w), w.now <= day, day' = day,
         \A d \in Digests : \/ lock'[d] = Unlocked
                            \/ lock'[d] = lock[d] /\ lock[d] # s /\ row'[d] = row[d]
  PROVE  LockOwned' /\ \A r \in Sweepers : SweeperOK(r)'
<1>0. sweep'[s] = w /\ \A r \in Sweepers : r # s => sweep'[r] = sweep[r]
  BY DEF PullInv, TypeOK
<1>1. LockOwned'
  <2> SUFFICES ASSUME NEW d \in Digests, lock'[d] # Unlocked
               PROVE  sweep'[lock'[d]].claim = d
    BY DEF LockOwned
  <2>1. /\ lock[d] \in Sweepers /\ lock[d] # s /\ lock'[d] = lock[d]
        /\ sweep[lock[d]].claim = d
    BY DEF PullInv, TypeOK, LockOwned
  <2>2. QED
    BY <1>0, <2>1
<1>2. SweeperOK(s)'
  <2>1. ~InBatch(s)' /\ ~Holds(s)'
    BY <1>0 DEF InBatch, Holds, OutOfBatch
  <2>2. QED
    BY <1>0, <2>1 DEF SweeperOK, OutOfBatch
<1>3. ASSUME NEW r \in Sweepers, r # s PROVE SweeperOK(r)'
  <2>1. SweeperOK(r) /\ sweep[r] \in Sweep /\ sweep'[r] = sweep[r]
    BY <1>0, <1>3 DEF PullInv, TypeOK
  <2>2. sweep[r].claim \in Digests \cup {NoDigest}
    BY <2>1 DEF Sweep
  <2>3. Holds(r)' => Holds(r) /\ row'[sweep[r].claim] = row[sweep[r].claim]
    BY <1>3, <2>1, <2>2, NullsAreFresh DEF Holds, InBatch
  <2>4. Holds(r)' => Due(sweep[r].claim, sweep[r].now)' /\ row'[sweep'[r].claim].periodicity = sweep'[r].cadence
    BY <2>1, <2>3 DEF SweeperOK, Due
  <2>5. QED
    BY <2>1, <2>4 DEF SweeperOK, InBatch, Due
<1>4. QED
  BY <1>1, <1>2, <1>3

\* Steps inside the batch of s, which change neither the tables nor the locks.
LEMMA BatchStep ==
  ASSUME PullInv, NEW s \in Sweepers, NEW w,
         sweep' = [sweep EXCEPT ![s] = w],
         UNCHANGED <<day, row, lock>>,
         InBatch(s), w.pc \in {"read", "judge", "send"},
         w.now = sweep[s].now, w.claim = sweep[s].claim, w.cadence = sweep[s].cadence,
         w.target \in {w.cadence, NextRung(w.cadence)},
         w.todo \cap w.mailed = {},
         w.pc # "send" => w.mailed = {}
  PROVE  LockOwned' /\ \A r \in Sweepers : SweeperOK(r)'
<1>0. sweep'[s] = w /\ \A r \in Sweepers : r # s => sweep'[r] = sweep[r]
  BY DEF PullInv, TypeOK
<1>1. LockOwned'
  BY <1>0 DEF PullInv, TypeOK, LockOwned
<1>2. SweeperOK(s)'
  <2>1. SweeperOK(s)
    BY DEF PullInv
  <2>2. InBatch(s)' /\ (Holds(s)' <=> Holds(s))
    BY <1>0 DEF InBatch, Holds
  <2>3. Holds(s)' => Due(w.claim, w.now)' /\ row'[w.claim].periodicity = w.cadence
    BY <2>1, <2>2 DEF SweeperOK, Due
  <2>4. QED
    BY <1>0, <2>1, <2>2, <2>3 DEF SweeperOK, Due
<1>3. ASSUME NEW r \in Sweepers, r # s PROVE SweeperOK(r)'
  BY <1>0, <1>3 DEF PullInv, SweeperOK, InBatch, Holds, Due
<1>4. QED
  BY <1>1, <1>2, <1>3

\* A replica that is not in a batch, or has lost its row, keeps no lock.
LEMMA NoStrayLock ==
  ASSUME PullInv, NEW s \in Sweepers, ~Holds(s), NEW d \in Digests
  PROVE  lock[d] # s
BY NullsAreFresh DEF PullInv, LockOwned, Holds, InBatch

\* A replica that holds its row holds no other.
LEMMA OnlyLock ==
  ASSUME PullInv, NEW s \in Sweepers, Holds(s), NEW d \in Digests, d # sweep[s].claim
  PROVE  lock[d] # s
BY NullsAreFresh DEF PullInv, LockOwned, Holds, InBatch

\* Claiming: the row is free, so no other replica is in a batch of it that
\* still holds it, and it is due by the very test that selected it.
LEMMA ClaimInv ==
  ASSUME PullInv, NEW s \in Sweepers, NEW d \in Digests, Claim(s, d)
  PROVE  LockOwned' /\ \A r \in Sweepers : SweeperOK(r)'
<1> DEFINE w == [IdleSweep EXCEPT
                  !.pc = "read", !.now = sweep[s].now,
                  !.processed = sweep[s].processed \cup {d}, !.claim = d,
                  !.cadence = row[d].periodicity, !.target = row[d].periodicity]
<1>1. /\ sweep' = [sweep EXCEPT ![s] = w]
      /\ lock' = [lock EXCEPT ![d] = s]
      /\ row' = row /\ day' = day
  BY DEF Claim
<1>2. sweep'[s] = w /\ \A r \in Sweepers : r # s => sweep'[r] = sweep[r]
  BY <1>1 DEF PullInv, TypeOK
<1>3. lock'[d] = s /\ \A e \in Digests : e # d => lock'[e] = lock[e]
  BY <1>1 DEF PullInv, TypeOK
<1>4. ~InBatch(s) /\ ~Holds(s) /\ lock[d] = Unlocked /\ Due(d, sweep[s].now)
  BY DEF Claim, Claimable, PullInv, SweeperOK, Holds
<1>5. /\ w.pc = "read" /\ w.now = sweep[s].now /\ w.claim = d /\ w.mailed = {} /\ w.todo = {}
      /\ w.cadence = row[d].periodicity /\ w.target = row[d].periodicity
  BY DEF IdleSweep
<1> HIDE DEF w
<1>6. LockOwned'
  <2> SUFFICES ASSUME NEW e \in Digests, lock'[e] # Unlocked
               PROVE  sweep'[lock'[e]].claim = e
    BY DEF LockOwned
  <2>1. CASE e = d
    BY <1>2, <1>3, <1>5, <2>1
  <2>2. CASE e # d
    <3>1. lock'[e] = lock[e] /\ lock[e] \in Sweepers /\ sweep[lock[e]].claim = e
      BY <1>3, <2>2 DEF PullInv, TypeOK, LockOwned
    <3>2. lock[e] # s
      BY <1>4, NoStrayLock
    <3>3. QED
      BY <1>2, <3>1, <3>2
  <2>3. QED
    BY <2>1, <2>2
<1>7. SweeperOK(s)'
  <2>1. SweeperOK(s) /\ d # NoDigest
    BY NullsAreFresh DEF PullInv
  <2>2. Due(sweep[s].claim, sweep[s].now)'
    BY <1>1, <1>2, <1>4, <1>5 DEF Due
  <2>3. QED
    BY <1>1, <1>2, <1>5, <2>1, <2>2 DEF SweeperOK, InBatch, Due
<1>8. ASSUME NEW r \in Sweepers, r # s PROVE SweeperOK(r)'
  <2>1. SweeperOK(r) /\ sweep'[r] = sweep[r] /\ sweep[r].claim \in Digests \cup {NoDigest}
    BY <1>2, <1>8 DEF PullInv, TypeOK, Sweep
  <2>2. Holds(r)' => Holds(r)
    BY <1>3, <1>8, <2>1 DEF Holds, InBatch
  <2>3. QED
    BY <1>1, <2>1, <2>2 DEF SweeperOK, InBatch, Due
<1>9. QED
  BY <1>6, <1>7, <1>8

\* The end of a batch that still holds its row, whatever is written to it.
LEMMA ReleaseStep ==
  ASSUME PullInv, NEW s \in Sweepers, Holds(s), NEW w,
         sweep' = [sweep EXCEPT ![s] = w], OutOfBatch(w), w.now <= day, day' = day,
         lock' = [lock EXCEPT ![sweep[s].claim] = Unlocked],
         \A d \in Digests : d # sweep[s].claim => row'[d] = row[d]
  PROVE  LockOwned' /\ \A r \in Sweepers : SweeperOK(r)'
<1>1. ASSUME NEW d \in Digests
      PROVE  \/ lock'[d] = Unlocked
             \/ lock'[d] = lock[d] /\ lock[d] # s /\ row'[d] = row[d]
  BY <1>1, OnlyLock DEF PullInv, TypeOK
<1>2. QED
  BY <1>1, OutStep

\* The end of a batch that has lost its row: nothing is written.
LEMMA LeaveStep ==
  ASSUME PullInv, NEW s \in Sweepers, ~Holds(s), NEW w,
         sweep' = [sweep EXCEPT ![s] = w], OutOfBatch(w), w.now <= day,
         UNCHANGED <<day, row, lock>>
  PROVE  LockOwned' /\ \A r \in Sweepers : SweeperOK(r)'
<1>1. ASSUME NEW d \in Digests
      PROVE  lock'[d] = lock[d] /\ lock[d] # s /\ row'[d] = row[d]
  BY NoStrayLock
<1>2. QED
  BY <1>1, OutStep

LEMMA IdleIsOut == PullInv => OutOfBatch(IdleSweep) /\ IdleSweep.now <= day
<1>1. PullInv => day \in Nat
  BY BoundsAreNat DEF PullInv, TypeOK, Days
<1>2. QED
  BY <1>1 DEF OutOfBatch, IdleSweep

LEMMA NextClaimIsOut ==
  ASSUME PullInv, NEW s \in Sweepers
  PROVE  OutOfBatch(NextClaim(s)) /\ NextClaim(s).now <= day
BY DEF OutOfBatch, NextClaim, IdleSweep, PullInv, SweeperOK

LEMMA PullStepInv ==
  ASSUME PullInv, NEW s \in Sweepers, StartPull(s) \/ PullStep(s)
  PROVE  LockOwned' /\ \A r \in Sweepers : SweeperOK(r)'
<1>0. sweep[s] \in Sweep /\ SweeperOK(s)
  BY DEF PullInv, TypeOK
<1>1. CASE StartPull(s)
  <2>1. ~Holds(s)
    BY <1>0, <1>1 DEF StartPull, SweeperOK, Holds
  <2>2. LET w == [IdleSweep EXCEPT !.pc = "claim", !.now = day]
        IN  OutOfBatch(w) /\ w.now <= day
    BY BoundsAreNat DEF OutOfBatch, IdleSweep, PullInv, TypeOK, Days
  <2>3. QED
    BY <1>1, <2>1, <2>2, LeaveStep DEF StartPull, dbVars
<1>2. ASSUME NEW d \in Digests, Claim(s, d)
      PROVE  LockOwned' /\ \A r \in Sweepers : SweeperOK(r)'
  BY <1>2, ClaimInv
<1>3. CASE Drain(s)
  <2>1. ~Holds(s)
    BY <1>0, <1>3 DEF Drain, SweeperOK, Holds
  <2>2. QED
    BY <1>3, <2>1, IdleIsOut, LeaveStep DEF Drain, dbVars
<1>4. CASE ReadRecipients(s)
  <2> DEFINE w == [sweep[s] EXCEPT !.pc = "judge", !.todo = ActiveRecipients(sweep[s].claim)]
  <2>1. sweep' = [sweep EXCEPT ![s] = w] /\ UNCHANGED <<day, row, lock>>
    BY <1>4 DEF ReadRecipients, dbVars
  <2>2. /\ InBatch(s) /\ w.pc = "judge" /\ w.now = sweep[s].now /\ w.claim = sweep[s].claim
        /\ w.cadence = sweep[s].cadence /\ w.target = sweep[s].target /\ w.mailed = {}
    BY <1>0, <1>4 DEF ReadRecipients, SweeperOK, Sweep
  <2>3. w.target \in {w.cadence, NextRung(w.cadence)}
    BY <1>0, <2>2 DEF SweeperOK
  <2> HIDE DEF w
  <2>4. QED
    BY <2>1, <2>2, <2>3, BatchStep
<1>5. CASE JudgeSlowdown(s)
  <2>1. PICK p \in {sweep[s].cadence, NextRung(sweep[s].cadence)} :
           sweep' = [sweep EXCEPT ![s].pc = "send", ![s].target = p]
    BY <1>5 DEF JudgeSlowdown
  <2> DEFINE w == [sweep[s] EXCEPT !.pc = "send", !.target = p]
  <2>2. sweep' = [sweep EXCEPT ![s] = w] /\ UNCHANGED <<day, row, lock>>
    BY <1>5, <2>1 DEF JudgeSlowdown, dbVars
  <2>3. /\ InBatch(s) /\ w.pc = "send" /\ w.now = sweep[s].now /\ w.claim = sweep[s].claim
        /\ w.cadence = sweep[s].cadence /\ w.target = p
        /\ w.todo = sweep[s].todo /\ w.mailed = sweep[s].mailed
    BY <1>0, <1>5 DEF JudgeSlowdown, SweeperOK, Sweep
  <2>4. w.todo \cap w.mailed = {}
    BY <1>0, <2>3 DEF SweeperOK
  <2> HIDE DEF w
  <2>5. QED
    BY <2>2, <2>3, <2>4, BatchStep
<1>6. ASSUME NEW u \in Users, SendToRecipient(s, u)
      PROVE  LockOwned' /\ \A r \in Sweepers : SweeperOK(r)'
  <2>1. PICK r \in SendOutcome :
           sweep' = [sweep EXCEPT
                       ![s].todo   = @ \ {u},
                       ![s].failed = @ \/ ~r.ok,
                       ![s].mailed = IF r.enqueued THEN @ \cup {u} ELSE @]
    BY <1>6 DEF SendToRecipient
  <2> DEFINE w == [sweep[s] EXCEPT !.todo   = @ \ {u},
                                   !.failed = @ \/ ~r.ok,
                                   !.mailed = IF r.enqueued THEN @ \cup {u} ELSE @]
  <2>2. sweep' = [sweep EXCEPT ![s] = w] /\ UNCHANGED <<day, row, lock>>
    <3>1. sweep' = [sweep EXCEPT ![s] = w]
      BY <2>1, Zenon
    <3>2. UNCHANGED <<day, row, lock>>
      BY <1>6 DEF SendToRecipient, dbVars
    <3>3. QED
      BY <3>1, <3>2
  <2>3. /\ InBatch(s) /\ w.pc = "send" /\ w.now = sweep[s].now /\ w.claim = sweep[s].claim
        /\ w.cadence = sweep[s].cadence /\ w.target = sweep[s].target
        /\ w.todo = sweep[s].todo \ {u}
        /\ w.mailed = IF r.enqueued THEN sweep[s].mailed \cup {u} ELSE sweep[s].mailed
    BY <1>0, <1>6 DEF SendToRecipient, SweeperOK, Sweep
  <2>4. w.todo \cap w.mailed = {}
    BY <1>0, <2>3 DEF SweeperOK
  <2>5. w.target \in {w.cadence, NextRung(w.cadence)}
    BY <1>0, <2>3 DEF SweeperOK
  <2> HIDE DEF w
  <2>6. QED
    BY <2>2, <2>3, <2>4, <2>5, BatchStep
<1>7. CASE Settle(s)
  <2>1. \A d \in Digests : d # sweep[s].claim => row'[d] = row[d]
    BY <1>7 DEF Settle, PullInv, TypeOK
  <2>2. QED
    BY <1>7, <2>1, NextClaimIsOut, ReleaseStep DEF Settle
<1>8. CASE IsolateBatch(s)
  BY <1>8, NextClaimIsOut, ReleaseStep DEF IsolateBatch
<1>9. CASE NoticeLostConnection(s)
  BY <1>9, IdleIsOut, LeaveStep DEF NoticeLostConnection, EndInError, dbVars
<1>10. QED
  BY <1>1, <1>2, <1>3, <1>4, <1>5, <1>6, <1>7, <1>8, <1>9 DEF PullStep

LEMMA SweepFaultInv ==
  ASSUME PullInv, NEW s \in Sweepers, SweepFault(s)
  PROVE  LockOwned' /\ \A r \in Sweepers : SweeperOK(r)'
<1>1. CASE Die(s)
  <2>1. sweep' = [sweep EXCEPT ![s] = IdleSweep] /\ UNCHANGED <<day, row>>
    BY <1>1 DEF Die, EndInError
  <2>2. CASE Holds(s)
    BY <1>1, <2>1, <2>2, IdleIsOut, ReleaseStep DEF Die, AbandonBatch
  <2>3. CASE ~Holds(s)
    BY <1>1, <2>1, <2>3, IdleIsOut, LeaveStep DEF Die, AbandonBatch
  <2>4. QED
    BY <2>2, <2>3
<1>2. CASE CommitUnacknowledged(s)
  <2>1. \A d \in Digests : d # sweep[s].claim => row'[d] = row[d]
    BY <1>2 DEF CommitUnacknowledged, PullInv, TypeOK
  <2>2. QED
    BY <1>2, <2>1, IdleIsOut, ReleaseStep DEF CommitUnacknowledged, EndInError
<1>3. CASE LoseConnection(s)
  <2>1. lock' = [lock EXCEPT ![sweep[s].claim] = Unlocked] /\ UNCHANGED <<day, row, sweep>>
    BY <1>3 DEF LoseConnection, AbandonBatch
  <2>2. day \in Nat
    BY BoundsAreNat DEF PullInv, TypeOK, Days
  <2>3. QED
    BY <2>1, <2>2, QuietStep DEF SameBatch, PullInv, TypeOK
<1>4. QED
  BY <1>1, <1>2, <1>3 DEF SweepFault

\* The verbs wait for the row lock, except the create, whose row no batch can
\* hold because a batch only holds what was due.
LEMMA VerbInv ==
  ASSUME PullInv, NEW d \in Digests, Verb(d)
  PROVE  LockOwned' /\ \A r \in Sweepers : SweeperOK(r)'
<1>0. day \in Nat
  BY BoundsAreNat DEF PullInv, TypeOK, Days
<1>1. day' = day /\ lock' = lock
  BY DEF Verb, CreateDigest, SetPeriodicity, SetState, SubscribeNew, SubscribeAgain,
         PurgeSubscription, LeaveList
<1>2. row[d].state = "absent" => lock[d] = Unlocked
  <2> SUFFICES ASSUME row[d].state = "absent", lock[d] # Unlocked PROVE FALSE
    OBVIOUS
  <2>1. lock[d] \in Sweepers /\ sweep[lock[d]].claim = d
    BY DEF PullInv, TypeOK, LockOwned
  <2>2. Holds(lock[d]) /\ SweeperOK(lock[d])
    BY <2>1, NullsAreFresh DEF Holds, InBatch, PullInv
  <2>3. QED
    BY <2>1, <2>2 DEF SweeperOK, Due
<1>3. \A e \in Digests : lock[e] # Unlocked => row'[e] = row[e]
  <2>1. lock[d] = Unlocked \/ row' = row
    BY <1>2 DEF Verb, CreateDigest, SetPeriodicity, SetState, SubscribeNew, SubscribeAgain,
                PurgeSubscription, LeaveList
  <2>2. \A e \in Digests : e # d => row'[e] = row[e]
    BY DEF Verb, CreateDigest, SetPeriodicity, SetState, SubscribeNew, SubscribeAgain,
           PurgeSubscription, LeaveList, PullInv, TypeOK
  <2>3. QED
    BY <2>1, <2>2
<1>4. \A s \in Sweepers : SameBatch(sweep'[s], sweep[s])
  <2>1. CASE sweep' = sweep
    BY <2>1 DEF SameBatch
  <2>2. ASSUME NEW u \in Users, LeaveList(d, u), NEW s \in Sweepers
        PROVE  SameBatch(sweep'[s], sweep[s])
    <3>1. sweep'[s] \in {sweep[s], [sweep[s] EXCEPT !.gone = @ \cup {u}]}
      BY <2>2 DEF LeaveList
    <3>2. sweep[s] \in Sweep
      BY DEF PullInv, TypeOK
    <3>3. QED
      BY <3>1, <3>2 DEF SameBatch, Sweep
  <2>3. QED
    BY <2>1, <2>2 DEF Verb, CreateDigest, SetPeriodicity, SetState, SubscribeNew, SubscribeAgain,
         PurgeSubscription
<1>5. QED
  BY <1>0, <1>1, <1>3, <1>4, QuietStep

\* PullInv holds in every reachable state.
THEOREM PullCorrect == Spec => []PullInv
<1>1. PullInv /\ [Next]_vars => PullInv'
  <2> SUFFICES ASSUME PullInv, [Next]_vars PROVE PullInv'
    OBVIOUS
  <2>1. TypeOK'
    BY NextType DEF PullInv
  <2>2. day \in Nat /\ day' \in Nat
    BY <2>1, BoundsAreNat DEF PullInv, TypeOK, Days
  <2>3. UNCHANGED <<row, lock, sweep>> /\ day <= day'
          => LockOwned' /\ \A r \in Sweepers : SweeperOK(r)'
    BY <2>2, QuietStep DEF SameBatch
  <2>4. UNCHANGED vars \/ NextDay => UNCHANGED <<row, lock, sweep>> /\ day <= day'
    BY <2>2 DEF vars, NextDay, dbVars
  <2>5. ASSUME NEW o \in Operators, ManualStep(o) \/ \E d \in Digests : SendNow(o, d)
        PROVE  UNCHANGED <<row, lock, sweep>> /\ day <= day'
    <3>1. UNCHANGED <<day, dbVars, sweep, ran, faults, edits, histVars>>
      BY <2>5, Zenon DEF ManualStep, SendNow, SendNowToRecipient, SendNowDone
    <3>2. QED
      BY <2>2, <3>1 DEF dbVars
  <2>6. ASSUME NEW s \in Sweepers, StartPull(s) \/ PullStep(s) \/ SweepFault(s)
        PROVE  LockOwned' /\ \A r \in Sweepers : SweeperOK(r)'
    BY <2>6, PullStepInv, SweepFaultInv
  <2>7. LockOwned' /\ \A r \in Sweepers : SweeperOK(r)'
    <3>1. CASE \E s \in Sweepers : StartPull(s) \/ PullStep(s) \/ SweepFault(s)
      BY <2>6, <3>1
    <3>2. CASE \E o \in Operators : ManualStep(o) \/ \E d \in Digests : SendNow(o, d)
      BY <2>3, <2>5, <3>2
    <3>3. CASE \E d \in Digests : Verb(d)
      BY <3>3, VerbInv
    <3>4. QED
      BY <2>3, <2>4, <3>1, <3>2, <3>3 DEF Next
  <2>8. QED
    BY <2>1, <2>7 DEF PullInv
<1>2. QED
  BY InitInv, <1>1, PTL DEF Spec

\* While a batch holds its row, the row still says what the claim read: a
\* sweep never mails a paused digest under its lock, never degrades a cadence
\* somebody just changed, never overwrites a due date somebody just reset.
THEOREM ClaimFreezesRowHolds == Spec => []ClaimFreezesRow
<1>1. PullInv => ClaimFreezesRow
  BY DEF PullInv, SweeperOK, ClaimFreezesRow
<1>2. QED
  BY <1>1, PullCorrect, PTL

-----------------------------------------------------------------------------
(* The sweeps implement the schedule *)

LEMMA OpenBatchOf ==
  ASSUME PullInv, NEW s \in Sweepers, Holds(s)
  PROVE  /\ sweep[s].claim \in Digests /\ sweep[s].now \in Days
         /\ OpenBatch[sweep[s].claim] = sweep[s].now
         /\ OpenBatch[sweep[s].claim] # NoDate
<1>1. sweep[s].claim \in Digests /\ sweep[s].now \in Days
  BY DEF Holds, InBatch, PullInv, TypeOK, Sweep
<1>2. sweep[s].now \in Nat
  BY <1>1, BoundsAreNat DEF Days
<1>3. QED
  BY <1>1, <1>2, NullsAreFresh DEF Holds, OpenBatch

\* A replica's step that moves no lock is invisible to the schedule if its own
\* clock stands still, or if it holds no row.
LEMMA SameBatches ==
  ASSUME PullInv, lock' = lock,
         \A d \in Digests : lock[d] # Unlocked => sweep'[lock[d]].now = sweep[lock[d]].now
  PROVE  OpenBatch' = OpenBatch
BY DEF OpenBatch

LEMMA Stutter ==
  ASSUME PullInv, UNCHANGED <<day, row, lock, claims, lost>>,
         \A d \in Digests : lock[d] # Unlocked => sweep'[lock[d]].now = sweep[lock[d]].now
  PROVE  UNCHANGED Schedule!vars
BY SameBatches DEF Schedule!vars

LEMMA ReleasedBatch ==
  ASSUME PullInv, NEW s \in Sweepers, Holds(s),
         \A r \in Sweepers : r # s => sweep'[r] = sweep[r],
         lock' = [lock EXCEPT ![sweep[s].claim] = Unlocked]
  PROVE  OpenBatch' = [OpenBatch EXCEPT ![sweep[s].claim] = NoDate]
<1>1. sweep[s].claim \in Digests
  BY OpenBatchOf
<1>2. lock'[sweep[s].claim] = Unlocked
  BY <1>1 DEF PullInv, TypeOK
<1>3. ASSUME NEW d \in Digests, d # sweep[s].claim
      PROVE  OpenBatch'[d] = OpenBatch[d]
  <2>1. lock'[d] = lock[d] /\ lock[d] # s /\ lock[d] \in Sweepers \cup {Unlocked}
    BY <1>3, OnlyLock DEF PullInv, TypeOK
  <2>2. QED
    BY <2>1 DEF OpenBatch
<1>4. OpenBatch'[sweep[s].claim] = NoDate
  BY <1>1, <1>2 DEF OpenBatch
<1>5. /\ OpenBatch = [d \in Digests |-> OpenBatch[d]]
      /\ OpenBatch' = [d \in Digests |-> OpenBatch'[d]]
  BY DEF OpenBatch
<1> HIDE DEF OpenBatch
<1>6. QED
  BY <1>3, <1>4, <1>5

LEMMA ClaimOpens ==
  ASSUME PullInv, NEW s \in Sweepers, NEW d \in Digests, Claim(s, d)
  PROVE  Schedule!Open(d, sweep[s].now)
<1>1. /\ sweep'[s].now = sweep[s].now
      /\ \A r \in Sweepers : r # s => sweep'[r] = sweep[r]
  BY DEF Claim, IdleSweep, PullInv, TypeOK
<1>2. lock[d] = Unlocked /\ Due(d, sweep[s].now) /\ sweep[s].now <= day
  BY DEF Claim, Claimable, PullInv, SweeperOK
<1>3. OpenBatch[d] = NoDate
  BY <1>2 DEF OpenBatch
<1>4. OpenBatch' = [OpenBatch EXCEPT ![d] = sweep[s].now]
  <2>1. lock' = [lock EXCEPT ![d] = s]
    BY DEF Claim
  <2>2. lock'[d] = s /\ s # Unlocked
    BY <2>1, NullsAreFresh DEF PullInv, TypeOK
  <2>3. ASSUME NEW e \in Digests, e # d PROVE OpenBatch'[e] = OpenBatch[e]
    <3>1. lock'[e] = lock[e] /\ lock[e] \in Sweepers \cup {Unlocked}
      BY <2>1, <2>3 DEF PullInv, TypeOK
    <3>2. CASE lock[e] = s
      BY <1>1, <3>1, <3>2 DEF OpenBatch
    <3>3. CASE lock[e] # s
      BY <1>1, <3>1, <3>3 DEF OpenBatch
    <3>4. QED
      BY <3>2, <3>3
  <2>4. QED
    BY <1>1, <2>2, <2>3 DEF OpenBatch
<1>5. claims' = [claims EXCEPT ![d][sweep[s].now] = @ + 1] /\ UNCHANGED <<day, row, lost>>
  BY DEF Claim
<1>6. QED
  BY <1>2, <1>3, <1>4, <1>5 DEF Schedule!Open, Schedule!Due, Due

\* A batch that writes its row and releases it closes: tomorrow at the same
\* cadence, or the cadence or the next rung from the date it was claimed for.
LEMMA WriteCloses ==
  ASSUME PullInv, NEW s \in Sweepers, Holds(s),
         \A r \in Sweepers : r # s => sweep'[r] = sweep[r],
         row' = [row EXCEPT ![sweep[s].claim] = SettledRow(s)],
         lock' = [lock EXCEPT ![sweep[s].claim] = Unlocked],
         UNCHANGED <<day, claims, lost>>
  PROVE  Schedule!Close(sweep[s].claim)
<1> DEFINE d == sweep[s].claim
<1>1. OpenBatch[d] # NoDate /\ OpenBatch[d] = sweep[s].now
  BY OpenBatchOf
<1>2. OpenBatch' = [OpenBatch EXCEPT ![d] = NoDate]
  BY ReleasedBatch
<1>3. /\ row[d].periodicity = sweep[s].cadence
      /\ sweep[s].target \in {sweep[s].cadence, NextRung(sweep[s].cadence)}
  BY DEF PullInv, SweeperOK
<1>4. CASE sweep[s].failed
  <2>1. row' = [row EXCEPT ![d].nextRun = OpenBatch[d] + 1]
    BY <1>1, <1>4, Zenon DEF SettledRow
  <2>2. QED
    BY <1>1, <1>2, <2>1 DEF Schedule!Close
<1>5. CASE ~sweep[s].failed
  <2>1. row' = [row EXCEPT ![d].periodicity = sweep[s].target,
                           ![d].nextRun = Advance(sweep[s].target, OpenBatch[d])]
    <3>1. SettledRow(s) = [row[d] EXCEPT !.periodicity = sweep[s].target,
                                         !.nextRun = Advance(sweep[s].target, OpenBatch[d])]
      BY <1>1, <1>5, Zenon DEF SettledRow
    <3>2. d \in Digests /\ row \in [Digests -> Row]
      BY OpenBatchOf DEF PullInv, TypeOK
    <3>3. QED
      BY <3>1, <3>2
  <2>2. sweep[s].target \in {row[d].periodicity, Schedule!NextRung(row[d].periodicity)}
    BY <1>3 DEF NextRung, Schedule!NextRung
  <2>3. QED
    BY <1>1, <1>2, <2>1, <2>2 DEF Schedule!Close
<1>6. QED
  BY <1>4, <1>5

LEMMA AbandonLoses ==
  ASSUME PullInv, NEW s \in Sweepers, Holds(s),
         \A r \in Sweepers : r # s => sweep'[r] = sweep[r],
         lock' = [lock EXCEPT ![sweep[s].claim] = Unlocked],
         lost' = [lost EXCEPT ![sweep[s].claim][sweep[s].now] = @ + 1],
         UNCHANGED <<day, row, claims>>
  PROVE  Schedule!Lose(sweep[s].claim)
<1>1. /\ OpenBatch[sweep[s].claim] # NoDate
      /\ OpenBatch[sweep[s].claim] = sweep[s].now
  BY OpenBatchOf
<1>2. OpenBatch' = [OpenBatch EXCEPT ![sweep[s].claim] = NoDate]
  BY ReleasedBatch
<1>3. QED
  BY <1>1, <1>2 DEF Schedule!Lose

LEMMA PullStepImplements ==
  ASSUME PullInv, NEW s \in Sweepers, StartPull(s) \/ PullStep(s)
  PROVE  Schedule!Next \/ UNCHANGED Schedule!vars
<1>0. sweep[s] \in Sweep /\ SweeperOK(s) /\ sweep[s].now \in Days
  BY DEF PullInv, TypeOK, Sweep
<1>1. ASSUME NEW w, sweep' = [sweep EXCEPT ![s] = w],
             w.now = sweep[s].now \/ ~Holds(s),
             UNCHANGED <<day, row, lock, claims, lost>>
      PROVE  UNCHANGED Schedule!vars
  <2>1. ASSUME NEW d \in Digests, lock[d] # Unlocked
        PROVE  sweep'[lock[d]].now = sweep[lock[d]].now
    <3>1. lock[d] \in Sweepers
      BY <2>1 DEF PullInv, TypeOK
    <3>2. ~Holds(s) => lock[d] # s
      BY NoStrayLock
    <3>3. QED
      BY <1>1, <3>1, <3>2 DEF PullInv, TypeOK
  <2>2. QED
    BY <1>1, <2>1, Stutter
<1>2. CASE StartPull(s)
  <2>1. ~Holds(s)
    BY <1>0, <1>2 DEF StartPull, SweeperOK, Holds
  <2>2. QED
    BY <1>1, <1>2, <2>1 DEF StartPull, dbVars
<1>3. ASSUME NEW d \in Digests, Claim(s, d) PROVE Schedule!Next
  <2>1. sweep[s].now \in Schedule!Days
    BY <1>0 DEF Days, Schedule!Days
  <2>2. QED
    BY <1>3, <2>1, ClaimOpens DEF Schedule!Next
<1>4. CASE Drain(s)
  <2>1. ~Holds(s)
    BY <1>0, <1>4 DEF Drain, SweeperOK, Holds
  <2>2. QED
    BY <1>1, <1>4, <2>1 DEF Drain, dbVars, histVars
<1>5. CASE ReadRecipients(s)
  <2> DEFINE w == [sweep[s] EXCEPT !.pc = "judge", !.todo = ActiveRecipients(sweep[s].claim)]
  <2>1. sweep' = [sweep EXCEPT ![s] = w] /\ w.now = sweep[s].now
    BY <1>0, <1>5 DEF ReadRecipients, Sweep
  <2>2. UNCHANGED <<day, row, lock, claims, lost>>
    BY <1>5 DEF ReadRecipients, dbVars, histVars
  <2> HIDE DEF w
  <2>3. QED
    BY <1>1, <2>1, <2>2
<1>6. CASE JudgeSlowdown(s)
  <2>1. PICK p : sweep' = [sweep EXCEPT ![s].pc = "send", ![s].target = p]
    BY <1>6 DEF JudgeSlowdown
  <2> DEFINE w == [sweep[s] EXCEPT !.pc = "send", !.target = p]
  <2>2. sweep' = [sweep EXCEPT ![s] = w] /\ w.now = sweep[s].now
    BY <1>0, <2>1 DEF Sweep
  <2>3. UNCHANGED <<day, row, lock, claims, lost>>
    BY <1>6 DEF JudgeSlowdown, dbVars, histVars
  <2> HIDE DEF w
  <2>4. QED
    BY <1>1, <2>2, <2>3
<1>7. ASSUME NEW u \in Users, SendToRecipient(s, u) PROVE UNCHANGED Schedule!vars
  <2>1. PICK r \in SendOutcome :
           sweep' = [sweep EXCEPT
                       ![s].todo   = @ \ {u},
                       ![s].failed = @ \/ ~r.ok,
                       ![s].mailed = IF r.enqueued THEN @ \cup {u} ELSE @]
    BY <1>7 DEF SendToRecipient
  <2> DEFINE w == [sweep[s] EXCEPT !.todo   = @ \ {u},
                                   !.failed = @ \/ ~r.ok,
                                   !.mailed = IF r.enqueued THEN @ \cup {u} ELSE @]
  <2>2. sweep' = [sweep EXCEPT ![s] = w] /\ w.now = sweep[s].now
    BY <1>0, <2>1 DEF Sweep
  <2>3. UNCHANGED <<day, row, lock, claims, lost>>
    BY <1>7 DEF SendToRecipient, dbVars, histVars
  <2> HIDE DEF w
  <2>4. QED
    BY <1>1, <2>2, <2>3
<1>8. CASE Settle(s)
  <2>1. /\ Holds(s) /\ \A r \in Sweepers : r # s => sweep'[r] = sweep[r]
        /\ UNCHANGED <<day, claims, lost>>
    BY <1>8 DEF Settle, histVars, PullInv, TypeOK
  <2>2. Schedule!Close(sweep[s].claim)
    BY <1>8, <2>1, WriteCloses DEF Settle
  <2>3. QED
    BY <2>1, <2>2, OpenBatchOf DEF Schedule!Next
<1>9. CASE IsolateBatch(s)
  <2>1. Holds(s) /\ \A r \in Sweepers : r # s => sweep'[r] = sweep[r]
    BY <1>9 DEF IsolateBatch, PullInv, TypeOK
  <2>2. Schedule!Lose(sweep[s].claim)
    BY <1>9, <2>1, AbandonLoses DEF IsolateBatch
  <2>3. QED
    BY <2>1, <2>2, OpenBatchOf DEF Schedule!Next
<1>10. CASE NoticeLostConnection(s)
  BY <1>1, <1>10 DEF NoticeLostConnection, EndInError, dbVars, histVars
<1>11. QED
  BY <1>2, <1>3, <1>4, <1>5, <1>6, <1>7, <1>8, <1>9, <1>10 DEF PullStep

LEMMA SweepFaultImplements ==
  ASSUME PullInv, NEW s \in Sweepers, SweepFault(s)
  PROVE  Schedule!Next \/ UNCHANGED Schedule!vars
<1>1. \A r \in Sweepers : r # s => sweep'[r] = sweep[r]
  BY DEF SweepFault, Die, CommitUnacknowledged, LoseConnection, EndInError, PullInv, TypeOK
<1>2. ASSUME AbandonBatch(s), UNCHANGED <<day, row, claims>>
      PROVE  Schedule!Next \/ UNCHANGED Schedule!vars
  <2>1. CASE Holds(s)
    <3>1. Schedule!Lose(sweep[s].claim)
      BY <1>1, <1>2, <2>1, AbandonLoses DEF AbandonBatch
    <3>2. QED
      BY <2>1, <3>1, OpenBatchOf DEF Schedule!Next
  <2>2. CASE ~Holds(s)
    <3>1. UNCHANGED <<day, row, lock, claims, lost>>
      BY <1>2, <2>2 DEF AbandonBatch
    <3>2. \A d \in Digests : lock[d] # Unlocked => sweep'[lock[d]].now = sweep[lock[d]].now
      BY <1>1, <2>2, NoStrayLock DEF PullInv, TypeOK
    <3>3. QED
      BY <3>1, <3>2, Stutter
  <2>3. QED
    BY <2>1, <2>2
<1>3. CASE Die(s)
  BY <1>2, <1>3 DEF Die
<1>4. CASE LoseConnection(s)
  BY <1>2, <1>4 DEF LoseConnection
<1>5. CASE CommitUnacknowledged(s)
  <2>1. Holds(s) /\ UNCHANGED <<day, claims, lost>>
    BY <1>5 DEF CommitUnacknowledged, histVars
  <2>2. Schedule!Close(sweep[s].claim)
    BY <1>1, <1>5, <2>1, WriteCloses DEF CommitUnacknowledged
  <2>3. QED
    BY <2>1, <2>2, OpenBatchOf DEF Schedule!Next
<1>6. QED
  BY <1>3, <1>4, <1>5 DEF SweepFault

LEMMA VerbImplements ==
  ASSUME PullInv, NEW d \in Digests, Verb(d)
  PROVE  Schedule!Next \/ UNCHANGED Schedule!vars
<1>0. row[d] \in Row /\ row \in [Digests -> Row]
  BY DEF PullInv, TypeOK
<1>1. \A s \in Sweepers : sweep'[s].now = sweep[s].now
  <2>1. CASE sweep' = sweep
    BY <2>1
  <2>2. ASSUME NEW u \in Users, LeaveList(d, u), NEW s \in Sweepers
        PROVE  sweep'[s].now = sweep[s].now
    <3>1. sweep'[s] \in {sweep[s], [sweep[s] EXCEPT !.gone = @ \cup {u}]}
      BY <2>2 DEF LeaveList
    <3>2. sweep[s] \in Sweep
      BY DEF PullInv, TypeOK
    <3>3. QED
      BY <3>1, <3>2 DEF Sweep
  <2>3. QED
    BY <2>1, <2>2 DEF Verb, CreateDigest, SetPeriodicity, SetState, SubscribeNew, SubscribeAgain,
         PurgeSubscription
<1>2. UNCHANGED <<day, lock, claims, lost>>
  BY DEF Verb, CreateDigest, SetPeriodicity, SetState, SubscribeNew, SubscribeAgain,
         PurgeSubscription, LeaveList, histVars
<1>3. OpenBatch' = OpenBatch
  BY <1>1, <1>2, SameBatches DEF PullInv, TypeOK
<1>4. row' = row => UNCHANGED Schedule!vars
  BY <1>2, <1>3 DEF Schedule!vars
<1>5. ASSUME NEW p \in Periodicities, CreateDigest(d, p) PROVE Schedule!Write(d)
  <2>1. lock[d] = Unlocked
    <3> SUFFICES ASSUME lock[d] # Unlocked PROVE FALSE
      OBVIOUS
    <3>1. lock[d] \in Sweepers /\ sweep[lock[d]].claim = d
      BY DEF PullInv, TypeOK, LockOwned
    <3>2. Holds(lock[d]) /\ SweeperOK(lock[d])
      BY <3>1, NullsAreFresh DEF Holds, InBatch, PullInv
    <3>3. QED
      BY <1>5, <3>1, <3>2 DEF SweeperOK, Due, CreateDigest
  <2>2. OpenBatch[d] = NoDate
    BY <2>1 DEF OpenBatch
  <2>3. p \in Schedule!Periodicities
    BY DEF Periodicities, Schedule!Periodicities
  <2>4. QED
    BY <1>2, <1>3, <1>5, <2>2, <2>3 DEF CreateDigest, Schedule!Write
<1>6. ASSUME NEW p \in Periodicities, SetPeriodicity(d, p) PROVE Schedule!Write(d)
  <2>1. OpenBatch[d] = NoDate
    BY <1>6 DEF SetPeriodicity, OpenBatch
  <2>2. p \in Schedule!Periodicities
    BY DEF Periodicities, Schedule!Periodicities
  <2>3. QED
    BY <1>2, <1>3, <1>6, <2>1, <2>2 DEF SetPeriodicity, Schedule!Write
<1>7. ASSUME NEW value \in {"activated", "deactivated"}, SetState(d, value)
      PROVE  Schedule!Write(d)
  <2>1. OpenBatch[d] = NoDate
    BY <1>7 DEF SetState, OpenBatch
  <2>2. QED
    BY <1>2, <1>3, <1>7, <2>1 DEF SetState, Schedule!Write
<1>8. ASSUME NEW u \in Users, \/ SubscribeNew(d, u) \/ SubscribeAgain(d, u)
                              \/ PurgeSubscription(d, u) \/ LeaveList(d, u)
      PROVE  row' = row
  BY <1>8 DEF SubscribeNew, SubscribeAgain,
         PurgeSubscription, LeaveList
<1>9. QED
  BY <1>4, <1>5, <1>6, <1>7, <1>8 DEF Verb, Schedule!Next

\* Every behaviour of the sweeps, seen through the row locks, is a behaviour of
\* DigestSchedule.
THEOREM SweepImplementsSchedule == Spec => ImplementsSchedule
<1>1. Init => Schedule!Init
  BY DEF Init, Schedule!Init, OpenBatch, NoRow, Days, Schedule!Days
<1>2. PullInv /\ [Next]_vars => [Schedule!Next]_(Schedule!vars)
  <2> SUFFICES ASSUME PullInv, [Next]_vars
               PROVE  Schedule!Next \/ UNCHANGED Schedule!vars
    OBVIOUS
  <2>1. CASE UNCHANGED vars
    BY <2>1, Stutter DEF vars
  <2>2. CASE NextDay
    <3>1. OpenBatch' = OpenBatch
      BY <2>2 DEF NextDay, dbVars, OpenBatch
    <3>2. QED
      BY <2>2, <3>1 DEF NextDay, dbVars, histVars, Schedule!Next, Schedule!NextDay
  <2>3. ASSUME NEW o \in Operators, ManualStep(o) \/ \E d \in Digests : SendNow(o, d)
        PROVE  UNCHANGED Schedule!vars
    <3>1. UNCHANGED <<day, dbVars, sweep, ran, faults, edits, histVars>>
      BY <2>3, Zenon DEF ManualStep, SendNow, SendNowToRecipient, SendNowDone
    <3>2. QED
      BY <3>1, Stutter DEF dbVars, histVars
  <2>4. CASE Next
    <3>1. CASE \E s \in Sweepers : StartPull(s) \/ PullStep(s) \/ SweepFault(s)
      BY <3>1, PullStepImplements, SweepFaultImplements
    <3>2. CASE \E o \in Operators : ManualStep(o) \/ \E d \in Digests : SendNow(o, d)
      BY <2>3, <3>2
    <3>3. CASE \E d \in Digests : Verb(d)
      BY <3>3, VerbImplements
    <3>4. QED
      BY <2>2, <2>4, <3>1, <3>2, <3>3 DEF Next
  <2>5. QED
    BY <2>1, <2>4
<1>3. QED
  BY <1>1, <1>2, PullCorrect, PTL DEF Spec, ImplementsSchedule, Schedule!Spec

-----------------------------------------------------------------------------
(* The promise of the schedule, kept by the sweeps *)

Promise == INSTANCE DigestScheduleProofs WITH NoBatch <- NoDate, batch <- OpenBatch

\* On a date, a digest is claimed again only after a batch of that date was
\* lost before its commit.
ClaimedOnce == \A d \in Digests, t \in Days : claims[d][t] <= 1 + lost[d][t]

LEMMA ClaimedOnceHolds == Spec => []ClaimedOnce
<1>1. Schedule!Spec => []Promise!OneBatchPerDate
  <2>1. Schedule!Init => Promise!Init
    BY DEF Schedule!Init, Promise!Init, Schedule!Days, Promise!Days
  <2>2. [Schedule!Next]_(Schedule!vars) => [Promise!Next]_(Promise!vars)
    BY DEF Schedule!Next, Schedule!vars, Schedule!NextDay, Schedule!Open, Schedule!Close,
           Schedule!Lose, Schedule!Write, Schedule!Due, Schedule!NextRung, Schedule!Days,
           Schedule!Periodicities, Promise!Next, Promise!vars, Promise!NextDay, Promise!Open,
           Promise!Close, Promise!Lose, Promise!Write, Promise!Due, Promise!NextRung,
           Promise!Days, Promise!Periodicities
  <2>3. /\ MaxDay \in Nat /\ NoDate \notin Nat
        /\ \A p \in Promise!Periodicities, t \in Promise!Days :
             Advance(p, t) \in Nat /\ Advance(p, t) > t
    BY BoundsAreNat, NullsAreFresh, AdvanceIsLater
       DEF Periodicities, Days, Promise!Periodicities, Promise!Days
  <2>4. Promise!Spec => []Promise!OneBatchPerDate
    BY <2>3, Promise!OneBatchPerDateHolds
  <2>5. QED
    BY <2>1, <2>2, <2>4, PTL DEF Schedule!Spec, Promise!Spec
<1>2. Promise!OneBatchPerDate => ClaimedOnce
  BY DEF ClaimedOnce, Promise!OneBatchPerDate, Promise!Days, Days
<1>3. QED
  BY <1>1, <1>2, SweepImplementsSchedule, PTL DEF ImplementsSchedule

-----------------------------------------------------------------------------
(* One attempt per sweep *)

\* The sweeps of date t that may still claim digest d.  There are finitely many,
\* because only finitely many sweeps have begun.
Active        == {s \in Sweepers : sweep[s].pc # "idle"}
Pending(d, t) == {s \in Active : sweep[s].now = t /\ d \notin sweep[s].processed}

\* Every sweep begun pays for one claim of each digest: one it has made, or one
\* it can still make.
AttemptInv == /\ IsFiniteSet(Active)
              /\ \A d \in Digests, t \in Days :
                   claims[d][t] + Cardinality(Pending(d, t)) <= starts[t]

\* A sweep under way stops, or keeps its date and forgets no digest.
GoesOn(w, v) ==
  w.pc = "idle" \/ (v.pc # "idle" /\ w.now = v.now /\ v.processed \subseteq w.processed)

LEMMA PendingFinite ==
  ASSUME IsFiniteSet(Active), NEW d, NEW t
  PROVE  IsFiniteSet(Pending(d, t)) /\ Cardinality(Pending(d, t)) \in Nat
<1>1. Pending(d, t) \subseteq Active
  BY DEF Pending
<1>2. QED
  BY <1>1, FS_Subset, FS_CardinalityType

\* Steps in which no sweep starts or claims.
LEMMA AttemptQuiet ==
  ASSUME TypeOK, AttemptInv, UNCHANGED <<claims, starts>>,
         \A s \in Sweepers : GoesOn(sweep'[s], sweep[s])
  PROVE  AttemptInv'
<1>1. Active' \subseteq Active
  BY DEF Active, GoesOn
<1>2. IsFiniteSet(Active')
  BY <1>1, FS_Subset DEF AttemptInv
<1>3. ASSUME NEW d \in Digests, NEW t \in Days
      PROVE  claims'[d][t] + Cardinality(Pending(d, t)') <= starts'[t]
  <2>1. Pending(d, t)' \subseteq Pending(d, t)
    BY <1>1 DEF Pending, Active, GoesOn
  <2>2. IsFiniteSet(Pending(d, t)) /\ Cardinality(Pending(d, t)) \in Nat
    BY PendingFinite DEF AttemptInv
  <2>3. Cardinality(Pending(d, t)') <= Cardinality(Pending(d, t))
        /\ Cardinality(Pending(d, t)') \in Nat
    BY <2>1, <2>2, FS_Subset, FS_CardinalityType
  <2>4. /\ claims[d][t] \in Nat /\ starts[t] \in Nat
        /\ claims[d][t] + Cardinality(Pending(d, t)) <= starts[t]
    BY DEF TypeOK, AttemptInv
  <2>5. claims'[d][t] = claims[d][t] /\ starts'[t] = starts[t]
    OBVIOUS
  <2>6. QED
    BY <2>2, <2>3, <2>4, <2>5
<1>4. QED
  BY <1>2, <1>3 DEF AttemptInv

\* A sweep that starts may claim every digest, once.
LEMMA StartAttempt ==
  ASSUME TypeOK, AttemptInv, NEW s \in Sweepers, StartPull(s)
  PROVE  AttemptInv'
<1>1. /\ sweep'[s].now = day /\ sweep'[s].pc = "claim" /\ sweep'[s].processed = {}
      /\ \A r \in Sweepers : r # s => sweep'[r] = sweep[r]
      /\ s \notin Active /\ claims' = claims
      /\ starts' = [starts EXCEPT ![day] = @ + 1]
  BY DEF StartPull, TypeOK, IdleSweep, Active, dbVars
<1>2. Active' = Active \cup {s}
  BY <1>1 DEF Active
<1>3. IsFiniteSet(Active')
  BY <1>2, FS_AddElement DEF AttemptInv
<1>4. ASSUME NEW d \in Digests, NEW t \in Days
      PROVE  claims'[d][t] + Cardinality(Pending(d, t)') <= starts'[t]
  <2>1. /\ claims[d][t] \in Nat /\ starts[t] \in Nat
        /\ claims[d][t] + Cardinality(Pending(d, t)) <= starts[t]
    BY DEF TypeOK, AttemptInv
  <2>2. IsFiniteSet(Pending(d, t)) /\ Cardinality(Pending(d, t)) \in Nat /\ s \notin Pending(d, t)
    BY <1>1, PendingFinite DEF AttemptInv, Pending
  <2>3. CASE t = day
    <3>1. Pending(d, t)' = Pending(d, t) \cup {s}
      BY <1>1, <1>2, <2>3 DEF Pending, Active
    <3>2. Cardinality(Pending(d, t)') = Cardinality(Pending(d, t)) + 1
      BY <2>2, <3>1, FS_AddElement
    <3>3. starts'[t] = starts[t] + 1 /\ claims'[d][t] = claims[d][t]
      BY <1>1, <2>3 DEF TypeOK
    <3>4. QED
      BY <2>1, <2>2, <3>2, <3>3
  <2>4. CASE t # day
    <3>1. Pending(d, t)' = Pending(d, t)
      BY <1>1, <1>2, <2>4 DEF Pending, Active
    <3>2. starts'[t] = starts[t] /\ claims'[d][t] = claims[d][t]
      BY <1>1, <2>4 DEF TypeOK
    <3>3. QED
      BY <2>1, <3>1, <3>2
  <2>5. QED
    BY <2>3, <2>4
<1>5. QED
  BY <1>3, <1>4 DEF AttemptInv

\* A claim is paid for by the sweep that makes it.
LEMMA ClaimAttempt ==
  ASSUME TypeOK, AttemptInv, NEW s \in Sweepers, NEW e \in Digests, Claim(s, e)
  PROVE  AttemptInv'
<1>1. /\ sweep'[s].now = sweep[s].now /\ sweep'[s].pc = "read"
      /\ sweep'[s].processed = sweep[s].processed \cup {e}
      /\ \A r \in Sweepers : r # s => sweep'[r] = sweep[r]
      /\ sweep[s].pc = "claim" /\ e \notin sweep[s].processed /\ starts' = starts
      /\ claims' = [claims EXCEPT ![e][sweep[s].now] = @ + 1]
      /\ sweep[s].now \in Days
  BY DEF Claim, Claimable, TypeOK, IdleSweep, Sweep
<1>2. Active' = Active
  BY <1>1 DEF Active
<1>3. IsFiniteSet(Active')
  BY <1>2 DEF AttemptInv
<1>4. ASSUME NEW d \in Digests, NEW t \in Days
      PROVE  claims'[d][t] + Cardinality(Pending(d, t)') <= starts'[t]
  <2>1. /\ claims[d][t] \in Nat /\ starts[t] \in Nat
        /\ claims[d][t] + Cardinality(Pending(d, t)) <= starts[t]
    BY DEF TypeOK, AttemptInv
  <2>2. IsFiniteSet(Pending(d, t)) /\ Cardinality(Pending(d, t)) \in Nat
    BY PendingFinite DEF AttemptInv
  <2>3. CASE d = e /\ t = sweep[s].now
    <3>1. Pending(d, t)' = Pending(d, t) \ {s} /\ s \in Pending(d, t)
      BY <1>1, <1>2, <2>3 DEF Pending, Active
    <3>2. Cardinality(Pending(d, t)') = Cardinality(Pending(d, t)) - 1
      BY <2>2, <3>1, FS_RemoveElement
    <3>3. claims'[d][t] = claims[d][t] + 1 /\ starts'[t] = starts[t]
      BY <1>1, <2>3 DEF TypeOK
    <3>4. QED
      BY <2>1, <2>2, <3>2, <3>3
  <2>4. CASE ~(d = e /\ t = sweep[s].now)
    <3>1. Pending(d, t)' = Pending(d, t)
      BY <1>1, <1>2, <2>4 DEF Pending, Active
    <3>2. claims'[d][t] = claims[d][t] /\ starts'[t] = starts[t]
      BY <1>1, <2>4 DEF TypeOK
    <3>3. QED
      BY <2>1, <3>1, <3>2
  <2>5. QED
    BY <2>3, <2>4
<1>5. QED
  BY <1>3, <1>4 DEF AttemptInv

-----------------------------------------------------------------------------
(* What one step does to one sweep *)

\* Nothing the batch decides by, except that opt-outs may be noted.
Rests(w, v) ==
  /\ SameBatch(w, v) /\ w.failed = v.failed /\ w.processed = v.processed
  /\ v.gone \subseteq w.gone

\* The batch is over, or never was: no digest, nobody to mail.
Leaves(w, v) ==
  /\ OutOfBatch(w)
  /\ GoesOn(w, v)

Reads(w, v) ==
  /\ v.pc = "read" /\ w.pc = "judge" /\ w.now = v.now /\ w.processed = v.processed
  /\ w.claim = v.claim /\ w.todo = ActiveRecipients(v.claim) /\ w.gone = v.gone
  /\ subs' = subs

Judges(w, v) ==
  /\ v.pc = "judge" /\ w.pc = "send" /\ w.now = v.now /\ w.processed = v.processed
  /\ w.claim = v.claim /\ w.todo = v.todo /\ w.gone = v.gone
  /\ w.target # w.cadence => v.todo # {}

Sends(w, v) ==
  /\ v.pc = "send" /\ w.pc = "send" /\ w.now = v.now /\ w.processed = v.processed
  /\ w.claim = v.claim /\ w.cadence = v.cadence /\ w.target = v.target
  /\ w.todo \subseteq v.todo /\ w.gone = v.gone
  /\ ~w.failed => ~v.failed /\ w.todo \cup w.mailed = v.todo \cup v.mailed

\* A sweep rests, starts, claims, or goes through the program of its batch.
LEMMA SweepMoves ==
  ASSUME TypeOK, [Next]_vars, NEW s \in Sweepers
  PROVE  \/ Rests(sweep'[s], sweep[s])
         \/ Leaves(sweep'[s], sweep[s])
         \/ StartPull(s)
         \/ \E d \in Digests : Claim(s, d)
         \/ Reads(sweep'[s], sweep[s])
         \/ Judges(sweep'[s], sweep[s])
         \/ Sends(sweep'[s], sweep[s])
<1> DEFINE Moves == \/ Rests(sweep'[s], sweep[s])
                    \/ Leaves(sweep'[s], sweep[s])
                    \/ StartPull(s)
                    \/ \E d \in Digests : Claim(s, d)
                    \/ Reads(sweep'[s], sweep[s])
                    \/ Judges(sweep'[s], sweep[s])
                    \/ Sends(sweep'[s], sweep[s])
<1>0. sweep[s] \in Sweep /\ sweep \in [Sweepers -> Sweep]
  BY DEF TypeOK
<1>1. sweep'[s] = sweep[s] => Rests(sweep'[s], sweep[s])
  BY DEF Rests, SameBatch
<1>2. sweep'[s] = IdleSweep => Leaves(sweep'[s], sweep[s])
  BY DEF Leaves, OutOfBatch, GoesOn, IdleSweep
<1>3. sweep'[s] = NextClaim(s) /\ sweep[s].pc # "idle" => Leaves(sweep'[s], sweep[s])
  BY DEF Leaves, OutOfBatch, GoesOn, NextClaim, IdleSweep
<1>4. CASE ReadRecipients(s)
  BY <1>0, <1>4 DEF ReadRecipients, Reads, Sweep, dbVars
<1>5. CASE JudgeSlowdown(s)
  <2>1. PICK loggedIn \in (IF sweep[s].todo = {} THEN {"yes"} ELSE {"yes", "no", "error"}) :
          sweep' = [sweep EXCEPT ![s].pc = "send",
                      ![s].target = IF loggedIn = "no" THEN NextRung(sweep[s].cadence)
                                                       ELSE sweep[s].cadence]
    BY <1>5 DEF JudgeSlowdown
  <2>2. sweep[s].pc = "judge" /\ (loggedIn = "no" => sweep[s].todo # {})
    BY <1>5, <2>1 DEF JudgeSlowdown
  <2>3. QED
    BY <1>0, <2>1, <2>2 DEF Judges, Sweep
<1>6. ASSUME NEW u \in Users, SendToRecipient(s, u) PROVE Sends(sweep'[s], sweep[s])
  <2>1. PICK r \in SendOutcome :
           sweep' = [sweep EXCEPT
                       ![s].todo   = @ \ {u},
                       ![s].failed = @ \/ ~r.ok,
                       ![s].mailed = IF r.enqueued THEN @ \cup {u} ELSE @]
    BY <1>6 DEF SendToRecipient
  <2>2. /\ sweep[s].pc = "send" /\ u \in sweep[s].todo
        /\ r.ok => r.enqueued
    BY <1>6, <2>1 DEF SendToRecipient, SendOutcome
  <2> DEFINE w == [sweep[s] EXCEPT !.todo   = @ \ {u},
                                   !.failed = @ \/ ~r.ok,
                                   !.mailed = IF r.enqueued THEN @ \cup {u} ELSE @]
  <2>3. sweep'[s] = w
    BY <1>0, <2>1
  <2>4. /\ w.pc = sweep[s].pc /\ w.now = sweep[s].now /\ w.processed = sweep[s].processed
        /\ w.claim = sweep[s].claim /\ w.cadence = sweep[s].cadence /\ w.target = sweep[s].target
        /\ w.gone = sweep[s].gone
        /\ w.todo = sweep[s].todo \ {u}
        /\ w.mailed = IF r.enqueued THEN sweep[s].mailed \cup {u} ELSE sweep[s].mailed
    BY <1>0 DEF Sweep
  <2>5. w.failed = (sweep[s].failed \/ ~r.ok)
    BY <1>0, Zenon DEF Sweep
  <2> HIDE DEF w
  <2>6. ~w.failed => ~sweep[s].failed /\ r.ok
    BY <2>5
  <2>7. QED
    BY <2>2, <2>3, <2>4, <2>6 DEF Sends
<1>7. ASSUME NEW d \in Digests, NEW u \in Users, LeaveList(d, u)
      PROVE  Rests(sweep'[s], sweep[s])
  <2>1. sweep'[s] \in {sweep[s], [sweep[s] EXCEPT !.gone = @ \cup {u}]}
    BY <1>7 DEF LeaveList
  <2>2. QED
    BY <1>0, <2>1 DEF Rests, SameBatch, Sweep
<1>8. ASSUME NEW r \in Sweepers, StartPull(r) \/ PullStep(r) \/ SweepFault(r) PROVE Moves
  <2>1. r # s => sweep'[s] = sweep[s]
    BY <1>0, <1>8 DEF StartPull, PullStep, Claim, Drain, ReadRecipients, JudgeSlowdown,
       SendToRecipient, Settle, IsolateBatch, NoticeLostConnection, SweepFault, Die,
       CommitUnacknowledged, LoseConnection, EndInError
  <2>2. CASE r = s
    <3>1. CASE Drain(s) \/ NoticeLostConnection(s) \/ Die(s) \/ CommitUnacknowledged(s)
      BY <1>0, <1>2, <3>1
         DEF Drain, NoticeLostConnection, Die, CommitUnacknowledged, EndInError
    <3>2. CASE Settle(s) \/ IsolateBatch(s)
      BY <1>0, <1>3, <3>2 DEF Settle, IsolateBatch, ReadyToSettle
    <3>3. CASE LoseConnection(s)
      BY <1>1, <3>3 DEF LoseConnection
    <3>4. QED
      BY <1>4, <1>5, <1>6, <1>8, <2>2, <3>1, <3>2, <3>3 DEF PullStep, SweepFault
  <2>3. QED
    BY <1>1, <2>1, <2>2
<1>9. CASE \/ UNCHANGED vars \/ NextDay
           \/ \E o \in Operators : ManualStep(o) \/ \E d \in Digests : SendNow(o, d)
  BY <1>1, <1>9 DEF vars, NextDay, ManualStep, SendNow, SendNowToRecipient, SendNowDone
<1>10. ASSUME NEW d \in Digests, Verb(d) PROVE Moves
  BY <1>1, <1>7, <1>10
     DEF Verb, CreateDigest, SetPeriodicity, SetState, SubscribeNew, SubscribeAgain,
         PurgeSubscription
<1>11. QED
  BY <1>8, <1>9, <1>10 DEF Next

LEMMA AttemptStep == ASSUME TypeOK, AttemptInv, [Next]_vars PROVE AttemptInv'
<1>1. ASSUME \A s \in Sweepers : ~StartPull(s) /\ \A d \in Digests : ~Claim(s, d)
      PROVE  AttemptInv'
  <2>1. UNCHANGED <<claims, starts>>
    <3>1. ASSUME NEW s \in Sweepers, PullStep(s) \/ SweepFault(s) PROVE UNCHANGED <<claims, starts>>
      BY <1>1, <3>1 DEF PullStep, histVars, Drain, ReadRecipients, JudgeSlowdown, SendToRecipient,
         Settle, IsolateBatch, NoticeLostConnection, SweepFault, Die, CommitUnacknowledged,
         LoseConnection
    <3>2. ASSUME NEW o \in Operators, ManualStep(o) \/ \E d \in Digests : SendNow(o, d)
          PROVE  UNCHANGED <<claims, starts>>
      BY <3>2 DEF histVars, ManualStep, SendNow, SendNowToRecipient, SendNowDone
    <3>3. ASSUME NEW d \in Digests, Verb(d) PROVE UNCHANGED <<claims, starts>>
      BY <3>3 DEF histVars, Verb, CreateDigest, SetPeriodicity, SetState, SubscribeNew,
         SubscribeAgain, PurgeSubscription, LeaveList
    <3>4. CASE UNCHANGED vars \/ NextDay
      BY <3>4 DEF vars, histVars, NextDay
    <3>5. QED
      BY <1>1, <3>1, <3>2, <3>3, <3>4 DEF Next
  <2>2. ASSUME NEW s \in Sweepers PROVE GoesOn(sweep'[s], sweep[s])
    BY <1>1, SweepMoves DEF GoesOn, Rests, SameBatch, Leaves, Reads, Judges, Sends
  <2>3. QED
    BY <2>1, <2>2, AttemptQuiet
<1>2. QED
  BY <1>1, StartAttempt, ClaimAttempt

LEMMA AttemptAlways == Spec => []AttemptInv
<1>1. Init => AttemptInv
  <2> SUFFICES ASSUME Init PROVE AttemptInv
    OBVIOUS
  <2>1. Active = {} /\ \A d \in Digests, t \in Days : Pending(d, t) = {}
    BY DEF Init, IdleSweep, Active, Pending
  <2>2. IsFiniteSet(Active) /\ Cardinality({}) = 0
    BY <2>1, FS_EmptySet
  <2>3. ASSUME NEW d \in Digests, NEW t \in Days
        PROVE  claims[d][t] + Cardinality(Pending(d, t)) <= starts[t]
    <3>1. claims[d][t] = 0 /\ starts[t] = 0 /\ Cardinality(Pending(d, t)) = 0
      BY <2>1, <2>2 DEF Init
    <3>2. QED
      BY <3>1
  <2>4. QED
    BY <2>2, <2>3 DEF AttemptInv
<1>2. QED
  BY <1>1, AttemptStep, TypeCorrect, PTL DEF Spec

\* Per date, each digest is claimed at most once by each sweep begun: a batch
\* that is rolled back is left to the next sweep, not tried again by this one.
THEOREM AttemptedOncePerSweepHolds == Spec => []AttemptedOncePerSweep
<1>1. TypeOK /\ AttemptInv => AttemptedOncePerSweep
  <2> SUFFICES ASSUME TypeOK, AttemptInv, NEW d \in Digests, NEW t \in Days
               PROVE  claims[d][t] <= starts[t]
    BY DEF AttemptedOncePerSweep
  <2>1. Cardinality(Pending(d, t)) \in Nat
    BY PendingFinite DEF AttemptInv
  <2>2. claims[d][t] \in Nat /\ starts[t] \in Nat
    BY DEF TypeOK
  <2>3. QED
    BY <2>1, <2>2 DEF AttemptInv
<1>2. QED
  BY <1>1, AttemptAlways, TypeCorrect, PTL

-----------------------------------------------------------------------------
(* One mail per claim *)

\* The batches of digest d and date t that may still mail u.
Owing(d, u, t) == {s \in Active : /\ sweep[s].claim = d /\ sweep[s].now = t
                                  /\ sweep[s].pc = "read" \/ u \in sweep[s].todo}

\* Every claim pays for one mail to each person: one its batch has queued, or
\* one it can still queue.
MailInv == \A d \in Digests, u \in Users, t \in Days :
  queued[d][u][t] + Cardinality(Owing(d, u, t)) <= claims[d][t]

LEMMA OwingFinite ==
  ASSUME AttemptInv, NEW d, NEW u, NEW t
  PROVE  IsFiniteSet(Owing(d, u, t)) /\ Cardinality(Owing(d, u, t)) \in Nat
<1>1. Owing(d, u, t) \subseteq Active
  BY DEF Owing
<1>2. QED
  BY <1>1, FS_Subset, FS_CardinalityType DEF AttemptInv

\* What MailInv says of one digest, person and date, after a step.
LEMMA MailFewer ==
  ASSUME TypeOK, AttemptInv, MailInv, NEW d \in Digests, NEW u \in Users, NEW t \in Days,
         queued'[d][u][t] = queued[d][u][t], claims'[d][t] = claims[d][t],
         Owing(d, u, t)' \subseteq Owing(d, u, t)
  PROVE  queued'[d][u][t] + Cardinality(Owing(d, u, t)') <= claims'[d][t]
<1>1. /\ queued[d][u][t] \in Nat /\ claims[d][t] \in Nat
      /\ queued[d][u][t] + Cardinality(Owing(d, u, t)) <= claims[d][t]
  BY DEF TypeOK, MailInv
<1>2. IsFiniteSet(Owing(d, u, t)) /\ Cardinality(Owing(d, u, t)) \in Nat
  BY OwingFinite
<1>3. /\ Cardinality(Owing(d, u, t)') <= Cardinality(Owing(d, u, t))
      /\ Cardinality(Owing(d, u, t)') \in Nat
  BY <1>2, FS_Subset, FS_CardinalityType
<1>4. QED
  BY <1>1, <1>2, <1>3

\* Steps in which no sweep claims and none mails.
LEMMA MailQuiet ==
  ASSUME PullInv, PullInv', AttemptInv, MailInv, [Next]_vars, UNCHANGED <<claims, queued>>,
         \A s \in Sweepers, e \in Digests : ~Claim(s, e)
  PROVE  MailInv'
<1> SUFFICES ASSUME NEW d \in Digests, NEW u \in Users, NEW t \in Days
             PROVE  queued'[d][u][t] + Cardinality(Owing(d, u, t)') <= claims'[d][t]
  BY DEF MailInv
<1>1. TypeOK
  BY DEF PullInv
<1>2. ASSUME NEW s \in Sweepers, sweep'[s].claim = d
      PROVE  /\ sweep[s].claim = d /\ sweep[s].now = sweep'[s].now
             /\ sweep[s].pc = "idle" => sweep'[s].pc = "idle"
             /\ sweep[s].pc = "read" \/ sweep'[s].todo \subseteq sweep[s].todo
             /\ sweep'[s].pc = "read" => sweep[s].pc = "read"
  <2>1. ~Leaves(sweep'[s], sweep[s])
    BY <1>2, NullsAreFresh DEF Leaves, OutOfBatch
  <2>2. ~StartPull(s)
    <3>1. DOMAIN sweep = Sweepers
      BY <1>1 DEF TypeOK
    <3>2. StartPull(s) => sweep'[s].claim = NoDigest
      BY <3>1 DEF StartPull, IdleSweep
    <3>3. QED
      BY <1>2, <3>2, NullsAreFresh
  <2>3. QED
    BY <1>1, <1>2, <2>1, <2>2, SweepMoves DEF Rests, SameBatch, Reads, Judges, Sends
<1>3. Owing(d, u, t)' \subseteq Owing(d, u, t)
  BY <1>2 DEF Owing, Active
<1>4. QED
  BY <1>1, <1>3, MailFewer

\* A claim owes everybody a mail.
LEMMA ClaimMail ==
  ASSUME PullInv, AttemptInv, MailInv, NEW s \in Sweepers, NEW e \in Digests, Claim(s, e)
  PROVE  MailInv'
<1>0. TypeOK
  BY DEF PullInv
<1>1. /\ sweep'[s].now = sweep[s].now /\ sweep'[s].pc = "read" /\ sweep'[s].claim = e
      /\ \A r \in Sweepers : r # s => sweep'[r] = sweep[r]
      /\ sweep[s].now \in Days
  BY <1>0 DEF Claim, TypeOK, IdleSweep, Sweep
<1>2. /\ sweep[s].pc = "claim" /\ queued' = queued
      /\ claims' = [claims EXCEPT ![e][sweep[s].now] = @ + 1]
  BY DEF Claim
<1>3. sweep[s].claim = NoDigest
  BY <1>2 DEF PullInv, SweeperOK, InBatch
<1> SUFFICES ASSUME NEW d \in Digests, NEW u \in Users, NEW t \in Days
             PROVE  queued'[d][u][t] + Cardinality(Owing(d, u, t)') <= claims'[d][t]
  BY DEF MailInv
<1>4. s \notin Owing(d, u, t)
  BY <1>3, NullsAreFresh DEF Owing
<1>5. CASE d = e /\ t = sweep[s].now
  <2>1. Owing(d, u, t)' = Owing(d, u, t) \cup {s}
    BY <1>1, <1>2, <1>4, <1>5 DEF Owing, Active
  <2>2. IsFiniteSet(Owing(d, u, t)) /\ Cardinality(Owing(d, u, t)) \in Nat
    BY OwingFinite
  <2>3. Cardinality(Owing(d, u, t)') = Cardinality(Owing(d, u, t)) + 1
    BY <1>4, <2>1, <2>2, FS_AddElement
  <2>4. /\ queued[d][u][t] \in Nat /\ claims[d][t] \in Nat
        /\ queued[d][u][t] + Cardinality(Owing(d, u, t)) <= claims[d][t]
    BY <1>0 DEF TypeOK, MailInv
  <2>5. claims'[d][t] = claims[d][t] + 1
    BY <1>0, <1>2, <1>5 DEF TypeOK
  <2>6. QED
    BY <1>2, <2>2, <2>3, <2>4, <2>5
<1>6. CASE ~(d = e /\ t = sweep[s].now)
  <2>1. Owing(d, u, t)' \subseteq Owing(d, u, t)
    BY <1>1, <1>2, <1>6 DEF Owing, Active
  <2>2. claims'[d][t] = claims[d][t]
    BY <1>0, <1>2, <1>6 DEF TypeOK
  <2>3. QED
    BY <1>0, <1>2, <2>1, <2>2, MailFewer
<1>7. QED
  BY <1>5, <1>6

\* A mail is one that was owed, and is owed no more, queued or not.
LEMMA SendMail ==
  ASSUME PullInv, AttemptInv, MailInv, NEW s \in Sweepers, NEW v \in Users, SendToRecipient(s, v)
  PROVE  MailInv'
<1>0. TypeOK
  BY DEF PullInv
<1> DEFINE c == sweep[s].claim
           n == sweep[s].now
<1>1. /\ sweep[s].pc = "send" /\ v \in sweep[s].todo /\ claims' = claims
      /\ queued' \in {queued, [queued EXCEPT ![c][v][n] = @ + 1]}
  BY DEF SendToRecipient
<1>2. /\ sweep'[s].pc = "send" /\ sweep'[s].claim = c /\ sweep'[s].now = n
      /\ sweep'[s].todo = sweep[s].todo \ {v}
      /\ \A r \in Sweepers : r # s => sweep'[r] = sweep[r]
  <2>1. sweep \in [Sweepers -> Sweep]
    BY <1>0 DEF TypeOK
  <2>2. PICK failed, mailed : sweep' = [sweep EXCEPT ![s].todo   = @ \ {v},
                                                     ![s].failed = failed,
                                                     ![s].mailed = mailed]
    BY DEF SendToRecipient
  <2>3. QED
    BY <1>1, <2>1, <2>2 DEF Sweep
<1> HIDE DEF c, n
<1> SUFFICES ASSUME NEW d \in Digests, NEW u \in Users, NEW t \in Days
             PROVE  queued'[d][u][t] + Cardinality(Owing(d, u, t)') <= claims'[d][t]
  BY DEF MailInv
<1>3. CASE d = c /\ u = v /\ t = n
  <2>1. s \in Owing(d, u, t)
    BY <1>1, <1>3 DEF Owing, Active, c, n
  <2>2. Owing(d, u, t)' = Owing(d, u, t) \ {s}
    BY <1>1, <1>2, <1>3 DEF Owing, Active
  <2>3. IsFiniteSet(Owing(d, u, t)) /\ Cardinality(Owing(d, u, t)) \in Nat
    BY OwingFinite
  <2>4. Cardinality(Owing(d, u, t)') = Cardinality(Owing(d, u, t)) - 1
    BY <2>1, <2>2, <2>3, FS_RemoveElement
  <2>5. /\ queued[d][u][t] \in Nat /\ claims[d][t] \in Nat
        /\ queued[d][u][t] + Cardinality(Owing(d, u, t)) <= claims[d][t]
    BY <1>0 DEF TypeOK, MailInv
  <2>6. queued'[d][u][t] \in {queued[d][u][t], queued[d][u][t] + 1}
    BY <1>0, <1>1, <1>3 DEF TypeOK
  <2>7. QED
    BY <1>1, <2>3, <2>4, <2>5, <2>6
<1>4. CASE ~(d = c /\ u = v /\ t = n)
  <2>1. Owing(d, u, t)' \subseteq Owing(d, u, t)
    BY <1>1, <1>2 DEF Owing, Active, c, n
  <2>2. queued'[d][u][t] = queued[d][u][t]
    BY <1>0, <1>1, <1>4 DEF TypeOK
  <2>3. QED
    BY <1>0, <1>1, <2>1, <2>2, MailFewer
<1>5. QED
  BY <1>3, <1>4

LEMMA MailStep == ASSUME PullInv, PullInv', AttemptInv, MailInv, [Next]_vars PROVE MailInv'
<1>1. ASSUME \A s \in Sweepers : /\ \A d \in Digests : ~Claim(s, d)
                                 /\ \A u \in Users : ~SendToRecipient(s, u)
      PROVE  MailInv'
  <2>1. UNCHANGED <<claims, queued>>
    BY <1>1 DEF Next, vars, histVars, NextDay, StartPull, PullStep, Drain, ReadRecipients,
       JudgeSlowdown, Settle, IsolateBatch, NoticeLostConnection, SweepFault, Die,
       CommitUnacknowledged, LoseConnection, ManualStep, SendNow, SendNowToRecipient,
       SendNowDone, Verb, CreateDigest, SetPeriodicity, SetState, SubscribeNew,
       SubscribeAgain, PurgeSubscription, LeaveList
  <2>2. QED
    BY <1>1, <2>1, MailQuiet
<1>2. QED
  BY <1>1, ClaimMail, SendMail

\* "Two sweeps must not double-send": on a date, a digest is claimed again only
\* after a batch of that date was lost before its commit, and each claim queues
\* at most one mail for a person.
THEOREM OneBatchPerDayHolds == Spec => []OneBatchPerDay
<1>1. Init => MailInv
  <2> SUFFICES ASSUME Init, NEW d \in Digests, NEW u \in Users, NEW t \in Days
               PROVE  queued[d][u][t] + Cardinality(Owing(d, u, t)) <= claims[d][t]
    BY DEF MailInv
  <2>1. Owing(d, u, t) = {}
    BY DEF Init, IdleSweep, Owing, Active
  <2>2. queued[d][u][t] = 0 /\ claims[d][t] = 0 /\ Cardinality(Owing(d, u, t)) = 0
    BY <2>1, FS_EmptySet DEF Init
  <2>3. QED
    BY <2>2
<1>2. TypeOK /\ AttemptInv /\ MailInv /\ ClaimedOnce => OneBatchPerDay
  <2> SUFFICES ASSUME TypeOK, AttemptInv, MailInv,
                      NEW d \in Digests, NEW u \in Users, NEW t \in Days
               PROVE  queued[d][u][t] <= claims[d][t]
    BY DEF OneBatchPerDay, ClaimedOnce
  <2>1. Cardinality(Owing(d, u, t)) \in Nat
    BY OwingFinite
  <2>2. queued[d][u][t] \in Nat /\ claims[d][t] \in Nat
    BY DEF TypeOK
  <2>3. QED
    BY <2>1, <2>2 DEF MailInv
<1>3. QED
  BY <1>1, <1>2, MailStep, ClaimedOnceHolds, AttemptAlways, TypeCorrect, PullCorrect, PTL DEF Spec

-----------------------------------------------------------------------------
(* Recipient lists *)

\* A list still names only subscribers of d in the table, apart from those noted as gone.
ListOK(w, d, table) == \A u \in w.todo \ w.gone : table[d][u] = "subscribed"

\* A batch has nobody on its list before it reads one, so an opt-out that comes
\* earlier needs no note.
ListInv ==
  /\ \A s \in Sweepers : InBatch(s) => ListOK(sweep[s], sweep[s].claim, subs)
  /\ \A s \in Sweepers : sweep[s].pc = "read" => sweep[s].todo = {}
  /\ \A o \in Operators : manual[o].digest # NoDigest => ListOK(manual[o], manual[o].digest, subs)

\* Whoever drops out of a digest in this step has just left it.
OptOut(d, u) == \A e \in Digests, v \in Users :
  subs[e][v] = "subscribed" => subs'[e][v] = "subscribed" \/ (e = d /\ v = u)

LEMMA OnlyOptOuts ==
  ASSUME TypeOK, [Next]_vars
  PROVE  \/ \E d \in Digests, u \in Users : LeaveList(d, u) /\ OptOut(d, u)
         \/ \A e \in Digests, v \in Users :
              subs[e][v] = "subscribed" => subs'[e][v] = "subscribed"
<1>1. ASSUME NEW d \in Digests, NEW u \in Users, LeaveList(d, u) PROVE OptOut(d, u)
  BY <1>1 DEF LeaveList, OptOut, TypeOK
<1>2. ASSUME NEW d \in Digests, NEW u \in Users, SubscribeNew(d, u) \/ SubscribeAgain(d, u),
             NEW e \in Digests, NEW v \in Users, subs[e][v] = "subscribed"
      PROVE  subs'[e][v] = "subscribed"
  <2>1. subs' = [subs EXCEPT ![d][u] = "subscribed"]
    BY <1>2 DEF SubscribeNew, SubscribeAgain
  <2>2. DOMAIN subs = Digests /\ DOMAIN subs[d] = Users
    BY DEF TypeOK
  <2>3. QED
    BY <1>2, <2>1, <2>2
<1>3. ASSUME NEW d \in Digests, NEW u \in Users, PurgeSubscription(d, u),
             NEW e \in Digests, NEW v \in Users, subs[e][v] = "subscribed"
      PROVE  subs'[e][v] = "subscribed"
  <2>1. subs' = [subs EXCEPT ![d][u] = "none"] /\ subs[d][u] # "subscribed"
    BY <1>3 DEF PurgeSubscription
  <2>2. DOMAIN subs = Digests /\ DOMAIN subs[d] = Users
    BY DEF TypeOK
  <2>3. QED
    BY <1>3, <2>1, <2>2
<1>4. ASSUME NEW s \in Sweepers, StartPull(s) \/ PullStep(s) \/ SweepFault(s) PROVE subs' = subs
  BY <1>4 DEF StartPull, PullStep, Claim, Drain, ReadRecipients, JudgeSlowdown,
     SendToRecipient, Settle, IsolateBatch, NoticeLostConnection, SweepFault, Die,
     CommitUnacknowledged, LoseConnection, dbVars
<1>5. CASE \/ UNCHANGED vars \/ NextDay
           \/ \E o \in Operators : ManualStep(o) \/ \E d \in Digests : SendNow(o, d)
  BY <1>5 DEF vars, NextDay, ManualStep, SendNow, SendNowToRecipient, SendNowDone, dbVars
<1>6. QED
  BY <1>1, <1>2, <1>3, <1>4, <1>5 DEF Next, Verb, CreateDigest, SetPeriodicity, SetState

\* Only Send Now and the people who leave move a manual send.
LEMMA ManualMoves ==
  ASSUME TypeOK, [Next]_vars, NEW o \in Operators
  PROVE  \/ /\ manual'[o].digest = manual[o].digest /\ manual'[o].todo \subseteq manual[o].todo
            /\ manual[o].gone \subseteq manual'[o].gone
         \/ \E d \in Digests : /\ manual'[o].digest = d /\ manual'[o].todo = ActiveRecipients(d)
                               /\ subs' = subs
         \/ manual'[o].digest = NoDigest
<1>0. manual \in [Operators -> Manual] /\ manual[o] \in Manual
  BY DEF TypeOK
<1>1. ASSUME NEW p \in Operators, NEW d \in Digests, SendNow(p, d)
      PROVE  \/ manual'[o] = manual[o]
             \/ manual'[o].digest = d /\ manual'[o].todo = ActiveRecipients(d) /\ subs' = subs
  BY <1>0, <1>1 DEF SendNow, IdleManual, dbVars
<1>2. ASSUME NEW p \in Operators, NEW u \in Users, SendNowToRecipient(p, u)
      PROVE  /\ manual'[o].digest = manual[o].digest /\ manual'[o].todo \subseteq manual[o].todo
             /\ manual[o].gone \subseteq manual'[o].gone
  <2>1. CASE p # o
    BY <1>0, <1>2, <2>1 DEF SendNowToRecipient
  <2>2. CASE p = o
    BY <1>0, <1>2, <2>2 DEF SendNowToRecipient, Manual
  <2>3. QED
    BY <2>1, <2>2
<1>3. ASSUME NEW p \in Operators, SendNowDone(p)
      PROVE  manual'[o] = manual[o] \/ manual'[o].digest = NoDigest
  BY <1>0, <1>3 DEF SendNowDone, IdleManual
<1>4. ASSUME NEW d \in Digests, NEW u \in Users, LeaveList(d, u)
      PROVE  /\ manual'[o].digest = manual[o].digest /\ manual'[o].todo = manual[o].todo
             /\ manual[o].gone \subseteq manual'[o].gone
  <2>1. manual'[o] \in {manual[o], [manual[o] EXCEPT !.gone = @ \cup {u}]}
    BY <1>4 DEF LeaveList
  <2>2. QED
    BY <1>0, <2>1 DEF Manual
<1>5. ASSUME NEW s \in Sweepers, StartPull(s) \/ PullStep(s) \/ SweepFault(s)
      PROVE  manual' = manual
  BY <1>5 DEF StartPull, PullStep, Claim, Drain, ReadRecipients, JudgeSlowdown,
     SendToRecipient, Settle, IsolateBatch, NoticeLostConnection, SweepFault, Die,
     CommitUnacknowledged, LoseConnection
<1>6. ASSUME NEW d \in Digests, Verb(d), manual' # manual
      PROVE  \E u \in Users : LeaveList(d, u)
  BY <1>6 DEF Verb, CreateDigest, SetPeriodicity, SetState, SubscribeNew, SubscribeAgain,
         PurgeSubscription
<1>7. \/ manual' = manual
      \/ \E p \in Operators : ManualStep(p) \/ \E d \in Digests : SendNow(p, d)
      \/ \E d \in Digests, u \in Users : LeaveList(d, u)
  BY <1>5, <1>6 DEF Next, NextDay, vars
<1>8. QED
  BY <1>1, <1>2, <1>3, <1>4, <1>7 DEF ManualStep

\* Opting out of d notes it on every list of d that has been read.
LEMMA NotesOptOut ==
  ASSUME TypeOK, NEW d \in Digests, NEW u \in Users, LeaveList(d, u)
  PROVE  /\ \A s \in Sweepers :
              sweep[s].claim = d /\ sweep[s].pc \in {"judge", "send"} => u \in sweep'[s].gone
         /\ \A o \in Operators : manual[o].digest = d => u \in manual'[o].gone
<1>1. ASSUME NEW s \in Sweepers, sweep[s].claim = d, sweep[s].pc \in {"judge", "send"}
      PROVE  u \in sweep'[s].gone
  BY <1>1 DEF LeaveList, TypeOK, Sweep
<1>2. ASSUME NEW o \in Operators, manual[o].digest = d PROVE u \in manual'[o].gone
  BY <1>2 DEF LeaveList, TypeOK, Manual
<1>3. QED
  BY <1>1, <1>2

\* A list that only loses names stays right, once the opt-outs are noted.
LEMMA ListShrinks ==
  ASSUME TypeOK, [Next]_vars, NEW v, NEW w, NEW d \in Digests, ListOK(v, d, subs),
         v.todo \subseteq Users, w.todo \subseteq v.todo, v.gone \subseteq w.gone,
         \A u \in Users : LeaveList(d, u) => u \in w.gone \/ u \notin w.todo
  PROVE  ListOK(w, d, subs')
BY OnlyOptOuts DEF ListOK, OptOut

LEMMA ListStep == ASSUME PullInv, PullInv', ListInv, [Next]_vars PROVE ListInv'
<1>0. TypeOK /\ TypeOK'
  BY DEF PullInv
<1>1. ASSUME NEW s \in Sweepers, InBatch(s)' PROVE ListOK(sweep'[s], sweep'[s].claim, subs')
  <2> DEFINE v == sweep[s]
             w == sweep'[s]
  <2>0. /\ v \in Sweep /\ w \in Sweep /\ v.todo \subseteq Users /\ w.claim \in Digests
        /\ SweeperOK(s) /\ SweeperOK(s)'
    BY <1>0, <1>1 DEF TypeOK, InBatch, PullInv, Sweep
  <2>1. CASE Rests(w, v) \/ Judges(w, v) \/ Sends(w, v)
    <3>1. /\ w.claim = v.claim /\ InBatch(s) /\ ListOK(v, w.claim, subs)
          /\ w.todo \subseteq v.todo /\ v.gone \subseteq w.gone
      BY <1>1, <2>1 DEF Rests, SameBatch, Judges, Sends, InBatch, ListInv
    <3>2. ASSUME NEW u \in Users, LeaveList(w.claim, u)
          PROVE  u \in w.gone \/ u \notin w.todo
      <4>1. v.pc = "read" \/ v.pc \in {"judge", "send"}
        BY <2>0, <3>1 DEF SweeperOK
      <4>2. v.pc = "read" => w.todo = {}
        BY <3>1 DEF ListInv
      <4>3. QED
        BY <1>0, <2>0, <3>1, <3>2, <4>1, <4>2, NotesOptOut
    <3>3. QED
      BY <1>0, <2>0, <3>1, <3>2, ListShrinks
  <2>2. CASE Leaves(w, v) \/ StartPull(s)
    <3>1. StartPull(s) => w.claim = NoDigest
      BY <1>0 DEF StartPull, TypeOK, IdleSweep
    <3>2. Leaves(w, v) => w.claim = NoDigest
      BY DEF Leaves, OutOfBatch
    <3>3. QED
      BY <1>1, <2>2, <3>1, <3>2 DEF InBatch
  <2>3. CASE \E d \in Digests : Claim(s, d)
    <3>1. w.todo = {}
      BY <1>0, <2>3 DEF Claim, TypeOK, IdleSweep
    <3>2. QED
      BY <3>1 DEF ListOK
  <2>4. CASE Reads(w, v)
    <3>1. subs' = subs /\ w.claim = v.claim /\ w.todo = ActiveRecipients(v.claim)
      BY <2>4 DEF Reads
    <3>2. QED
      BY <3>1 DEF ListOK, ActiveRecipients
  <2>5. QED
    BY <1>0, <2>1, <2>2, <2>3, <2>4, SweepMoves
<1>2. ASSUME NEW s \in Sweepers, sweep'[s].pc = "read" PROVE sweep'[s].todo = {}
  <2>1. CASE \E d \in Digests : Claim(s, d)
    BY <1>0, <2>1 DEF Claim, TypeOK, IdleSweep
  <2>2. CASE StartPull(s)
    BY <1>0, <1>2, <2>2 DEF StartPull, TypeOK
  <2>3. QED
    BY <1>0, <1>2, <2>1, <2>2, SweepMoves
       DEF Rests, SameBatch, Leaves, OutOfBatch, Reads, Judges, Sends, ListInv
<1>3. ASSUME NEW o \in Operators, manual'[o].digest # NoDigest
      PROVE  ListOK(manual'[o], manual'[o].digest, subs')
  <2> DEFINE v == manual[o]
             w == manual'[o]
  <2>0. v \in Manual /\ w \in Manual /\ v.todo \subseteq Users /\ w.digest \in Digests
    BY <1>0, <1>3 DEF TypeOK, Manual
  <2>1. CASE w.digest = v.digest /\ w.todo \subseteq v.todo /\ v.gone \subseteq w.gone
    <3>1. ListOK(v, w.digest, subs)
      BY <1>3, <2>1 DEF ListInv
    <3>2. \A u \in Users : LeaveList(w.digest, u) => u \in w.gone
      BY <1>0, <2>0, <2>1, NotesOptOut
    <3>3. QED
      BY <1>0, <2>0, <2>1, <3>1, <3>2, ListShrinks
  <2>2. CASE \E d \in Digests : w.digest = d /\ w.todo = ActiveRecipients(d) /\ subs' = subs
    BY <2>2 DEF ListOK, ActiveRecipients
  <2>3. QED
    BY <1>0, <1>3, <2>1, <2>2, ManualMoves
<1>4. QED
  BY <1>1, <1>2, <1>3 DEF ListInv

\* Nobody who opted out before a batch, or Send Now, read its list is on it.
THEOREM StaleListOnlyWithinBatchHolds == Spec => []StaleListOnlyWithinBatch
<1>1. Init => ListInv
  BY DEF Init, ListInv, InBatch, IdleSweep, IdleManual
<1>2. ListInv => StaleListOnlyWithinBatch
  BY DEF ListInv, ListOK, StaleListOnlyWithinBatch
<1>3. QED
  BY <1>1, <1>2, ListStep, PullCorrect, PTL DEF Spec

-----------------------------------------------------------------------------
(* The slowdown ladder *)

\* A batch that is to slow its digest, and has failed nobody, had a recipient:
\* one it has mailed, or one it still has to.
LadderInv == \A s \in Sweepers :
  LET w == sweep[s]
  IN  w.pc = "send" /\ w.target # w.cadence /\ ~w.failed => w.todo \cup w.mailed # {}

LEMMA LadderStep == ASSUME TypeOK, LadderInv, [Next]_vars PROVE LadderInv'
<1> SUFFICES ASSUME NEW s \in Sweepers, sweep'[s].pc = "send",
                    sweep'[s].target # sweep'[s].cadence, ~sweep'[s].failed
             PROVE  sweep'[s].todo \cup sweep'[s].mailed # {}
  BY DEF LadderInv
<1>1. CASE Rests(sweep'[s], sweep[s])
  BY <1>1 DEF Rests, SameBatch, LadderInv
<1>2. CASE Judges(sweep'[s], sweep[s])
  BY <1>2 DEF Judges
<1>3. CASE Sends(sweep'[s], sweep[s])
  BY <1>3 DEF Sends, LadderInv
<1>4. ~StartPull(s)
  <2>1. DOMAIN sweep = Sweepers
    BY DEF TypeOK
  <2>2. StartPull(s) => sweep'[s].pc = "claim"
    BY <2>1 DEF StartPull, IdleSweep
  <2>3. QED
    BY <2>2
<1>5. ASSUME NEW d \in Digests, Claim(s, d) PROVE FALSE
  <2>1. sweep'[s].pc = "read"
    BY <1>5 DEF Claim, TypeOK, IdleSweep
  <2>2. QED
    BY <2>1
<1>6. ~Leaves(sweep'[s], sweep[s]) /\ ~Reads(sweep'[s], sweep[s])
  BY DEF Leaves, OutOfBatch, Reads
<1>7. QED
  BY <1>1, <1>2, <1>3, <1>4, <1>5, <1>6, SweepMoves

LEMMA LadderAlways == Spec => []LadderInv
<1>1. Init => LadderInv
  BY DEF Init, LadderInv, IdleSweep
<1>2. QED
  BY <1>1, LadderStep, TypeCorrect, PTL DEF Spec

\* What DegradeOnlyAfterFullSend says of digest d in one step.
Degrades(d) ==
  LET w == sweep[lock[d]]
  IN  /\ row'[d].periodicity = NextRung(row[d].periodicity)
      /\ row'[d].nextRun = Advance(row'[d].periodicity, w.now)
      /\ ~w.failed
      /\ w.mailed # {}

\* Only the settling of its batch moves a locked row, and it slows the digest
\* only when everybody was mailed.
LEMMA SettleDegrades ==
  ASSUME PullInv, LadderInv, NEW s \in Sweepers, ReadyToSettle(s), Holds(s),
         row' = [row EXCEPT ![sweep[s].claim] = SettledRow(s)],
         NEW d \in Digests, lock[d] # Unlocked, row'[d].periodicity # row[d].periodicity
  PROVE  Degrades(d)
<1> DEFINE w == sweep[s]
<1>0. /\ w \in Sweep /\ w.claim \in Digests /\ row \in [Digests -> Row] /\ SweeperOK(s)
      /\ w.failed \in BOOLEAN
  BY DEF PullInv, TypeOK, Holds, InBatch, Sweep
<1>1. d = w.claim /\ lock[d] = s
  BY <1>0 DEF Holds
<1>2. row'[d] = SettledRow(s) /\ row[d].periodicity = w.cadence /\ row[d] \in Row
  BY <1>0, <1>1 DEF SweeperOK
<1>3. ~w.failed
  <2> SUFFICES ASSUME w.failed PROVE FALSE
    OBVIOUS
  <2>1. row'[d] = [row[d] EXCEPT !.nextRun = w.now + 1]
    BY <1>1, <1>2 DEF SettledRow
  <2>2. row'[d].periodicity = row[d].periodicity
    BY <1>2, <2>1 DEF Row
  <2>3. QED
    BY <2>2
<1>4. row'[d] = [row[d] EXCEPT !.periodicity = w.target, !.nextRun = Advance(w.target, w.now)]
  BY <1>1, <1>2, <1>3 DEF SettledRow
<1>5. row'[d].periodicity = w.target /\ row'[d].nextRun = Advance(w.target, w.now)
  BY <1>2, <1>4 DEF Row
<1>6. w.target # w.cadence /\ w.target = NextRung(w.cadence)
  BY <1>0, <1>2, <1>5 DEF SweeperOK
<1>7. w.mailed # {}
  BY <1>3, <1>6 DEF ReadyToSettle, LadderInv
<1>8. QED
  BY <1>1, <1>2, <1>3, <1>5, <1>6, <1>7 DEF Degrades

LEMMA DegradeStep ==
  ASSUME PullInv, LadderInv, [Next]_vars,
         NEW d \in Digests, lock[d] # Unlocked, row'[d].periodicity # row[d].periodicity
  PROVE  Degrades(d)
<1>0. row \in [Digests -> Row]
  BY DEF PullInv, TypeOK
<1>1. row[d].state # "absent"
  <2>1. lock[d] \in Sweepers /\ sweep[lock[d]].claim = d
    BY DEF PullInv, TypeOK, LockOwned
  <2>2. Holds(lock[d]) /\ SweeperOK(lock[d])
    BY <2>1, NullsAreFresh DEF Holds, InBatch, PullInv
  <2>3. QED
    BY <2>1, <2>2 DEF SweeperOK, Due
<1>2. ASSUME NEW s \in Sweepers, StartPull(s) \/ PullStep(s) \/ SweepFault(s) PROVE Degrades(d)
  <2>1. CASE Settle(s) \/ CommitUnacknowledged(s)
    <3>1. ReadyToSettle(s) /\ Holds(s) /\ row' = [row EXCEPT ![sweep[s].claim] = SettledRow(s)]
      BY <2>1, Zenon DEF Settle, CommitUnacknowledged
    <3>2. QED
      BY <3>1, SettleDegrades
  <2>2. CASE ~(Settle(s) \/ CommitUnacknowledged(s))
    <3>1. row' = row
      BY <1>2, <2>2 DEF StartPull, PullStep, Claim, Drain, ReadRecipients, JudgeSlowdown,
         SendToRecipient, IsolateBatch, NoticeLostConnection, SweepFault, Die,
         LoseConnection, dbVars
    <3>2. QED
      BY <3>1
  <2>3. QED
    BY <2>1, <2>2
<1>3. ASSUME NEW e \in Digests, Verb(e) PROVE FALSE
  <2>1. e # d \/ row' = row
    BY <1>1, <1>3 DEF Verb, CreateDigest, SetPeriodicity, SetState, SubscribeNew,
       SubscribeAgain, PurgeSubscription, LeaveList
  <2>2. e # d => row'[d] = row[d]
    BY <1>0, <1>3 DEF Verb, CreateDigest, SetPeriodicity, SetState, SubscribeNew,
       SubscribeAgain, PurgeSubscription, LeaveList
  <2>3. QED
    BY <2>1, <2>2
<1>4. CASE \/ UNCHANGED vars \/ NextDay
           \/ \E o \in Operators : ManualStep(o) \/ \E e \in Digests : SendNow(o, e)
  <2>1. row' = row
    BY <1>4 DEF vars, NextDay, ManualStep, SendNow, SendNowToRecipient, SendNowDone, dbVars
  <2>2. QED
    BY <2>1
<1>5. QED
  BY <1>2, <1>3, <1>4 DEF Next

\* A sweep slows a digest by exactly one rung, together with its due date, and
\* only after a batch that mailed somebody and failed nobody.
THEOREM DegradeOnlyAfterFullSendHolds == Spec => DegradeOnlyAfterFullSend
<1> DEFINE Ladder == \A d \in Digests :
             (lock[d] # Unlocked /\ row'[d].periodicity # row[d].periodicity) => Degrades(d)
<1>1. PullInv /\ LadderInv /\ [Next]_vars => [Ladder]_vars
  BY DegradeStep
<1>2. Spec => [][Ladder]_vars
  BY <1>1, PullCorrect, LadderAlways, PTL DEF Spec
<1>3. QED
  BY <1>2 DEF Degrades, DegradeOnlyAfterFullSend
=============================================================================
