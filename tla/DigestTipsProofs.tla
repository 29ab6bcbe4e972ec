-------------------------- MODULE DigestTipsProofs --------------------------
(* The carousel keeps its order and its memory, and no marker outlives its    *)
(* tip, for any people, tips, groups, senders and edits.                      *)
EXTENDS DigestTips, TLAPS

USE DEF Gates, Row, Read, Job, Markers

\* Consumption a send recorded, and nobody touched since, is a live marker.
SettledMarked == \A u \in Users : \A t \in settled[u] : marker[u][t] = "live"

\* A send in flight has a reader; while it waits for the groups, the tips that
\* were open all along are among the rows it read, as they are now; and no row
\* it may pick was consumed when it began.
Ordered(j) ==
  /\ job[j].pc # "idle" => job[j].user \in Users
  /\ job[j].pc = "groups" =>
       \A t \in job[j].steady : /\ AsRead(t) \in job[j].rows
                                /\ tip[t].gate \in holds[job[j].user] \cup {NoGate}
  /\ job[j].pc = "enqueue" =>
       \A t \in job[j].steady : job[j].pick # NoTip /\ ~Precedes(AsRead(t), job[j].pick)

Fresh(j) ==
  /\ job[j].pc = "groups" => \A r \in job[j].rows : r.id \notin job[j].past
  /\ job[j].pick # NoTip => job[j].pick.id \notin job[j].past
  /\ job[j].pc = "mark" => job[j].pick # NoTip

TipsInv == TypeOK /\ SettledMarked /\ \A j \in Senders : Ordered(j) /\ Fresh(j)

-----------------------------------------------------------------------------

LEMMA IdleTyped == Idle \in Job
BY DEF Idle

LEMMA NoTipUnread == NoTip \notin Read
BY TipsNulls

\* Taking a tip out of what is steady keeps everything else of a send.
LEMMA DisturbKeeps ==
  ASSUME NEW jobs \in [Senders -> Job], NEW us, NEW ts
  PROVE  /\ Disturb(jobs, us, ts) \in [Senders -> Job]
         /\ \A j \in Senders :
              LET new == Disturb(jobs, us, ts)[j]
              IN  /\ new.pc = jobs[j].pc /\ new.user = jobs[j].user /\ new.rows = jobs[j].rows
                  /\ new.pick = jobs[j].pick /\ new.past = jobs[j].past
                  /\ new.steady \subseteq jobs[j].steady
                  /\ jobs[j].user \in us => new.steady \cap ts = {}
BY DEF Disturb

LEMMA InitInv == Init => TipsInv
<1> SUFFICES ASSUME Init PROVE TipsInv
  OBVIOUS
<1> USE TipsNat, IdleTyped DEF Init
<1>1. TypeOK
  BY DEF TypeOK, Exists
<1>2. SettledMarked
  BY DEF SettledMarked
<1>3. ASSUME NEW j \in Senders PROVE Ordered(j) /\ Fresh(j)
  BY DEF Ordered, Fresh, Idle
<1>4. QED
  BY <1>1, <1>2, <1>3 DEF TipsInv

-----------------------------------------------------------------------------
(* A send *)

\* A step of one sender that writes no table leaves the other senders alone.
LEMMA OneSender ==
  ASSUME TipsInv, NEW j \in Senders, NEW new \in Job,
         job' = [job EXCEPT ![j] = new], faults' \in 0 .. MaxFaults,
         UNCHANGED <<tip, marker, holds, edits, settled>>,
         (Ordered(j) /\ Fresh(j))'
  PROVE  TipsInv'
<1> USE DEF TipsInv
<1>1. TypeOK'
  BY DEF TypeOK, Exists
<1>2. SettledMarked'
  BY DEF SettledMarked
<1>3. ASSUME NEW i \in Senders, i # j PROVE (Ordered(i) /\ Fresh(i))'
  <2>1. job'[i] = job[i]
    BY <1>3 DEF TypeOK
  <2>2. QED
    BY <1>3, <2>1 DEF Ordered, Fresh, AsRead, Precedes
<1>4. QED
  BY <1>1, <1>2, <1>3

LEMMA ReadRowsInv ==
  ASSUME TipsInv, NEW j \in Senders, NEW u \in Users, ReadRows(j, u)
  PROVE  TipsInv'
<1> DEFINE rows == {AsRead(t) : t \in Unconsumed(u)}
           open == {t \in Unconsumed(u) : tip[t].gate \in holds[u] \cup {NoGate}}
           new  == [Idle EXCEPT !.pc = "groups", !.user = u, !.past = settled[u],
                      !.rows = rows, !.steady = open]
<1>1. rows \in SUBSET Read /\ open \in SUBSET Tips /\ settled[u] \in SUBSET Tips
  BY DEF TipsInv, TypeOK, Unconsumed, AsRead
<1>2. /\ new \in Job /\ new.pc = "groups" /\ new.user = u /\ new.rows = rows
      /\ new.pick = NoTip /\ new.past = settled[u] /\ new.steady = open
  <2> HIDE DEF rows, open
  <2>1. QED
    BY <1>1 DEF Idle
<1>3. job' = [job EXCEPT ![j] = new]
  BY DEF ReadRows
<1> HIDE DEF new
<1>4. job'[j] = new
  BY <1>3 DEF TipsInv, TypeOK
<1>5. UNCHANGED <<tip, marker, holds, edits, settled>> /\ faults' \in 0 .. MaxFaults
  BY DEF ReadRows, TipsInv, TypeOK
<1>6. Ordered(j)'
  BY <1>2, <1>4, <1>5 DEF Ordered, AsRead
<1>7. Fresh(j)'
  <2>1. \A r \in rows : r.id \notin settled[u]
    BY DEF TipsInv, SettledMarked, Unconsumed, AsRead
  <2>2. QED
    BY <1>2, <1>4, <2>1 DEF Fresh
<1>8. QED
  BY <1>2, <1>3, <1>5, <1>6, <1>7, OneSender

\* What both ways of asking for the groups pick: a row it read, and none later
\* than one that was open all along.
LEMMA PickInOrder ==
  ASSUME TipsInv, NEW j \in Senders, NEW keys, NEW r \in job[j].rows \cup {NoTip},
         Pick(j, keys, r)
  PROVE  /\ r # NoTip => r \in job[j].rows
         /\ \A t \in job[j].steady :
              tip[t].gate \in keys \cup {NoGate} => r # NoTip /\ ~Precedes(AsRead(t), r)
<1>1. job[j].rows \subseteq Read /\ job[j].pc = "groups"
  BY DEF TipsInv, TypeOK, Pick
<1>2. ASSUME NEW t \in job[j].steady, tip[t].gate \in keys \cup {NoGate}
      PROVE  r # NoTip /\ ~Precedes(AsRead(t), r)
  <2>1. AsRead(t) \in Open(job[j].rows, keys)
    BY <1>1, <1>2 DEF TipsInv, Ordered, Open, AsRead
  <2>2. FirstOf(Open(job[j].rows, keys), r)
    BY <2>1 DEF Pick
  <2>3. QED
    BY <1>1, <2>1, <2>2, NoTipUnread DEF FirstOf, Open
<1>3. QED
  BY <1>2

\* A send that picked r under the keys it was given.
LEMMA PickedInv ==
  ASSUME TipsInv, NEW j \in Senders, NEW keys, NEW r \in job[j].rows \cup {NoTip}, NEW new,
         Pick(j, keys, r),
         job' = [job EXCEPT ![j] = new], new \in Job, new.pc = "enqueue",
         new.user = job[j].user, new.pick = r, new.past = job[j].past,
         new.steady \subseteq job[j].steady,
         \A t \in new.steady : tip[t].gate \in keys \cup {NoGate},
         UNCHANGED <<tip, marker, holds, edits, settled>>, faults' = faults \/ Fault
  PROVE  TipsInv'
<1>1. job'[j] = new /\ job[j].pc = "groups"
  BY DEF TipsInv, TypeOK, Pick
<1>2. faults' \in 0 .. MaxFaults
  <2>1. faults \in 0 .. MaxFaults
    BY DEF TipsInv, TypeOK
  <2>2. QED
    BY <2>1, TipsNat DEF Fault
<1>3. Ordered(j)'
  <2>1. \A t \in new.steady : new.pick # NoTip /\ ~Precedes(AsRead(t), new.pick)
    BY PickInOrder
  <2>2. job[j].user \in Users
    BY <1>1 DEF TipsInv, Ordered
  <2>3. QED
    BY <1>1, <2>1, <2>2 DEF Ordered, AsRead, Precedes
<1>4. Fresh(j)'
  <2>1. r # NoTip => r.id \notin job[j].past
    BY <1>1, PickInOrder DEF TipsInv, Fresh
  <2>2. QED
    BY <1>1, <2>1 DEF Fresh
<1>5. QED
  BY <1>2, <1>3, <1>4, OneSender

LEMMA AskGroupsInv ==
  ASSUME TipsInv, NEW j \in Senders, AskGroups(j)
  PROVE  TipsInv'
<1>1. job[j] \in Job /\ job \in [Senders -> Job]
  BY DEF TipsInv, TypeOK
<1>2. PICK r \in job[j].rows \cup {NoTip} :
        /\ Pick(j, holds[job[j].user], r)
        /\ job' = [job EXCEPT ![j].pc = "enqueue", ![j].pick = r, ![j].rows = {}]
  BY DEF AskGroups
<1> DEFINE new == [job[j] EXCEPT !.pc = "enqueue", !.pick = r, !.rows = {}]
<1>3. r \in Read \cup {NoTip}
  BY <1>1
<1>4. job' = [job EXCEPT ![j] = new]
  BY <1>2
<1>5. /\ new \in Job
      /\ new.pc = "enqueue" /\ new.user = job[j].user /\ new.pick = r
      /\ new.past = job[j].past /\ new.steady = job[j].steady
  BY <1>1, <1>3
<1>6. \A t \in job[j].steady : tip[t].gate \in holds[job[j].user] \cup {NoGate}
  BY <1>2 DEF Pick, TipsInv, Ordered
<1>7. UNCHANGED <<tip, marker, holds, edits, settled>> /\ faults' = faults
  BY DEF AskGroups
<1> HIDE DEF new
<1>8. QED
  BY <1>2, <1>4, <1>5, <1>6, <1>7, PickedInv

LEMMA AskGroupsFailsInv ==
  ASSUME TipsInv, NEW j \in Senders, AskGroupsFails(j)
  PROVE  TipsInv'
<1>1. job[j] \in Job /\ job \in [Senders -> Job]
  BY DEF TipsInv, TypeOK
<1>2. PICK r \in job[j].rows \cup {NoTip} :
        /\ Pick(j, {}, r)
        /\ job' = [job EXCEPT ![j].pc = "enqueue", ![j].pick = r, ![j].rows = {},
                     ![j].steady = {t \in @ : tip[t].gate = NoGate}]
  BY DEF AskGroupsFails
<1> DEFINE new == [job[j] EXCEPT !.pc = "enqueue", !.pick = r, !.rows = {},
                                 !.steady = {t \in @ : tip[t].gate = NoGate}]
<1>3. r \in Read \cup {NoTip}
  BY <1>1
<1>4. job' = [job EXCEPT ![j] = new]
  BY <1>2
<1>5. /\ new \in Job
      /\ new.pc = "enqueue" /\ new.user = job[j].user /\ new.pick = r
      /\ new.past = job[j].past
      /\ new.steady = {t \in job[j].steady : tip[t].gate = NoGate}
  BY <1>1, <1>3
<1>6. UNCHANGED <<tip, marker, holds, edits, settled>> /\ Fault
  BY DEF AskGroupsFails
<1> HIDE DEF new
<1>7. /\ new.steady \subseteq job[j].steady
      /\ \A t \in new.steady : tip[t].gate \in {} \cup {NoGate}
  BY <1>5
<1>8. QED
  BY <1>2, <1>4, <1>5, <1>6, <1>7, PickedInv

\* A send that gave up, or had nothing to mark, is over.
LEMMA OverInv ==
  ASSUME TipsInv, NEW j \in Senders, job' = [job EXCEPT ![j] = Idle],
         UNCHANGED <<tip, marker, holds, edits, settled>>, faults' = faults \/ Fault
  PROVE  TipsInv'
<1>1. faults' \in 0 .. MaxFaults
  <2>1. faults \in 0 .. MaxFaults
    BY DEF TipsInv, TypeOK
  <2>2. QED
    BY <2>1, TipsNat DEF Fault
<1>2. job'[j] = Idle
  BY DEF TipsInv, TypeOK
<1>3. (Ordered(j) /\ Fresh(j))'
  BY <1>2 DEF Ordered, Fresh, Idle
<1>4. QED
  BY <1>1, <1>3, OneSender, IdleTyped

LEMMA EnqueueInv ==
  ASSUME TipsInv, NEW j \in Senders, Enqueue(j)
  PROVE  TipsInv'
<1>1. job[j] \in Job /\ job \in [Senders -> Job] /\ job[j].pc = "enqueue"
  BY DEF TipsInv, TypeOK, Enqueue
<1>2. UNCHANGED <<tip, marker, holds, edits, faults, settled>>
  BY DEF Enqueue
<1>3. CASE job[j].pick = NoTip
  BY <1>2, <1>3, OverInv DEF Enqueue
<1>4. CASE job[j].pick # NoTip
  <2> DEFINE new == [Idle EXCEPT !.pc = "mark", !.user = job[j].user, !.pick = job[j].pick]
  <2>1. job' = [job EXCEPT ![j] = new]
    BY <1>4 DEF Enqueue
  <2>2. /\ new \in Job /\ new.pc = "mark" /\ new.user = job[j].user
        /\ new.pick = job[j].pick /\ new.past = {}
    BY <1>1 DEF Idle
  <2> HIDE DEF new
  <2>3. job'[j] = new
    BY <1>1, <2>1
  <2>4. (Ordered(j) /\ Fresh(j))'
    <3>1. job[j].user \in Users
      BY <1>1 DEF TipsInv, Ordered
    <3>2. QED
      BY <1>4, <2>2, <2>3, <3>1 DEF Ordered, Fresh
  <2>5. faults' \in 0 .. MaxFaults
    BY <1>2 DEF TipsInv, TypeOK
  <2>6. QED
    BY <1>2, <2>1, <2>2, <2>4, <2>5, OneSender
<1>5. QED
  BY <1>3, <1>4

-----------------------------------------------------------------------------
(* The tables *)

\* When tables are written, a send keeps its guarantees if it is over, or if it
\* is as before and what it still calls steady has not changed for its reader.
LEMMA SendersInv ==
  ASSUME TipsInv, NEW j \in Senders,
         \/ job'[j] = Idle
         \/ /\ job'[j].pc = job[j].pc /\ job'[j].user = job[j].user
            /\ job'[j].rows = job[j].rows /\ job'[j].pick = job[j].pick
            /\ job'[j].past = job[j].past /\ job'[j].steady \subseteq job[j].steady
            /\ \A t \in job'[j].steady :
                 job[j].user \in Users =>
                   /\ tip'[t].sequence = tip[t].sequence /\ tip'[t].gate = tip[t].gate
                   /\ holds'[job[j].user] = holds[job[j].user]
  PROVE  (Ordered(j) /\ Fresh(j))'
<1>1. CASE job'[j] = Idle
  BY <1>1 DEF Ordered, Fresh, Idle
<1>2. CASE job'[j] # Idle
  BY <1>2 DEF TipsInv, Ordered, Fresh, AsRead, Precedes
<1>3. QED
  BY <1>1, <1>2

LEMMA EditTyped ==
  ASSUME TipsInv, Edit PROVE edits' \in 0 .. MaxEdits
<1>1. edits \in 0 .. MaxEdits
  BY DEF TipsInv, TypeOK
<1>2. QED
  BY <1>1, TipsNat DEF Edit

\* Every write of a tip, with what its route does to the markers.
LEMMA WriteTipInv ==
  ASSUME TipsInv, NEW t \in Tips, NEW row \in Row, WriteTip(t, row),
         \/ row.state \in {"live", "trashed"} /\ UNCHANGED <<marker, settled>>
         \/ /\ marker' = [u \in Users |-> [marker[u] EXCEPT ![t] = "absent"]]
            /\ settled' = [u \in Users |-> settled[u] \ {t}]
  PROVE  TipsInv'
<1>1. job \in [Senders -> Job] /\ tip \in [Tips -> Row]
  BY DEF TipsInv, TypeOK
<1>2. tip' = [tip EXCEPT ![t] = row] /\ job' = Disturb(job, Users, {t})
      /\ UNCHANGED <<holds, faults>>
  BY DEF WriteTip
<1>3. TypeOK'
  <2>1. tip' \in [Tips -> Row] /\ job' \in [Senders -> Job]
    BY <1>1, <1>2, DisturbKeeps
  <2>2. edits' \in 0 .. MaxEdits
    BY EditTyped DEF WriteTip
  <2>3. /\ marker' \in [Users -> [Tips -> {"absent", "live", "trashed"}]]
        /\ settled' \in [Users -> SUBSET Tips]
    BY DEF TipsInv, TypeOK
  <2>4. \A u \in Users, s \in Tips : ~Exists(s)' => marker'[u][s] = "absent"
    <3> SUFFICES ASSUME NEW u \in Users, NEW s \in Tips, ~Exists(s)'
                 PROVE  marker'[u][s] = "absent"
      OBVIOUS
    <3>1. CASE s = t
      BY <1>1, <1>2, <3>1 DEF TipsInv, TypeOK, Exists
    <3>2. CASE s # t
      BY <1>1, <1>2, <3>2 DEF TipsInv, TypeOK, Exists
    <3>3. QED
      BY <3>1, <3>2
  <2>5. QED
    BY <1>2, <2>1, <2>2, <2>3, <2>4 DEF TipsInv, TypeOK
<1>4. SettledMarked'
  BY DEF TipsInv, TypeOK, SettledMarked
<1>5. ASSUME NEW j \in Senders PROVE (Ordered(j) /\ Fresh(j))'
  <2>1. /\ job'[j].pc = job[j].pc /\ job'[j].user = job[j].user
        /\ job'[j].rows = job[j].rows /\ job'[j].pick = job[j].pick
        /\ job'[j].past = job[j].past /\ job'[j].steady \subseteq job[j].steady
        /\ job[j].user \in Users => t \notin job'[j].steady
    BY <1>1, <1>2, DisturbKeeps
  <2>2. job[j].steady \subseteq Tips
    BY <1>1
  <2>3. \A s \in Tips \ {t} : tip'[s] = tip[s]
    BY <1>1, <1>2
  <2>4. QED
    BY <1>2, <2>1, <2>2, <2>3, SendersInv
<1>6. QED
  BY <1>3, <1>4, <1>5 DEF TipsInv

LEMMA TipRoutesInv ==
  ASSUME TipsInv, TipRoutes PROVE TipsInv'
<1>1. PICK t \in Tips :
        \/ \E n \in Sequences, g \in Gates :
             \/ CreateTip(t, n, g) \/ PutTip(t, n, g)
             \/ \E field \in {"sequence", "group_key"} : PatchTip(t, field, n, g)
        \/ TrashTip(t) \/ RestoreTip(t) \/ PurgeTip(t)
  BY DEF TipRoutes
<1>2. tip[t] \in Row
  BY DEF TipsInv, TypeOK
<1>3. ASSUME NEW n \in Sequences, NEW g \in Gates, CreateTip(t, n, g) PROVE TipsInv'
  <2> DEFINE row == NewTip(n, g)
  <2>1. row \in Row /\ row.state = "live"
    BY DEF NewTip
  <2>2. WriteTip(t, row) /\ UNCHANGED <<marker, settled>>
    BY <1>3 DEF CreateTip
  <2> HIDE DEF row
  <2>3. QED
    BY <2>1, <2>2, WriteTipInv
<1>4. ASSUME NEW n \in Sequences, NEW g \in Gates, PutTip(t, n, g) PROVE TipsInv'
  <2> DEFINE row == apply_update(t, n, g)
  <2>1. row \in Row /\ row.state = "live"
    BY <1>2, <1>4 DEF PutTip, apply_update
  <2>2. WriteTip(t, row) /\ UNCHANGED <<marker, settled>>
    BY <1>4 DEF PutTip
  <2> HIDE DEF row
  <2>3. QED
    BY <2>1, <2>2, WriteTipInv
<1>5. ASSUME NEW n \in Sequences, NEW g \in Gates, NEW field, PatchTip(t, field, n, g)
      PROVE  TipsInv'
  <2> DEFINE row == apply_patch(t, field, n, g)
  <2>1. row \in Row /\ row.state = "live"
    BY <1>2, <1>5 DEF PatchTip, apply_patch
  <2>2. WriteTip(t, row) /\ UNCHANGED <<marker, settled>>
    BY <1>5 DEF PatchTip
  <2> HIDE DEF row
  <2>3. QED
    BY <2>1, <2>2, WriteTipInv
<1>6. ASSUME TrashTip(t) \/ RestoreTip(t) PROVE TipsInv'
  <2>1. PICK state \in {"live", "trashed"} : WriteTip(t, [tip[t] EXCEPT !.state = state])
    BY <1>6 DEF TrashTip, RestoreTip
  <2> DEFINE row == [tip[t] EXCEPT !.state = state]
  <2>2. row \in Row /\ row.state \in {"live", "trashed"}
    BY <1>2
  <2>3. UNCHANGED <<marker, settled>>
    BY <1>6 DEF TrashTip, RestoreTip
  <2> HIDE DEF row
  <2>4. WriteTip(t, row)
    BY <2>1 DEF row
  <2>5. QED
    BY <2>2, <2>3, <2>4, WriteTipInv
<1>7. ASSUME PurgeTip(t) PROVE TipsInv'
  <2> DEFINE row == [tip[t] EXCEPT !.state = "purged"]
  <2>1. row \in Row
    BY <1>2
  <2>2. /\ WriteTip(t, row)
        /\ marker' = [u \in Users |-> [marker[u] EXCEPT ![t] = "absent"]]
        /\ settled' = [u \in Users |-> settled[u] \ {t}]
    BY <1>7 DEF PurgeTip
  <2> HIDE DEF row
  <2>3. QED
    BY <2>1, <2>2, WriteTipInv
<1>8. QED
  BY <1>1, <1>3, <1>4, <1>5, <1>6, <1>7

\* A step that leaves the tips and the groups alone, and only takes tips out
\* of what the sends call steady or ends them.
LEMMA MarkersInv ==
  ASSUME TipsInv, UNCHANGED <<tip, holds>>,
         job' \in [Senders -> Job], edits' \in 0 .. MaxEdits, faults' \in 0 .. MaxFaults,
         marker' \in [Users -> [Tips -> {"absent", "live", "trashed"}]],
         settled' \in [Users -> SUBSET Tips],
         \A u \in Users, t \in Tips : ~Exists(t) => marker'[u][t] = "absent",
         SettledMarked',
         \A j \in Senders :
           \/ job'[j] = Idle
           \/ /\ job'[j].pc = job[j].pc /\ job'[j].user = job[j].user
              /\ job'[j].rows = job[j].rows /\ job'[j].pick = job[j].pick
              /\ job'[j].past = job[j].past /\ job'[j].steady \subseteq job[j].steady
  PROVE  TipsInv'
<1>1. TypeOK'
  BY DEF TipsInv, TypeOK, Exists
<1>2. ASSUME NEW j \in Senders PROVE (Ordered(j) /\ Fresh(j))'
  BY SendersInv
<1>3. QED
  BY <1>1, <1>2 DEF TipsInv

LEMMA MarkInv ==
  ASSUME TipsInv, NEW j \in Senders, Mark(j) PROVE TipsInv'
<1> DEFINE u == job[j].user
           t == job[j].pick.id
           over == [job EXCEPT ![j] = Idle]
<1>1. /\ job \in [Senders -> Job] /\ settled \in [Users -> SUBSET Tips]
      /\ marker \in [Users -> [Tips -> {"absent", "live", "trashed"}]]
  BY DEF TipsInv, TypeOK
<1>2. u \in Users /\ t \in Tips /\ Exists(t)
  BY <1>1 DEF Mark, TipsInv, Ordered, Fresh
<1>3. /\ marker' = [marker EXCEPT ![u][t] = IF @ = "absent" THEN "live" ELSE @]
      /\ settled' = IF marker[u][t] = "trashed" THEN settled
                    ELSE [settled EXCEPT ![u] = @ \cup {t}]
      /\ job' = Disturb(over, {u}, {t})
      /\ UNCHANGED <<tip, holds, edits, faults>>
  BY DEF Mark
<1>4. over \in [Senders -> Job] /\ over[j] = Idle /\ \A i \in Senders \ {j} : over[i] = job[i]
  BY <1>1, IdleTyped
<1> HIDE DEF over, u, t
<1>5. job' \in [Senders -> Job]
  BY <1>3, <1>4, DisturbKeeps
<1>6. job'[j] = Idle
  <2>1. over[j].user \notin {u}
    BY <1>2, <1>4, TipsNulls DEF Idle
  <2>2. job'[j] = over[j]
    BY <1>3, <2>1 DEF Disturb
  <2>3. QED
    BY <1>4, <2>2
<1>7. \A i \in Senders \ {j} :
        /\ job'[i].pc = job[i].pc /\ job'[i].user = job[i].user
        /\ job'[i].rows = job[i].rows /\ job'[i].pick = job[i].pick
        /\ job'[i].past = job[i].past /\ job'[i].steady \subseteq job[i].steady
  BY <1>3, <1>4, DisturbKeeps
<1>8. /\ marker' \in [Users -> [Tips -> {"absent", "live", "trashed"}]]
      /\ settled' \in [Users -> SUBSET Tips]
  BY <1>1, <1>2, <1>3
<1>9. \A v \in Users, s \in Tips : ~Exists(s) => marker'[v][s] = "absent"
  BY <1>1, <1>2, <1>3 DEF TipsInv, TypeOK
<1>10. SettledMarked'
  <2> SUFFICES ASSUME NEW v \in Users, NEW s \in settled'[v] PROVE marker'[v][s] = "live"
    BY DEF SettledMarked
  <2>1. CASE v = u /\ s = t
    <3>1. marker[u][t] # "trashed"
      BY <1>1, <1>2, <1>3, <2>1 DEF TipsInv, SettledMarked
    <3>2. QED
      BY <1>1, <1>2, <1>3, <2>1, <3>1
  <2>2. CASE ~(v = u /\ s = t)
    <3>1. s \in settled[v]
      BY <1>1, <1>2, <1>3, <2>2
    <3>2. QED
      BY <1>1, <1>2, <1>3, <2>2, <3>1 DEF TipsInv, SettledMarked
  <2>3. QED
    BY <2>1, <2>2
<1>11. QED
  BY <1>3, <1>5, <1>6, <1>7, <1>8, <1>9, <1>10, MarkersInv DEF TipsInv, TypeOK

LEMMA MarkFailsInv ==
  ASSUME TipsInv, NEW j \in Senders, MarkFails(j) \/ EnqueueFails(j) PROVE TipsInv'
BY OverInv DEF MarkFails, EnqueueFails

LEMMA WriteMarkerInv ==
  ASSUME TipsInv, NEW u \in Users, NEW t \in Tips, Exists(t),
         NEW state \in {"absent", "live", "trashed"}, WriteMarker(u, t, state)
  PROVE  TipsInv'
<1>1. /\ job \in [Senders -> Job] /\ settled \in [Users -> SUBSET Tips]
      /\ marker \in [Users -> [Tips -> {"absent", "live", "trashed"}]]
  BY DEF TipsInv, TypeOK
<1>2. /\ marker' = [marker EXCEPT ![u][t] = state]
      /\ settled' = [settled EXCEPT ![u] = @ \ {t}]
      /\ job' = Disturb(job, {u}, {t})
      /\ UNCHANGED <<tip, holds, faults>>
  BY DEF WriteMarker
<1>3. edits' \in 0 .. MaxEdits
  BY EditTyped DEF WriteMarker
<1>4. \A v \in Users, s \in Tips : ~Exists(s) => marker'[v][s] = "absent"
  BY <1>1, <1>2 DEF TipsInv, TypeOK
<1>5. SettledMarked'
  BY <1>1, <1>2 DEF TipsInv, SettledMarked
<1>6. job' \in [Senders -> Job] /\
      \A j \in Senders :
        /\ job'[j].pc = job[j].pc /\ job'[j].user = job[j].user
        /\ job'[j].rows = job[j].rows /\ job'[j].pick = job[j].pick
        /\ job'[j].past = job[j].past /\ job'[j].steady \subseteq job[j].steady
  BY <1>1, <1>2, DisturbKeeps
<1>7. /\ marker' \in [Users -> [Tips -> {"absent", "live", "trashed"}]]
      /\ settled' \in [Users -> SUBSET Tips]
  BY <1>1, <1>2
<1>8. QED
  BY <1>2, <1>3, <1>4, <1>5, <1>6, <1>7, MarkersInv DEF TipsInv, TypeOK

LEMMA MoveMarkerInv ==
  ASSUME TipsInv, NEW u \in Users, NEW t \in Tips, NEW v \in Users, NEW s \in Tips,
         MoveMarker(u, t, v, s)
  PROVE  TipsInv'
<1> DEFINE once == Disturb(job, {u}, {t})
<1>1. /\ job \in [Senders -> Job] /\ settled \in [Users -> SUBSET Tips]
      /\ marker \in [Users -> [Tips -> {"absent", "live", "trashed"}]]
  BY DEF TipsInv, TypeOK
<1>2. /\ marker[u][t] = "live" /\ marker[v][s] = "absent" /\ Exists(s)
      /\ marker' = [marker EXCEPT ![u][t] = "absent", ![v][s] = "live"]
      /\ settled' = [settled EXCEPT ![u] = @ \ {t}]
      /\ job' = Disturb(once, {v}, {s})
      /\ UNCHANGED <<tip, holds, faults>>
  BY DEF MoveMarker, Renamed
<1>3. edits' \in 0 .. MaxEdits
  BY EditTyped DEF MoveMarker
<1>4. \A w \in Users, r \in Tips : ~Exists(r) => marker'[w][r] = "absent"
  BY <1>1, <1>2 DEF TipsInv, TypeOK
<1>5. SettledMarked'
  BY <1>1, <1>2 DEF TipsInv, SettledMarked
<1>6. job' \in [Senders -> Job] /\
      \A j \in Senders :
        /\ job'[j].pc = job[j].pc /\ job'[j].user = job[j].user
        /\ job'[j].rows = job[j].rows /\ job'[j].pick = job[j].pick
        /\ job'[j].past = job[j].past /\ job'[j].steady \subseteq job[j].steady
  <2>1. once \in [Senders -> Job] /\
        \A j \in Senders :
          /\ once[j].pc = job[j].pc /\ once[j].user = job[j].user
          /\ once[j].rows = job[j].rows /\ once[j].pick = job[j].pick
          /\ once[j].past = job[j].past /\ once[j].steady \subseteq job[j].steady
    BY <1>1, DisturbKeeps
  <2> HIDE DEF once
  <2>2. QED
    BY <1>2, <2>1, DisturbKeeps
<1>7. /\ marker' \in [Users -> [Tips -> {"absent", "live", "trashed"}]]
      /\ settled' \in [Users -> SUBSET Tips]
  BY <1>1, <1>2
<1> HIDE DEF once
<1>8. QED
  BY <1>2, <1>3, <1>4, <1>5, <1>6, <1>7, MarkersInv DEF TipsInv, TypeOK

LEMMA MarkerRoutesInv ==
  ASSUME TipsInv, MarkerRoutes PROVE TipsInv'
<1>1. PICK u \in Users, t \in Tips :
        \/ CreateMarker(u, t) \/ TrashMarker(u, t) \/ RestoreMarker(u, t) \/ PurgeMarker(u, t)
        \/ \E v \in Users, s \in Tips : MoveMarker(u, t, v, s)
  BY DEF MarkerRoutes
<1>2. marker[u][t] # "absent" => Exists(t)
  BY DEF TipsInv, TypeOK
<1>3. ASSUME CreateMarker(u, t) \/ TrashMarker(u, t) \/ RestoreMarker(u, t) \/ PurgeMarker(u, t)
      PROVE  TipsInv'
  <2>1. Exists(t) /\ \E state \in {"absent", "live", "trashed"} : WriteMarker(u, t, state)
    BY <1>2, <1>3 DEF CreateMarker, TrashMarker, RestoreMarker, PurgeMarker
  <2>2. QED
    BY <2>1, WriteMarkerInv
<1>4. QED
  BY <1>1, <1>3, MoveMarkerInv

LEMMA SetGroupsInv ==
  ASSUME TipsInv, NEW u \in Users, NEW groups \in SUBSET Groups, SetGroups(u, groups)
  PROVE  TipsInv'
<1>1. job \in [Senders -> Job] /\ holds \in [Users -> SUBSET Groups]
  BY DEF TipsInv, TypeOK
<1>2. /\ holds' = [holds EXCEPT ![u] = groups] /\ job' = Disturb(job, {u}, Tips)
      /\ UNCHANGED <<tip, marker, faults, settled>>
  BY DEF SetGroups
<1>3. TypeOK'
  <2>1. holds' \in [Users -> SUBSET Groups] /\ job' \in [Senders -> Job]
    BY <1>1, <1>2, DisturbKeeps
  <2>2. edits' \in 0 .. MaxEdits
    BY EditTyped DEF SetGroups
  <2>3. QED
    BY <1>2, <2>1, <2>2 DEF TipsInv, TypeOK, Exists
<1>4. SettledMarked'
  BY <1>2 DEF TipsInv, SettledMarked
<1>5. ASSUME NEW j \in Senders PROVE (Ordered(j) /\ Fresh(j))'
  <2>1. /\ job'[j].pc = job[j].pc /\ job'[j].user = job[j].user
        /\ job'[j].rows = job[j].rows /\ job'[j].pick = job[j].pick
        /\ job'[j].past = job[j].past /\ job'[j].steady \subseteq job[j].steady
    BY <1>1, <1>2, DisturbKeeps
  <2>2. job[j].user = u => job'[j].steady = {}
    BY <1>1, <1>2 DEF Disturb
  <2>3. job[j].user \in Users /\ job[j].user # u => holds'[job[j].user] = holds[job[j].user]
    BY <1>1, <1>2
  <2>4. QED
    BY <1>2, <2>1, <2>2, <2>3, SendersInv
<1>6. QED
  BY <1>3, <1>4, <1>5 DEF TipsInv

-----------------------------------------------------------------------------
(* The theorems *)

LEMMA Inductive == TipsInv /\ [Next]_vars => TipsInv'
<1> SUFFICES ASSUME TipsInv, [Next]_vars PROVE TipsInv'
  OBVIOUS
<1>1. ASSUME NEW j \in Senders, Sending(j) PROVE TipsInv'
  BY <1>1, ReadRowsInv, AskGroupsInv, AskGroupsFailsInv, EnqueueInv, MarkInv, MarkFailsInv
  DEF Sending
<1>2. CASE UNCHANGED vars
  BY <1>2 DEF vars, TipsInv, TypeOK, Exists, SettledMarked, Ordered, Fresh, AsRead, Precedes
<1>3. QED
  BY <1>1, <1>2, TipRoutesInv, MarkerRoutesInv, SetGroupsInv DEF Next

LEMMA Always == Spec => []TipsInv
BY InitInv, Inductive, PTL DEF Spec

\* The types hold, and no marker outlives its tip: the cascade of the foreign
\* key, and Mark's failure when the tip it would name is gone.
THEOREM MarkersHaveTips == Spec => []TypeOK
<1>1. TipsInv => TypeOK
  BY DEF TipsInv
<1>2. QED
  BY <1>1, Always, PTL

\* pick_tip never passes over, for a later one, a tip that stood open to the
\* reader from the read of the rows to the answer of the port.
THEOREM CarouselInOrder == Spec => []InOrder
<1>1. TipsInv => InOrder
  BY DEF TipsInv, Ordered, InOrder
<1>2. QED
  BY <1>1, Always, PTL

\* pick_tip never picks again a tip whose consumption was on record, and not
\* touched since, when it read the rows.
THEOREM ConsumedNotAgain == Spec => []NotAgain
<1>1. TipsInv => NotAgain
  BY DEF TipsInv, Fresh, NotAgain
<1>2. QED
  BY <1>1, Always, PTL
=============================================================================
