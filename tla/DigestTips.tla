----------------------------- MODULE DigestTips -----------------------------
(***************************************************************************)
(* The tip carousel and the people who run it.  Each mail carries the      *)
(* first tip, in order of sequence and id, that its reader has no live     *)
(* consumption marker for and whose group key the reader holds; the marker *)
(* is written after the mail is queued.  Meanwhile the generated routes    *)
(* create, rewrite, reorder, gate, trash, restore and purge tips, and do   *)
(* the same to the markers.  DigestDeliver has the rest of a send.         *)
(***************************************************************************)
EXTENDS Integers

CONSTANTS
  Users,
  Tips,        \* the ids, in the order ORDER BY gives them
  Groups,      \* group keys
  Sequences,   \* values administrators give to digest_tips.sequence
  Senders,     \* sends that can be in flight
  MaxEdits,    \* BOUND: writes by administrators, and changes of groups
  MaxFaults,   \* BOUND: failures of the port, the queue and the marker
  NoUser, NoTip, NoGate

ASSUME TipsNat   == Tips \subseteq Nat /\ Sequences \subseteq Int
                    /\ MaxEdits \in Nat /\ MaxFaults \in Nat
ASSUME TipsNulls == NoUser \notin Users /\ NoGate \notin Groups
                    /\ NoTip \notin [id : Tips, sequence : Sequences, gate : Groups \cup {NoGate}]

VARIABLES
  tip,      \* digest_tips
  marker,   \* digest_tip_users, per user and tip
  holds,    \* the group keys the host's source gives for each person
  job,      \* the local state of each send
  edits, faults,
  settled   \* history: consumption recorded by a send, untouched since

vars == <<tip, marker, holds, job, edits, faults, settled>>

Gates     == Groups \cup {NoGate}     \* an empty group_key gates nothing, like NULL
Row       == [state : {"absent", "live", "trashed", "purged"},    \* an id is not used twice
              sequence : Sequences, gate : Gates]
Markers   == {"absent", "live", "trashed"}
Read      == [id : Tips, sequence : Sequences, gate : Gates]   \* as pick_tip reads it

Job == [pc     : {"idle", "groups", "enqueue", "mark"},
        user   : Users \cup {NoUser},
        rows   : SUBSET Read,
        pick   : Read \cup {NoTip},
        past   : SUBSET Tips,    \* history: settled when the send began
        steady : SUBSET Tips]    \* history: eligible all along since then

Idle == [pc |-> "idle", user |-> NoUser, rows |-> {}, pick |-> NoTip,
         past |-> {}, steady |-> {}]

Exists(t) == tip[t].state \in {"live", "trashed"}

\* The types, and the foreign key: no marker outlives its tip.
TypeOK ==
  /\ tip \in [Tips -> Row]
  /\ marker \in [Users -> [Tips -> Markers]]
  /\ holds \in [Users -> SUBSET Groups]
  /\ job \in [Senders -> Job]
  /\ edits \in 0 .. MaxEdits /\ faults \in 0 .. MaxFaults
  /\ settled \in [Users -> SUBSET Tips]
  /\ \A u \in Users, t \in Tips : ~Exists(t) => marker[u][t] = "absent"

-----------------------------------------------------------------------------
(* A send *)

AsRead(t) == [id |-> t, sequence |-> tip[t].sequence, gate |-> tip[t].gate]

\* ORDER BY sequence, id.
Precedes(q, r) == \/ q.sequence < r.sequence
                  \/ q.sequence = r.sequence /\ q.id < r.id

\* Live, and with no live marker for u.
Unconsumed(u) == {t \in Tips : tip[t].state = "live" /\ marker[u][t] # "live"}

\* Variant: the walk ends at the first tip whose gate is closed.
OpenUntilGate(rows, keys) ==
  {r \in rows : \A q \in rows : ~Precedes(r, q) => q.gate \in keys \cup {NoGate}}

\* The walk skips a tip whose gate is closed, and goes on.
Open(rows, keys) == {r \in rows : r.gate \in keys \cup {NoGate}}

ReadRows(j, u) ==
  /\ job[j].pc = "idle"
  /\ job' = [job EXCEPT ![j] =
               [Idle EXCEPT !.pc = "groups", !.user = u, !.past = settled[u],
                  !.rows   = {AsRead(t) : t \in Unconsumed(u)},
                  !.steady = {t \in Unconsumed(u) : tip[t].gate \in holds[u] \cup {NoGate}}]]
  /\ UNCHANGED <<tip, marker, holds, edits, faults, settled>>

\* Variant: the tips come in the order they were created.
FirstById(S, r) == r \in S /\ \A q \in S : q.id >= r.id

FirstOf(S, r) == r \in S /\ \A q \in S : ~Precedes(q, r)

\* The first of the open rows; nothing when there is none.
Pick(j, keys, r) ==
  LET open == Open(job[j].rows, keys)
  IN  /\ job[j].pc = "groups"
      /\ IF open = {} THEN r = NoTip ELSE FirstOf(open, r)

AskGroups(j) ==
  /\ \E r \in job[j].rows \cup {NoTip} :
       /\ Pick(j, holds[job[j].user], r)
       /\ job' = [job EXCEPT ![j].pc = "enqueue", ![j].pick = r, ![j].rows = {}]
  /\ UNCHANGED <<tip, marker, holds, edits, faults, settled>>

Fault == faults < MaxFaults /\ faults' = faults + 1

\* The port does not answer: only tips without a gate are open.
AskGroupsFails(j) ==
  /\ Fault
  /\ \E r \in job[j].rows \cup {NoTip} :
       /\ Pick(j, {}, r)
       /\ job' = [job EXCEPT ![j].pc = "enqueue", ![j].pick = r, ![j].rows = {},
                    ![j].steady = {t \in @ : tip[t].gate = NoGate}]
  /\ UNCHANGED <<tip, marker, holds, edits, settled>>

Enqueue(j) ==
  /\ job[j].pc = "enqueue"
  /\ job' = [job EXCEPT ![j] =
               IF job[j].pick = NoTip THEN Idle
               ELSE [Idle EXCEPT !.pc = "mark", !.user = job[j].user, !.pick = job[j].pick]]
  /\ UNCHANGED <<tip, marker, holds, edits, faults, settled>>

EnqueueFails(j) ==
  /\ Fault
  /\ job[j].pc = "enqueue"
  /\ job' = [job EXCEPT ![j] = Idle]
  /\ UNCHANGED <<tip, marker, holds, edits, settled>>

\* The sends to us under way, once the tips ts have changed for them.
Disturb(jobs, us, ts) ==
  [j \in Senders |-> IF jobs[j].user \in us THEN [jobs[j] EXCEPT !.steady = @ \ ts] ELSE jobs[j]]

\* INSERT ... ON CONFLICT DO NOTHING: a trashed marker stays trashed.
Mark(j) ==
  LET u == job[j].user
      t == job[j].pick.id
  IN  /\ job[j].pc = "mark"
      /\ Exists(t)
      /\ marker' = [marker EXCEPT ![u][t] = IF @ = "absent" THEN "live" ELSE @]
      /\ settled' = IF marker[u][t] = "trashed" THEN settled
                    ELSE [settled EXCEPT ![u] = @ \cup {t}]
      /\ job' = Disturb([job EXCEPT ![j] = Idle], {u}, {t})
      /\ UNCHANGED <<tip, holds, edits, faults>>

\* The insert errs, by the foreign key when the tip was purged meanwhile; also an
\* enqueue that was applied but answered with an error, which ends the call here.
MarkFails(j) ==
  /\ job[j].pc = "mark"
  /\ IF Exists(job[j].pick.id) THEN Fault ELSE UNCHANGED faults
  /\ job' = [job EXCEPT ![j] = Idle]
  /\ UNCHANGED <<tip, marker, holds, edits, settled>>

-----------------------------------------------------------------------------
(* The routes of the tips *)

Edit == edits < MaxEdits /\ edits' = edits + 1

WriteTip(t, row) ==
  /\ Edit
  /\ tip' = [tip EXCEPT ![t] = row]
  /\ job' = Disturb(job, Users, {t})
  /\ UNCHANGED <<holds, faults>>

NewTip(sequence, gate) == [state |-> "live", sequence |-> sequence, gate |-> gate]

\* POST.  A tip without a sequence gets 1.
CreateTip(t, sequence, gate) ==
  /\ tip[t].state = "absent"
  /\ WriteTip(t, NewTip(sequence, gate))
  /\ UNCHANGED <<marker, settled>>

apply_update(t, sequence, gate) == [tip[t] EXCEPT !.sequence = sequence, !.gate = gate]

\* PUT replaces the row: a body without groupKey opens the gate.
PutTip(t, sequence, gate) ==
  /\ tip[t].state = "live"
  /\ WriteTip(t, apply_update(t, sequence, gate))
  /\ UNCHANGED <<marker, settled>>

apply_patch(t, field, sequence, gate) == IF field = "sequence"
                                         THEN [tip[t] EXCEPT !.sequence = sequence]
                                         ELSE [tip[t] EXCEPT !.gate = gate]

\* PATCH writes the fields it names; only an explicit null opens the gate.
PatchTip(t, field, sequence, gate) ==
  /\ tip[t].state = "live"
  /\ WriteTip(t, apply_patch(t, field, sequence, gate))
  /\ UNCHANGED <<marker, settled>>

\* Variant: the markers go to the trash, and out of it, with their tip.
TrashTipAndMarkers(t) ==
  /\ tip[t].state = "live"
  /\ WriteTip(t, [tip[t] EXCEPT !.state = "trashed"])
  /\ marker' = [u \in Users |-> [marker[u] EXCEPT ![t] = IF @ = "live" THEN "trashed" ELSE @]]
  /\ UNCHANGED settled

\* Soft deletion leaves the markers alone, so that a restored tip is still
\* consumed by who has seen it.
TrashTip(t) ==
  /\ tip[t].state = "live"
  /\ WriteTip(t, [tip[t] EXCEPT !.state = "trashed"])
  /\ UNCHANGED <<marker, settled>>

RestoreTip(t) ==
  /\ tip[t].state = "trashed"
  /\ WriteTip(t, [tip[t] EXCEPT !.state = "live"])
  /\ UNCHANGED <<marker, settled>>

\* Permanent deletion from the trash takes the markers with it.
PurgeTip(t) ==
  /\ tip[t].state = "trashed"
  /\ WriteTip(t, [tip[t] EXCEPT !.state = "purged"])
  /\ marker' = [u \in Users |-> [marker[u] EXCEPT ![t] = "absent"]]
  /\ settled' = [u \in Users |-> settled[u] \ {t}]

-----------------------------------------------------------------------------
(* The routes of the markers, and the host's groups *)

WriteMarker(u, t, state) ==
  /\ Edit
  /\ marker' = [marker EXCEPT ![u][t] = state]
  /\ settled' = [settled EXCEPT ![u] = @ \ {t}]
  /\ job' = Disturb(job, {u}, {t})
  /\ UNCHANGED <<tip, holds, faults>>

\* POST: the unique index counts trashed rows too.
CreateMarker(u, t) ==
  /\ marker[u][t] = "absent"
  /\ Exists(t)
  /\ WriteMarker(u, t, "live")

TrashMarker(u, t)   == marker[u][t] = "live" /\ WriteMarker(u, t, "trashed")
RestoreMarker(u, t) == marker[u][t] = "trashed" /\ WriteMarker(u, t, "live")
PurgeMarker(u, t)   == marker[u][t] = "trashed" /\ WriteMarker(u, t, "absent")

\* The marker as a body that names another person or tip leaves it.
Renamed(u, t, v, s) == [marker EXCEPT ![u][t] = "absent", ![v][s] = "live"]

\* PUT and PATCH may name another person or another tip.
MoveMarker(u, t, v, s) ==
  /\ marker[u][t] = "live"
  /\ marker[v][s] = "absent"
  /\ Exists(s)
  /\ Edit
  /\ marker' = Renamed(u, t, v, s)
  /\ settled' = [settled EXCEPT ![u] = @ \ {t}]
  /\ job' = Disturb(Disturb(job, {u}, {t}), {v}, {s})
  /\ UNCHANGED <<tip, holds, faults>>

\* The host's group source gives other keys from now on.
SetGroups(u, groups) ==
  /\ Edit
  /\ holds' = [holds EXCEPT ![u] = groups]
  /\ job' = Disturb(job, {u}, Tips)
  /\ UNCHANGED <<tip, marker, faults, settled>>

-----------------------------------------------------------------------------
\* A carousel some administrator left, and nobody mailed yet.
Init ==
  /\ tip \in [Tips -> {row \in Row : row.state = "live" \/ (row.state = "absent" /\ row.gate = NoGate)}]
  /\ marker = [u \in Users |-> [t \in Tips |-> "absent"]]
  /\ holds \in [Users -> SUBSET Groups]
  /\ job = [j \in Senders |-> Idle]
  /\ edits = 0 /\ faults = 0
  /\ settled = [u \in Users |-> {}]

Sending(j) == \/ \E u \in Users : ReadRows(j, u)
              \/ AskGroups(j) \/ AskGroupsFails(j) \/ Enqueue(j) \/ EnqueueFails(j)
              \/ Mark(j) \/ MarkFails(j)

TipRoutes ==
  \E t \in Tips :
    \/ \E n \in Sequences, g \in Gates :
         \/ CreateTip(t, n, g) \/ PutTip(t, n, g)
         \/ \E field \in {"sequence", "group_key"} : PatchTip(t, field, n, g)
    \/ TrashTip(t) \/ RestoreTip(t) \/ PurgeTip(t)

MarkerRoutes ==
  \E u \in Users, t \in Tips :
    \/ CreateMarker(u, t) \/ TrashMarker(u, t) \/ RestoreMarker(u, t) \/ PurgeMarker(u, t)
    \/ \E v \in Users, s \in Tips : MoveMarker(u, t, v, s)

Next ==
  \/ \E j \in Senders : Sending(j)
  \/ TipRoutes \/ MarkerRoutes
  \/ \E u \in Users, groups \in SUBSET Groups : SetGroups(u, groups)

\* The daily pull keeps mailing everyone, and a send goes on to its end;
\* failures do not go on for ever (MaxFaults).
Fairness == \A j \in Senders :
  /\ \A u \in Users : SF_vars(ReadRows(j, u))
  /\ WF_vars(AskGroups(j)) /\ WF_vars(Enqueue(j)) /\ WF_vars(Mark(j) \/ MarkFails(j))

Spec     == Init /\ [][Next]_vars
FairSpec == Spec /\ Fairness

-----------------------------------------------------------------------------
(* Properties *)

\* The carousel is ordered: a tip that stood open to the person during the
\* whole send is never passed over for a later one, whoever edits the others.
InOrder == \A j \in Senders : job[j].pc = "enqueue" =>
  \A t \in job[j].steady : job[j].pick # NoTip /\ ~Precedes(AsRead(t), job[j].pick)

\* A tip whose consumption a send recorded is not mailed to that person again,
\* although it is edited, moved, gated, trashed and restored, until somebody
\* touches the marker or purges the tip.
NotAgain == \A j \in Senders :
  job[j].pick # NoTip => job[j].pick.id \notin job[j].past

Visible(u, t) == tip[t].state = "live" /\ tip[t].gate \in holds[u] \cup {NoGate}

\* A tip before t whose marker is in the trash: it is picked again and again.
Blocked(u, t) == \E s \in Tips : /\ Visible(u, s) /\ marker[u][s] = "trashed"
                                 /\ Precedes(AsRead(s), AsRead(t))

\* The carousel advances: a tip the person may see does not wait for ever,
\* unless an earlier tip's marker was put in the trash.
CarouselAdvances == \A u \in Users, t \in Tips :
  []<>~(Visible(u, t) /\ marker[u][t] = "absent" /\ ~Blocked(u, t))
=============================================================================
