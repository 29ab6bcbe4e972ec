----------------------------- MODULE DigestSend -----------------------------
(***************************************************************************)
(* What send_to_recipient promises its callers, the sweep and Send Now,    *)
(* without the rendering and the writes behind it: a call mails its own    *)
(* recipient, at most once, and tells the truth about it: it may err after *)
(* its mail is queued, but never succeeds without one.                     *)
(***************************************************************************)
EXTENDS Naturals

CONSTANTS Users, Senders, NoUser

VARIABLES
  call,     \* per sender: whom it is mailing, and whether the mail is queued
  queued,   \* per user: the mails queued
  ended     \* how the latest call ended

vars == <<call, queued, ended>>

NoCall == [user |-> NoUser, sent |-> FALSE]

\* What a call can come to; DigestSweep takes these three for a step.
Outcomes == {r \in [enqueued : BOOLEAN, ok : BOOLEAN] : r.ok => r.enqueued}

Call(j, u) ==
  /\ call[j] = NoCall
  /\ call' = [call EXCEPT ![j] = [user |-> u, sent |-> FALSE]]
  /\ UNCHANGED <<queued, ended>>

Queue(j, u) ==
  /\ call[j] = [user |-> u, sent |-> FALSE]
  /\ call' = [call EXCEPT ![j] = [user |-> u, sent |-> TRUE]]
  /\ queued' = [queued EXCEPT ![u] = @ + 1]
  /\ UNCHANGED ended

Return(j, u) ==
  /\ call[j].user = u
  /\ call' = [call EXCEPT ![j] = NoCall]
  /\ \E r \in Outcomes : r.enqueued = call[j].sent /\ ended' = r
  /\ UNCHANGED queued

Init ==
  /\ call = [j \in Senders |-> NoCall]
  /\ queued = [u \in Users |-> 0]
  /\ ended = [enqueued |-> FALSE, ok |-> FALSE]

Next == \E j \in Senders, u \in Users : Call(j, u) \/ Queue(j, u) \/ Return(j, u)

Spec == Init /\ [][Next]_vars
=============================================================================
