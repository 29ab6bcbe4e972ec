-------------------------- MODULE DigestKpisProofs --------------------------
(***************************************************************************)
(* Proofs about DigestKpis.  A number that was read is the size of a set   *)
(* of people or messages (Reading); as time goes on that set and the one   *)
(* the same window selects drift apart only by what was touched meanwhile  *)
(* (Drift), and from there the properties are about sizes of finite sets.  *)
(***************************************************************************)
EXTENDS DigestKpis, FiniteSetTheorems, TLAPS

LEMMA KpiConstants ==
  /\ Recipients \in Nat \ {0} /\ MaxTime \in Nat /\ StartTime \in Times
  /\ MaxBatches \in Nat /\ MaxMoves \in Nat
  /\ Spans \in Seq(Nat \ {0}) /\ Columns = 1 .. Len(Spans) /\ Len(Spans) \in Nat \ {0}
  /\ \A k \in Columns : Spans[k] \in Nat \ {0}
  /\ \A i, k \in Columns : i < k => Spans[i] < Spans[k]
  /\ Never \notin Times /\ Unread \notin Nat /\ Users \cap Messages = {}
  /\ Times = 0 .. MaxTime
BY KpiNat, KpiSpans, KpiNulls DEF Times, Columns

-----------------------------------------------------------------------------
(* Readings as sets *)

Connected == key = "kpi_res_users_connected"

Subjects(w) == IF Connected THEN {u \in active : In(lastLogin[u], w)}
               ELSE {m \in kept : In(date[m], w)}

OwnMails(w) == IF Connected THEN {} ELSE {i \in DOMAIN own : In(own[i], w)}

Window == [start : Int, end : Int]

LEMMA FiniteSources ==
  ASSUME TypeOK, NEW w
  PROVE  /\ Subjects(w) \subseteq Users \cup Messages
         /\ IsFiniteSet(Subjects(w)) /\ Cardinality(Subjects(w)) \in Nat
         /\ IsFiniteSet(OwnMails(w)) /\ Cardinality(OwnMails(w)) \in Nat
<1>1. IsFiniteSet(Users \cup Messages)
  BY KpiFinite, FS_Union
<1>2. Subjects(w) \subseteq Users \cup Messages
  BY DEF Subjects, TypeOK
<1>3. IsFiniteSet(Subjects(w))
  BY <1>1, <1>2, FS_Subset
<1>4. IsFiniteSet(1 .. Len(own))
  <2>1. Len(own) \in Int
    BY DEF TypeOK
  <2> QED BY <2>1, FS_Interval
<1>5. OwnMails(w) \subseteq 1 .. Len(own)
  BY DEF OwnMails, TypeOK
<1>6. IsFiniteSet(OwnMails(w))
  BY <1>4, <1>5, FS_Subset
<1> QED BY <1>2, <1>3, <1>6, FS_CardinalityType

\* What compute answers is a size, and a number.
LEMMA ComputeCounts ==
  ASSUME TypeOK, NEW w
  PROVE  /\ compute(w) = Cardinality(Subjects(w)) + Cardinality(OwnMails(w))
         /\ compute(w) \in Nat
<1>1. CASE Connected
  <2>1. Cardinality(OwnMails(w)) = 0
    BY <1>1, FS_EmptySet DEF OwnMails
  <2>2. Subjects(w) = {u \in active : In(lastLogin[u], w)}
    BY <1>1 DEF Subjects
  <2>3. compute(w) = Cardinality(Subjects(w))
    BY <1>1, <2>2 DEF compute, count_connected, Connected
  <2> QED BY <2>1, <2>3, FiniteSources
<1>2. CASE ~Connected
  <2>1. /\ Subjects(w) = {m \in kept : In(date[m], w)}
        /\ OwnMails(w) = {i \in DOMAIN own : In(own[i], w)}
    BY <1>2 DEF Subjects, OwnMails
  <2>2. compute(w) = Cardinality(Subjects(w)) + Cardinality(OwnMails(w))
    BY <1>2, <2>1 DEF compute, MessagesSent, Connected
  <2> QED BY <2>2, FiniteSources
<1> QED BY <1>1, <1>2

-----------------------------------------------------------------------------
(* Two facts about sizes *)

LEMMA SmallerSubset ==
  ASSUME NEW S, NEW T, IsFiniteSet(T), S \subseteq T
  PROVE  /\ IsFiniteSet(S) /\ Cardinality(S) \in Nat /\ Cardinality(T) \in Nat
         /\ Cardinality(S) <= Cardinality(T)
BY FS_Subset, FS_CardinalityType

LEMMA CoveredByTwo ==
  ASSUME NEW S, NEW A, NEW B, IsFiniteSet(A), IsFiniteSet(B), S \subseteq A \cup B
  PROVE  /\ Cardinality(S) \in Nat /\ Cardinality(A) \in Nat /\ Cardinality(B) \in Nat
         /\ Cardinality(S) <= Cardinality(A) + Cardinality(B)
<1>1. /\ IsFiniteSet(A \cup B)
      /\ Cardinality(A \cup B) = Cardinality(A) + Cardinality(B) - Cardinality(A \cap B)
  BY FS_Union
<1>2. IsFiniteSet(A \cap B)
  BY FS_Intersection
<1>3. /\ Cardinality(A) \in Nat /\ Cardinality(B) \in Nat
      /\ Cardinality(A \cap B) \in Nat
  BY <1>2, FS_CardinalityType
<1>4. Cardinality(S) <= Cardinality(A \cup B) /\ Cardinality(S) \in Nat
  BY <1>1, SmallerSubset
<1> QED BY <1>1, <1>3, <1>4

-----------------------------------------------------------------------------
(* Types, and the shape of a batch *)

BatchShape ==
  /\ batch.now <= clock
  /\ Len(batch.cells) <= Len(Spans)
  /\ batch.pc = "read" => Len(batch.cells) < Len(Spans)
  /\ batch.pc # "idle" => batch.left # 0
  /\ batch.cur # Unread => batch.pc = "read"
  /\ \A i \in DOMAIN shown : Len(shown[i]) <= Len(Spans)

Typed == TypeOK /\ BatchShape

LEMMA NoBatchTyped ==
  ASSUME NEW t \in Times
  PROVE  [NoBatch EXCEPT !.now = t] \in Batch
<1>1. <<>> \in Seq(Cell) /\ 0 \in 0 .. Recipients
  BY KpiConstants
<1>2. [NoBatch EXCEPT !.now = t] = [pc |-> "idle", now |-> t, left |-> 0, cur |-> Unread, cells |-> <<>>]
  BY DEF NoBatch
<1> QED BY <1>1, <1>2 DEF Batch

LEMMA NextRecipientTyped ==
  ASSUME Typed, batch.pc # "idle"
  PROVE  /\ NextRecipient \in Batch
         /\ NextRecipient.now = batch.now
         /\ NextRecipient.cells = <<>> /\ NextRecipient.cur = Unread
         /\ NextRecipient.pc # "idle" => NextRecipient.left # 0
<1>1. batch \in Batch /\ batch.left \in 0 .. Recipients /\ batch.left # 0 /\ batch.now \in Times
  BY DEF Typed, TypeOK, BatchShape, Batch
<1>2. CASE batch.left = 1
  <2>1. NextRecipient = [NoBatch EXCEPT !.now = batch.now]
    BY <1>2 DEF NextRecipient
  <2> QED BY <1>1, <2>1, NoBatchTyped DEF NoBatch
<1>3. CASE batch.left # 1
  <2>1. batch.left - 1 \in 0 .. Recipients /\ batch.left - 1 # 0
    BY <1>1, <1>3, KpiConstants
  <2>2. NextRecipient = [pc |-> "read", now |-> batch.now, left |-> batch.left - 1,
                         cur |-> Unread, cells |-> <<>>]
    BY <1>3 DEF NextRecipient, NoBatch
  <2>3. <<>> \in Seq(Cell)
    OBVIOUS
  <2> QED BY <1>1, <2>1, <2>2, <2>3 DEF Batch
<1> QED BY <1>2, <1>3

LEMMA MarginTyped ==
  ASSUME NEW a \in Nat, NEW b \in Nat
  PROVE  /\ [cur |-> a, prev |-> b, margin |-> margin(a, b)] \in Cell
         /\ margin(a, b) = "down" => a < b
BY DEF margin, Cell

LEMMA InitTyped == Init => Typed
<1> SUFFICES ASSUME Init PROVE Typed
  OBVIOUS
<1>1. StartTime \in Times /\ Past \subseteq Times
  BY KpiConstants DEF Past, Times
<1>2. NoBatch \in Batch
  BY KpiConstants DEF NoBatch, Batch, Times
<1>3. logins \subseteq Users \X Times
  BY <1>1 DEF Init
<1>4. lastLogin \in [Users -> Times \cup {Never}] /\ date \in [Messages -> Times \cup {Never}]
  BY <1>1 DEF Init
<1>5. TypeOK
  BY <1>1, <1>2, <1>3, <1>4, KpiConstants DEF Init, TypeOK, Keys
<1>6. BatchShape
  BY <1>1, KpiConstants DEF Init, BatchShape, NoBatch, Times
<1> QED BY <1>5, <1>6 DEF Typed

\* What leaves the batch and its mails alone keeps their types.
LEMMA WorldTyped ==
  ASSUME Typed,
         UNCHANGED <<key, batch, shown, batches>>,
         clock' \in Times, clock' >= clock, own' \in Seq(Times),
         lastLogin' \in [Users -> Times \cup {Never}], active' \subseteq Users,
         date' \in [Messages -> Times \cup {Never}], kept' \subseteq Messages,
         moves' \in 0 .. MaxMoves, logins' \subseteq Users \X Times,
         changed' \subseteq Users \cup Messages
  PROVE  Typed'
<1>1. TypeOK'
  BY DEF Typed, TypeOK
<1>2. batch.now \in Int /\ clock \in Int /\ clock' \in Int
  BY KpiConstants DEF Typed, TypeOK, Batch, Times
<1>3. BatchShape'
  BY <1>2 DEF Typed, BatchShape
<1> QED BY <1>1, <1>3 DEF Typed

LEMMA NextTyped == Typed /\ [Next]_vars => Typed'
<1> SUFFICES ASSUME Typed, [Next]_vars PROVE Typed'
  OBVIOUS
<1> USE DEF Typed
<1>0. /\ TypeOK /\ BatchShape
      /\ batch \in Batch /\ batch.now \in Times /\ clock \in Times /\ Times \subseteq Int
      /\ batch.now <= clock /\ Len(batch.cells) <= Len(Spans) /\ Len(batch.cells) \in Nat
      /\ <<>> \in Seq(Cell)
  BY KpiConstants DEF TypeOK, BatchShape, Batch, Times
<1>1. CASE Start
  <2>1. batch' = [pc |-> "read", now |-> clock, left |-> Recipients, cur |-> Unread, cells |-> <<>>]
    BY <1>1 DEF Start, NoBatch
  <2>2. batch' \in Batch
    <3>1. <<>> \in Seq(Cell)
      OBVIOUS
    <3> QED BY <2>1, <3>1, <1>0, KpiConstants DEF Batch
  <2>3. batches' \in 0 .. MaxBatches
    BY <1>1, <1>0, KpiConstants DEF Start, TypeOK
  <2>4. shown' = <<>> /\ shown' \in Seq(Seq(Cell))
    BY <1>1 DEF Start
  <2>5. TypeOK'
    BY <1>1, <1>0, <2>2, <2>3, <2>4 DEF Start, TypeOK
  <2>6. BatchShape'
    <3>1. /\ batch'.now = clock /\ batch'.left = Recipients /\ batch'.cur = Unread
          /\ Len(batch'.cells) = 0 /\ DOMAIN shown' = {}
      BY <2>1, <2>4
    <3>2. clock' = clock /\ clock \in Int
      BY <1>1, <1>0 DEF Start
    <3> QED BY <3>1, <3>2, KpiConstants DEF BatchShape
  <2> QED BY <2>5, <2>6
<1>2. CASE ReadCurrent
  <2>1. compute(current(End, Column)) \in Nat
    BY <1>0, ComputeCounts
  <2>2. batch' = [batch EXCEPT !.cur = compute(current(End, Column))]
    BY <1>2 DEF ReadCurrent
  <2>3. batch' \in Batch
    BY <1>0, <2>1, <2>2 DEF Batch
  <2>4. TypeOK'
    BY <1>2, <1>0, <2>3 DEF ReadCurrent, world, TypeOK
  <2>5. BatchShape'
    BY <1>2, <1>0, <2>2 DEF ReadCurrent, world, BatchShape, Batch
  <2> QED BY <2>4, <2>5
<1>3. CASE ReadPrevious
  <2> DEFINE prev == compute(previous(current(End, Column)))
             cell == [cur |-> batch.cur, prev |-> prev, margin |-> margin(batch.cur, prev)]
  <2>1. prev \in Nat /\ batch.cur \in Nat
    BY <1>3, <1>0, ComputeCounts DEF ReadPrevious, Batch
  <2>2. cell \in Cell
    BY <2>1, MarginTyped
  <2> HIDE DEF cell
  <2>3. /\ batch.pc = "read" /\ Len(batch.cells) < Len(Spans)
        /\ batch' = [batch EXCEPT !.cur = Unread, !.cells = Append(@, cell),
                       !.pc = IF Column = Len(Spans) THEN "post" ELSE @]
    BY <1>3, <1>0 DEF ReadPrevious, BatchShape, cell
  <2>4. batch.cells \in Seq(Cell) /\ Append(batch.cells, cell) \in Seq(Cell)
        /\ Len(Append(batch.cells, cell)) = Len(batch.cells) + 1 /\ Len(batch.cells) \in Nat
    BY <1>0, <2>2 DEF Batch
  <2>5. batch' \in Batch
    BY <1>0, <2>3, <2>4 DEF Batch
  <2>6. TypeOK'
    BY <1>3, <1>0, <2>5 DEF ReadPrevious, world, TypeOK
  <2>7. BatchShape'
    <3>1. /\ batch'.now = batch.now /\ batch'.left = batch.left /\ batch'.cur = Unread
          /\ Len(batch'.cells) = Len(batch.cells) + 1
          /\ batch'.pc = "read" => Column # Len(Spans)
      BY <1>0, <2>3, <2>4 DEF Batch
    <3> QED BY <1>3, <1>0, <2>3, <2>4, <3>1, KpiConstants
            DEF ReadPrevious, world, BatchShape, Column
  <2> QED BY <2>6, <2>7
<1>4. CASE ReadFails
  <2>1. CASE key = "kpi_res_users_connected"
    <3>1. batch' = [batch EXCEPT !.pc = "post", !.cur = Unread, !.cells = <<>>]
      BY <1>4, <2>1 DEF ReadFails
    <3>2. batch' \in Batch
      <4>1. <<>> \in Seq(Cell)
        OBVIOUS
      <4> QED BY <1>0, <3>1, <4>1 DEF Batch
    <3>3. TypeOK'
      BY <1>4, <1>0, <3>2 DEF ReadFails, world, TypeOK
    <3>4. BatchShape'
      <4>1. /\ batch'.now = batch.now /\ batch'.left = batch.left /\ batch'.cur = Unread
            /\ batch'.pc = "post" /\ Len(batch'.cells) = 0 /\ batch.pc = "read"
        <5>1. batch'.cells = <<>> /\ batch'.cur = Unread /\ batch'.pc = "post"
              /\ batch'.now = batch.now /\ batch'.left = batch.left
          BY <1>0, <3>1 DEF Batch
        <5> QED BY <1>4, <5>1 DEF ReadFails
      <4> QED BY <1>4, <1>0, <4>1, KpiConstants DEF ReadFails, world, BatchShape
    <3> QED BY <3>3, <3>4
  <2>2. CASE key # "kpi_res_users_connected"
    <3>1. batch' = NextRecipient /\ batch.pc # "idle"
      BY <1>4, <2>2 DEF ReadFails
    <3>2. TypeOK'
      BY <1>4, <1>0, <3>1, NextRecipientTyped DEF ReadFails, world, TypeOK
    <3>3. BatchShape'
      BY <1>4, <1>0, <3>1, NextRecipientTyped, KpiConstants DEF ReadFails, world, BatchShape
    <3> QED BY <3>2, <3>3
  <2> QED BY <2>1, <2>2
<1>5. CASE Post
  <2>1. batch' = [batch EXCEPT !.pc = "enqueue"] /\ batch.pc = "post" /\ own' = Append(own, clock)
    BY <1>5 DEF Post
  <2>2. batch' \in Batch /\ own' \in Seq(Times)
    <3>1. own \in Seq(Times)
      BY <1>0 DEF TypeOK
    <3>2. own' \in Seq(Times)
      BY <1>0, <2>1, <3>1
    <3> QED BY <1>0, <2>1, <3>2 DEF Batch
  <2>3. TypeOK'
    BY <1>5, <1>0, <2>2 DEF Post, world, TypeOK
  <2>4. BatchShape'
    BY <1>5, <1>0, <2>1 DEF Post, world, BatchShape, Batch
  <2> QED BY <2>3, <2>4
<1>6. CASE Enqueue
  <2>1. /\ batch' = NextRecipient /\ batch.pc # "idle"
        /\ shown' = Append(shown, batch.cells) \/ shown' = shown
    BY <1>6 DEF Enqueue
  <2>2. shown \in Seq(Seq(Cell)) /\ batch.cells \in Seq(Cell)
    BY <1>0 DEF TypeOK, Batch
  <2>3. shown' \in Seq(Seq(Cell)) /\ \A i \in DOMAIN shown' : Len(shown'[i]) <= Len(Spans)
    <3>1. CASE shown' = shown
      BY <1>0, <2>2, <3>1 DEF BatchShape
    <3>2. CASE shown' = Append(shown, batch.cells)
      <4>1. \A i \in DOMAIN shown' : shown'[i] = batch.cells \/ (i \in DOMAIN shown /\ shown'[i] = shown[i])
        BY <2>2, <3>2
      <4>2. \A i \in DOMAIN shown' : Len(shown'[i]) <= Len(Spans)
        BY <1>0, <4>1 DEF BatchShape
      <4> QED BY <2>2, <3>2, <4>2
    <3> QED BY <2>1, <3>1, <3>2
  <2>4. TypeOK'
    BY <1>6, <1>0, <2>1, <2>3, NextRecipientTyped DEF Enqueue, world, TypeOK
  <2>5. BatchShape'
    BY <1>6, <1>0, <2>1, <2>3, NextRecipientTyped, KpiConstants DEF Enqueue, world, BatchShape
  <2> QED BY <2>4, <2>5
<1>7. ASSUME NEW u \in Users, Login(u) PROVE Typed'
  <2>1. moves' \in 0 .. MaxMoves
    BY <1>7, <1>0, KpiConstants DEF Login, Move, TypeOK
  <2> QED BY <1>7, <1>0, <2>1, WorldTyped DEF Login, TypeOK
<1>8. ASSUME NEW u \in Users, ChangeMembership(u) PROVE Typed'
  <2>1. moves' \in 0 .. MaxMoves
    BY <1>8, <1>0, KpiConstants DEF ChangeMembership, Move, TypeOK
  <2> QED BY <1>8, <1>0, <2>1, WorldTyped DEF ChangeMembership, TypeOK
<1>9. ASSUME NEW m \in Messages, PostMessage(m) PROVE Typed'
  <2>1. moves' \in 0 .. MaxMoves
    BY <1>9, <1>0, KpiConstants DEF PostMessage, Move, TypeOK
  <2> QED BY <1>9, <1>0, <2>1, WorldTyped DEF PostMessage, TypeOK
<1>10. ASSUME NEW m \in Messages, TrashMessage(m) PROVE Typed'
  <2>1. moves' \in 0 .. MaxMoves
    BY <1>10, <1>0, KpiConstants DEF TrashMessage, Move, TypeOK
  <2> QED BY <1>10, <1>0, <2>1, WorldTyped DEF TrashMessage, TypeOK
<1>11. CASE Tick
  <2>1. clock' \in Times /\ clock' >= clock
    BY <1>11, KpiConstants DEF Tick, Typed, TypeOK, Times
  <2>2. UNCHANGED <<key, batch, shown, batches, own, world>>
    BY <1>11 DEF Tick
  <2> QED BY <1>0, <2>1, <2>2, WorldTyped DEF world, TypeOK
<1>12. CASE UNCHANGED vars
  BY <1>12, <1>0 DEF vars, TypeOK, BatchShape
<1> QED BY <1>1, <1>2, <1>3, <1>4, <1>5, <1>6, <1>7, <1>8, <1>9, <1>10, <1>11, <1>12 DEF Next

\* Every state of a batch and of the company has its type (the behaviour of
\* digest_cron_service.rs and kpi.rs over any company, any windows).
THEOREM KpisTyped == Spec => []TypeOK
<1>1. Typed => TypeOK
  BY DEF Typed
<1> QED BY <1>1, InitTyped, NextTyped, PTL DEF Spec

-----------------------------------------------------------------------------
(* A number that was read, at any later state of the batch *)

\* The number v, read over w, is the size of a set X of people or messages,
\* and of the digest's own mails.  Of what w selects now X misses only what
\* changed, X has only what w selects and what was touched, and nobody of X
\* had logged in between the end of w and the batch.
Reading(v, w, X) ==
  /\ v = Cardinality(X) + Cardinality(OwnMails(w))
  /\ Subjects(w) \subseteq X \cup changed
  /\ X \subseteq Subjects(w) \cup Touched
  /\ Connected => \A u \in X, t \in Times :
       <<u, t>> \in logins => ~(w.end <= t /\ t < batch.now)

Read(v, w) == \E X \in SUBSET (Users \cup Messages) : Reading(v, w, X)

\* last_login is the latest login.
Logins == \A u \in Users :
  /\ lastLogin[u] # Never => lastLogin[u] <= clock /\ <<u, lastLogin[u]>> \in logins
  /\ \A t \in Times : <<u, t>> \in logins => lastLogin[u] # Never /\ t <= lastLogin[u]

LEMMA LoginsInit == Init => Logins
<1> SUFFICES ASSUME Init, NEW u \in Users
             PROVE  /\ lastLogin[u] # Never => lastLogin[u] <= clock /\ <<u, lastLogin[u]>> \in logins
                    /\ \A t \in Times : <<u, t>> \in logins => lastLogin[u] # Never /\ t <= lastLogin[u]
  BY DEF Logins
<1>1. /\ Latest(u, lastLogin[u]) /\ lastLogin[u] \in Past \cup {Never} /\ clock = StartTime
      /\ logins \subseteq Users \X Past
  BY DEF Init
<1>2. StartTime \in Nat /\ Never \notin Past /\ Past \subseteq Int
  BY KpiConstants DEF Past, Times
<1> QED BY <1>1, <1>2, KpiConstants DEF Latest, Past

LEMMA LoginsNext == Typed /\ Logins /\ [Next]_vars => Logins'
<1> SUFFICES ASSUME Typed, Logins, [Next]_vars PROVE Logins'
  OBVIOUS
<1>1. /\ clock \in Int /\ clock \in Times /\ lastLogin \in [Users -> Times \cup {Never}]
      /\ Times \subseteq Int /\ Never \notin Times
  BY KpiConstants DEF Typed, TypeOK, Times
<1>2. ASSUME lastLogin' = lastLogin, logins' = logins, clock' \in Int, clock' >= clock PROVE Logins'
  <2> SUFFICES ASSUME NEW u \in Users
               PROVE  /\ lastLogin[u] # Never => lastLogin[u] <= clock' /\ <<u, lastLogin[u]>> \in logins
                      /\ \A t \in Times : <<u, t>> \in logins => lastLogin[u] # Never /\ t <= lastLogin[u]
    BY <1>2 DEF Logins
  <2>1. lastLogin[u] # Never => lastLogin[u] \in Int
    BY <1>1
  <2> QED BY <1>1, <1>2, <2>1 DEF Logins
<1>3. ASSUME NEW u \in Users, Login(u) PROVE Logins'
  <2>1. /\ lastLogin' = [lastLogin EXCEPT ![u] = clock]
        /\ logins' = logins \cup {<<u, clock>>} /\ clock' = clock
    BY <1>3 DEF Login
  <2>2. ASSUME NEW v \in Users
        PROVE  /\ lastLogin'[v] # Never => lastLogin'[v] <= clock' /\ <<v, lastLogin'[v]>> \in logins'
               /\ \A t \in Times : <<v, t>> \in logins' => lastLogin'[v] # Never /\ t <= lastLogin'[v]
    <3>1. CASE v = u
      <4>1. lastLogin'[v] = clock
        BY <1>1, <2>1, <3>1
      <4>2. ASSUME NEW t \in Times, <<v, t>> \in logins PROVE t <= clock
        <5>1. lastLogin[v] # Never /\ t <= lastLogin[v] /\ lastLogin[v] <= clock
          BY <4>2 DEF Logins
        <5>2. lastLogin[v] \in Int /\ t \in Int
          BY <1>1, <5>1
        <5> QED BY <1>1, <5>1, <5>2
      <4> QED BY <1>1, <2>1, <3>1, <4>1, <4>2
    <3>2. CASE v # u
      <4>1. lastLogin'[v] = lastLogin[v] /\ \A t : <<v, t>> \in logins' <=> <<v, t>> \in logins
        BY <1>1, <2>1, <3>2
      <4> QED BY <2>1, <4>1 DEF Logins
    <3> QED BY <3>1, <3>2
  <2> QED BY <2>2 DEF Logins
<1>4. CASE Tick
  BY <1>1, <1>2, <1>4 DEF Tick, world
<1>5. CASE Start \/ ReadCurrent \/ ReadPrevious \/ ReadFails \/ Post \/ Enqueue \/ UNCHANGED vars
  BY <1>1, <1>2, <1>5 DEF Start, ReadCurrent, ReadPrevious, ReadFails, Post, Enqueue, world, vars
<1>6. ASSUME NEW u \in Users, ChangeMembership(u) PROVE Logins'
  BY <1>1, <1>2, <1>6 DEF ChangeMembership
<1>7. ASSUME NEW m \in Messages, PostMessage(m) \/ TrashMessage(m) PROVE Logins'
  BY <1>1, <1>2, <1>7 DEF PostMessage, TrashMessage
<1> QED BY <1>3, <1>4, <1>5, <1>6, <1>7 DEF Next

LEMMA TouchedFinite ==
  ASSUME Typed
  PROVE  /\ IsFiniteSet(Touched) /\ Cardinality(Touched) \in Nat
         /\ IsFiniteSet(changed) /\ Cardinality(changed) \in Nat
         /\ Touched \subseteq Users \cup Messages
         /\ \A w : Subjects(w) \cap changed \subseteq Touched
<1>1. IsFiniteSet(Users \cup Messages)
  BY KpiFinite, FS_Union
<1>2. Touched \subseteq Users \cup Messages /\ changed \subseteq Users \cup Messages
  BY DEF Touched, Typed, TypeOK
<1>3. key \in Keys /\ active \subseteq Users /\ kept \subseteq Messages
  BY DEF Typed, TypeOK
<1>4. \A w : Subjects(w) \cap changed \subseteq Touched
  BY <1>3 DEF Touched, Subjects, Connected, Keys
<1> QED BY <1>1, <1>2, <1>4, SmallerSubset

\* What is read just now is such a number.
LEMMA Fresh ==
  ASSUME Typed, Logins, NEW w \in Window
  PROVE  Read(compute(w), w)
<1>1. Subjects(w) \subseteq Users \cup Messages /\ TypeOK
  BY FiniteSources DEF Typed
<1>2. compute(w) = Cardinality(Subjects(w)) + Cardinality(OwnMails(w))
  BY <1>1, ComputeCounts
<1>3. ASSUME Connected, NEW u \in Subjects(w), NEW t \in Times, <<u, t>> \in logins
      PROVE  ~(w.end <= t /\ t < batch.now)
  <2>1. u \in active /\ In(lastLogin[u], w)
    BY <1>3 DEF Subjects
  <2>2. u \in Users /\ lastLogin[u] \in Times \cup {Never} /\ Times \subseteq Int /\ w.end \in Int
    BY <2>1, <1>1, KpiConstants DEF TypeOK, Times, Window
  <2>3. t <= lastLogin[u] /\ lastLogin[u] < w.end /\ lastLogin[u] # Never
    BY <1>3, <2>1, <2>2 DEF Logins, In
  <2>4. t \in Int /\ lastLogin[u] \in Int
    BY <2>2, <2>3
  <2> QED BY <2>2, <2>3, <2>4
<1>4. Reading(compute(w), w, Subjects(w))
  BY <1>2, <1>3 DEF Reading
<1> QED BY <1>1, <1>4 DEF Read

-----------------------------------------------------------------------------
(* The windows of a batch while time goes on *)

\* What a step of the batch, or of the company, may do to a window that ended
\* before the batch began.
Drifts ==
  /\ key' = key /\ batch'.now = batch.now
  /\ changed \subseteq changed' /\ Touched \subseteq Touched'
  /\ \A w \in Window : w.end <= batch.now =>
       /\ Subjects(w)' \subseteq Subjects(w) \cup changed'
       /\ Subjects(w) \subseteq Subjects(w)' \cup Touched'
       /\ OwnMails(w)' = OwnMails(w)
  /\ \A u \in Users \cup Messages, t \in Times :
       <<u, t>> \in logins' => <<u, t>> \in logins \/ t >= batch.now

LEMMA ReadDrifts ==
  ASSUME Drifts, NEW v, NEW w \in Window, w.end <= batch.now, Read(v, w), batch.now \in Int
  PROVE  Read(v, w)'
<1>1. PICK X \in SUBSET (Users \cup Messages) : Reading(v, w, X)
  BY DEF Read
<1>2. /\ Subjects(w)' \subseteq Subjects(w) \cup changed'
      /\ Subjects(w) \subseteq Subjects(w)' \cup Touched'
      /\ OwnMails(w)' = OwnMails(w)
  BY DEF Drifts
<1>3. /\ changed \subseteq changed' /\ Touched \subseteq Touched' /\ Connected' = Connected
      /\ batch'.now = batch.now
  BY DEF Drifts, Connected
<1>4. v = Cardinality(X) + Cardinality(OwnMails(w)')
  BY <1>1, <1>2 DEF Reading
<1>5. Subjects(w)' \subseteq X \cup changed'
  BY <1>1, <1>2, <1>3 DEF Reading
<1>6. X \subseteq Subjects(w)' \cup Touched'
  BY <1>1, <1>2, <1>3 DEF Reading
<1>7. ASSUME Connected, NEW u \in X, NEW t \in Times, <<u, t>> \in logins'
      PROVE  ~(w.end <= t /\ t < batch'.now)
  <2>1. CASE <<u, t>> \in logins
    BY <1>1, <1>3, <1>7, <2>1 DEF Reading
  <2>2. CASE t >= batch.now
    <3>1. t \in Int
      BY KpiConstants DEF Times
    <3> QED BY <1>3, <2>2, <3>1
  <2> QED BY <1>1, <1>7, <2>1, <2>2 DEF Drifts
<1>8. Reading(v, w, X)'
  BY <1>3, <1>4, <1>5, <1>6, <1>7 DEF Reading
<1> QED BY <1>8 DEF Read

LEMMA StillDrifts ==
  ASSUME UNCHANGED <<key, lastLogin, active, date, kept, own, logins, changed>>,
         batch'.now = batch.now
  PROVE  Drifts
BY DEF Drifts, Touched, Subjects, OwnMails, Connected

LEMMA PostDrifts == ASSUME Typed, Post PROVE Drifts
<1>1. /\ own' = Append(own, clock) /\ batch'.now = batch.now
      /\ UNCHANGED <<key, lastLogin, active, date, kept, logins, changed>>
  BY DEF Post, world, Typed, TypeOK, Batch
<1>2. own \in Seq(Times) /\ clock \in Int /\ batch.now \in Int /\ batch.now <= clock
  BY KpiConstants DEF Typed, TypeOK, BatchShape, Batch, Times
<1>3. ASSUME NEW w \in Window, w.end <= batch.now PROVE OwnMails(w)' = OwnMails(w)
  <2>1. ~In(clock, w)
    BY <1>2, <1>3 DEF In, Window
  <2>2. /\ DOMAIN own' = 1 .. Len(own) + 1 /\ DOMAIN own = 1 .. Len(own) /\ Len(own) \in Nat
        /\ own'[Len(own) + 1] = clock /\ \A i \in DOMAIN own : own'[i] = own[i]
    BY <1>1, <1>2
  <2>3. {i \in DOMAIN own' : In(own'[i], w)} = {i \in DOMAIN own : In(own[i], w)}
    BY <2>1, <2>2
  <2> QED BY <1>1, <2>3 DEF OwnMails, Connected
<1> QED BY <1>1, <1>3 DEF Drifts, Touched, Subjects, Connected

LEMMA LoginDrifts == ASSUME Typed, NEW u \in Users, Login(u) PROVE Drifts
<1>1. /\ lastLogin' = [lastLogin EXCEPT ![u] = clock] /\ logins' = logins \cup {<<u, clock>>}
      /\ UNCHANGED <<key, active, date, kept, own, changed, batch>>
      /\ key = "kpi_res_users_connected"
  BY DEF Login, Move
<1>2. /\ lastLogin \in [Users -> Times \cup {Never}] /\ active \subseteq Users
      /\ clock \in Int /\ clock \in Times /\ batch.now \in Int /\ batch.now <= clock /\ Never \notin Times
  BY KpiConstants DEF Typed, TypeOK, BatchShape, Batch, Times
<1>3. lastLogin'[u] = clock /\ \A x \in Users : x # u => lastLogin'[x] = lastLogin[x]
  BY <1>1, <1>2
<1>4. u \in Touched' /\ Touched \subseteq Touched'
  <2>1. clock # Never
    BY <1>2
  <2> QED BY <1>1, <1>2, <1>3, <2>1 DEF Touched
<1>5. ASSUME NEW w \in Window, w.end <= batch.now
      PROVE  /\ Subjects(w)' \subseteq Subjects(w) /\ Subjects(w) \subseteq Subjects(w)' \cup {u}
             /\ OwnMails(w)' = OwnMails(w)
  <2>1. ~In(lastLogin'[u], w)
    BY <1>2, <1>3, <1>5 DEF In, Window
  <2>2. /\ Subjects(w)' = {x \in active : In(lastLogin'[x], w)}
        /\ Subjects(w) = {x \in active : In(lastLogin[x], w)}
    BY <1>1 DEF Subjects, Connected
  <2> QED BY <1>1, <1>2, <1>3, <2>1, <2>2 DEF OwnMails, Connected
<1>6. \A x \in Users \cup Messages, t \in Times : <<x, t>> \in logins' => <<x, t>> \in logins \/ t >= batch.now
  BY <1>1, <1>2
<1> QED BY <1>1, <1>4, <1>5, <1>6 DEF Drifts

LEMMA ChangeMembershipDrifts == ASSUME Typed, NEW u \in Users, ChangeMembership(u) PROVE Drifts
<1>1. /\ changed' = changed \cup {u} /\ active' \subseteq active \cup {u} /\ active \subseteq active' \cup {u}
      /\ UNCHANGED <<key, lastLogin, date, kept, own, logins, batch>>
      /\ key = "kpi_res_users_connected"
  BY DEF ChangeMembership, Move
<1>2. u \in Touched' /\ Touched \subseteq Touched'
  BY <1>1 DEF Touched
<1>3. ASSUME NEW w \in Window
      PROVE  /\ Subjects(w)' \subseteq Subjects(w) \cup {u} /\ Subjects(w) \subseteq Subjects(w)' \cup {u}
             /\ OwnMails(w)' = OwnMails(w)
  BY <1>1 DEF Subjects, OwnMails, Connected
<1> QED BY <1>1, <1>2, <1>3 DEF Drifts

LEMMA PostMessageDrifts == ASSUME Typed, NEW m \in Messages, PostMessage(m) PROVE Drifts
<1>1. /\ date' = [date EXCEPT ![m] = clock] /\ date[m] = Never
      /\ UNCHANGED <<key, lastLogin, active, kept, own, logins, changed, batch>>
      /\ key = "kpi_mail_message_total"
  BY DEF PostMessage, Move
<1>2. /\ date \in [Messages -> Times \cup {Never}] /\ kept \subseteq Messages
      /\ clock \in Int /\ batch.now \in Int /\ batch.now <= clock
  BY KpiConstants DEF Typed, TypeOK, BatchShape, Batch, Times
<1>3. ASSUME NEW w \in Window, w.end <= batch.now
      PROVE  Subjects(w)' = Subjects(w) /\ OwnMails(w)' = OwnMails(w)
  <2>1. ~In(clock, w) /\ ~In(Never, w)
    BY <1>2, <1>3 DEF In, Window
  <2>2. /\ Subjects(w)' = {x \in kept : In(date'[x], w)}
        /\ Subjects(w) = {x \in kept : In(date[x], w)}
    BY <1>1 DEF Subjects, Connected
  <2>3. \A x \in kept : In(date'[x], w) <=> In(date[x], w)
    BY <1>1, <1>2, <2>1
  <2> QED BY <1>1, <2>2, <2>3 DEF OwnMails, Connected
<1> QED BY <1>1, <1>3 DEF Drifts, Touched

LEMMA TrashMessageDrifts == ASSUME Typed, NEW m \in Messages, TrashMessage(m) PROVE Drifts
<1>1. /\ changed' = changed \cup {m} /\ kept' \subseteq kept \cup {m} /\ kept \subseteq kept' \cup {m}
      /\ UNCHANGED <<key, lastLogin, active, date, own, logins, batch>>
      /\ key = "kpi_mail_message_total"
  BY DEF TrashMessage, Move
<1>2. m \in Touched' /\ Touched \subseteq Touched'
  BY <1>1 DEF Touched
<1>3. ASSUME NEW w \in Window
      PROVE  /\ Subjects(w)' \subseteq Subjects(w) \cup {m} /\ Subjects(w) \subseteq Subjects(w)' \cup {m}
             /\ OwnMails(w)' = OwnMails(w)
  BY <1>1 DEF Subjects, OwnMails, Connected
<1> QED BY <1>1, <1>2, <1>3 DEF Drifts

\* Only a new batch moves the windows.
LEMMA StepDrifts == ASSUME Typed, [Next]_vars, ~Start PROVE Drifts
<1>1. batch \in Batch
  BY DEF Typed, TypeOK
<1>2. CASE ReadCurrent \/ ReadPrevious \/ ReadFails \/ Enqueue
  <2>1. batch'.now = batch.now
    <3>1. CASE ReadCurrent \/ ReadPrevious
      BY <1>1, <3>1 DEF ReadCurrent, ReadPrevious, Batch
    <3>2. CASE ReadFails \/ Enqueue
      <4>1. batch.pc # "idle" /\ (batch' = NextRecipient
              \/ batch' = [batch EXCEPT !.pc = "post", !.cur = Unread, !.cells = <<>>])
        BY <3>2 DEF ReadFails, Enqueue
      <4> QED BY <1>1, <4>1, NextRecipientTyped DEF Batch
    <3> QED BY <1>2, <3>1, <3>2
  <2> QED BY <1>2, <2>1, StillDrifts DEF ReadCurrent, ReadPrevious, ReadFails, Enqueue, world
<1>3. CASE Tick \/ UNCHANGED vars
  BY <1>3, StillDrifts DEF Tick, world, vars
<1> QED BY <1>2, <1>3, PostDrifts, LoginDrifts, ChangeMembershipDrifts, PostMessageDrifts,
           TrashMessageDrifts DEF Next

-----------------------------------------------------------------------------
(* The numbers of a batch are readings *)

Shows(c, k, v, w) == \/ v = c.cur /\ w = current(batch.now, k)
                     \/ v = c.prev /\ w = previous(current(batch.now, k))

\* v was read over w in this batch.
IsRead(v, w) ==
  \/ \E k \in DOMAIN batch.cells : Shows(batch.cells[k], k, v, w)
  \/ \E i \in DOMAIN shown : \E k \in DOMAIN shown[i] : Shows(shown[i][k], k, v, w)
  \/ batch.cur # Unread /\ v = batch.cur /\ w = current(batch.now, Column)

Numbers == \A v \in Nat, w \in Window : IsRead(v, w) => Read(v, w)

\* A drop in the mail being written is one of its two numbers.
Drops == \A k \in DOMAIN batch.cells :
           batch.cells[k].margin = "down" => batch.cells[k].cur < batch.cells[k].prev

LEMMA Windows ==
  ASSUME Typed, NEW k \in Columns
  PROVE  /\ current(batch.now, k) \in Window /\ current(batch.now, k).end <= batch.now
         /\ previous(current(batch.now, k)) \in Window
         /\ previous(current(batch.now, k)).end <= batch.now
<1>1. batch.now \in Int /\ Spans[k] \in Nat
  BY KpiConstants DEF Typed, TypeOK, Batch, Times
<1> QED BY <1>1 DEF current, previous, Window

\* What the batch and its mails hold, typed.
LEMMA Cells ==
  ASSUME Typed
  PROVE  /\ batch.cells \in Seq(Cell) /\ shown \in Seq(Seq(Cell))
         /\ batch.cur \in Nat \cup {Unread} /\ batch.now \in Int
         /\ DOMAIN batch.cells = 1 .. Len(batch.cells) /\ Len(batch.cells) \in Nat
         /\ DOMAIN batch.cells \subseteq Columns
         /\ \A k \in DOMAIN batch.cells : batch.cells[k] \in Cell
         /\ \A i \in DOMAIN shown : /\ shown[i] \in Seq(Cell) /\ DOMAIN shown[i] \subseteq Columns
                                    /\ \A k \in DOMAIN shown[i] : shown[i][k] \in Cell
         /\ batch.pc = "read" => Column \in Columns
         /\ batch.cur # Unread => Column \in Columns
<1>1. batch \in Batch /\ batch.cells \in Seq(Cell) /\ shown \in Seq(Seq(Cell)) /\ batch.now \in Int
  BY KpiConstants DEF Typed, TypeOK, Batch, Times
<1>2. /\ Columns = 1 .. Len(Spans) /\ Len(Spans) \in Nat
      /\ Len(batch.cells) <= Len(Spans) /\ Len(batch.cells) \in Nat
      /\ DOMAIN batch.cells = 1 .. Len(batch.cells)
  BY <1>1, KpiConstants DEF Typed, BatchShape
<1>3. ASSUME NEW i \in DOMAIN shown
      PROVE  /\ shown[i] \in Seq(Cell) /\ DOMAIN shown[i] \subseteq Columns
             /\ \A k \in DOMAIN shown[i] : shown[i][k] \in Cell
  <2>1. shown[i] \in Seq(Cell)
    BY <1>1
  <2>2. DOMAIN shown[i] = 1 .. Len(shown[i]) /\ Len(shown[i]) \in Nat /\ Len(shown[i]) <= Len(Spans)
    BY <2>1 DEF Typed, BatchShape
  <2> QED BY <1>2, <2>1, <2>2
<1>4. batch.pc = "read" => Column \in Columns
  BY <1>2 DEF Typed, BatchShape, Column
<1>5. batch.cur # Unread => Column \in Columns
  BY <1>4 DEF Typed, BatchShape
<1>6. batch.cur \in Nat \cup {Unread}
  BY <1>1 DEF Batch
<1>7. \A k \in DOMAIN batch.cells : batch.cells[k] \in Cell
  BY <1>1
<1> QED BY <1>1, <1>2, <1>3, <1>4, <1>5, <1>6, <1>7

\* A step of a batch reads at most one more number, and reads it as it is.
LEMMA OneMore ==
  ASSUME Typed, [Next]_vars, ~Start, NEW v, NEW w, IsRead(v, w)'
  PROVE  IsRead(v, w) \/ (v = compute(w) /\ \E k \in Columns : w \in {current(batch.now, k), previous(current(batch.now, k))})
<1>0. /\ batch \in Batch /\ batch.cells \in Seq(Cell) /\ shown \in Seq(Seq(Cell))
      /\ DOMAIN batch.cells = 1 .. Len(batch.cells) /\ Len(batch.cells) \in Nat
      /\ batch.now \in Int
  BY Cells DEF Typed, TypeOK
<1>1. batch'.now = batch.now
  BY StepDrifts DEF Drifts
<1>2. ASSUME UNCHANGED <<batch, shown>> PROVE IsRead(v, w)
  BY <1>2 DEF IsRead, Shows, Column
<1>3. CASE ReadCurrent
  <2>1. /\ batch' = [batch EXCEPT !.cur = compute(current(batch.now, Column))] /\ shown' = shown
        /\ Column \in Columns
    BY <1>3, Cells DEF ReadCurrent, End
  <2>2. /\ batch'.cells = batch.cells /\ batch'.cur = compute(current(batch.now, Column))
    BY <1>0, <2>1 DEF Batch
  <2> HIDE DEF Column
  <2>3. Column' = Column
    BY <2>2 DEF Column
  <2>4. IsRead(v, w) \/ (v = compute(current(batch.now, Column)) /\ w = current(batch.now, Column))
    BY <1>1, <2>1, <2>2, <2>3 DEF IsRead, Shows
  <2> QED BY <2>1, <2>4
<1>4. CASE ReadPrevious
  <2> DEFINE prev == compute(previous(current(batch.now, Column)))
             cell == [cur |-> batch.cur, prev |-> prev, margin |-> margin(batch.cur, prev)]
  <2>1. /\ batch' = [batch EXCEPT !.cur = Unread, !.cells = Append(@, cell),
                       !.pc = IF Column = Len(Spans) THEN "post" ELSE @]
        /\ shown' = shown /\ batch.cur # Unread /\ Column \in Columns
    BY <1>4, Cells DEF ReadPrevious, End
  <2>2. cell.cur = batch.cur /\ cell.prev = prev
    OBVIOUS
  <2>3. batch'.cells = Append(batch.cells, cell) /\ batch'.cur = Unread
    BY <1>0, <2>1 DEF Batch
  <2> HIDE DEF cell, prev
  <2>4. \A k \in DOMAIN batch'.cells :
          \/ k \in DOMAIN batch.cells /\ batch'.cells[k] = batch.cells[k]
          \/ k = Column /\ batch'.cells[k] = cell
    BY <1>0, <2>3 DEF Column
  <2>5. CASE \E k \in DOMAIN batch'.cells : Shows(batch.cells[k], k, v, w)'
    <3>1. PICK k \in DOMAIN batch'.cells : Shows(batch.cells[k], k, v, w)'
      BY <2>5
    <3>2. CASE k \in DOMAIN batch.cells /\ batch'.cells[k] = batch.cells[k]
      BY <1>1, <3>1, <3>2 DEF IsRead, Shows
    <3>3. CASE k = Column /\ batch'.cells[k] = cell
      <4>1. \/ v = batch.cur /\ w = current(batch.now, Column)
            \/ v = prev /\ w = previous(current(batch.now, Column))
        BY <1>1, <2>2, <3>1, <3>3 DEF Shows
      <4>2. CASE v = batch.cur /\ w = current(batch.now, Column)
        BY <2>1, <4>2 DEF IsRead
      <4>3. CASE v = prev /\ w = previous(current(batch.now, Column))
        BY <2>1, <4>3 DEF prev
      <4> QED BY <4>1, <4>2, <4>3
    <3> QED BY <2>4, <3>1, <3>2, <3>3
  <2>6. CASE \E i \in DOMAIN shown : \E k \in DOMAIN shown[i] : Shows(shown[i][k], k, v, w)'
    BY <1>1, <2>1, <2>6 DEF IsRead, Shows
  <2> QED BY <2>1, <2>3, <2>5, <2>6 DEF IsRead
<1>5. ASSUME batch'.cells \in {<<>>, batch.cells}, batch'.cur = Unread, shown' = shown
      PROVE  IsRead(v, w)
  BY <1>0, <1>1, <1>5 DEF IsRead, Shows
<1>6. CASE ReadFails
  <2>1. batch'.cells = <<>> /\ batch'.cur = Unread
    <3>1. batch.pc # "idle" /\ (batch' = NextRecipient
            \/ batch' = [batch EXCEPT !.pc = "post", !.cur = Unread, !.cells = <<>>])
      BY <1>6 DEF ReadFails
    <3> QED BY <1>0, <3>1, NextRecipientTyped DEF Batch
  <2> QED BY <1>5, <1>6, <2>1 DEF ReadFails
<1>7. CASE Post
  <2>1. batch'.cells = batch.cells /\ batch'.cur = batch.cur /\ batch.pc = "post"
    BY <1>0, <1>7 DEF Post, Batch
  <2>2. batch.cur = Unread
    BY <2>1 DEF Typed, BatchShape
  <2> QED BY <1>5, <1>7, <2>1, <2>2 DEF Post
<1>8. CASE Enqueue
  <2>1. batch'.cells = <<>> /\ batch'.cur = Unread
    BY <1>8, NextRecipientTyped DEF Enqueue
  <2>2. shown' = shown \/ shown' = Append(shown, batch.cells)
    BY <1>8 DEF Enqueue
  <2>3. CASE shown' = Append(shown, batch.cells)
    <3>1. PICK i \in DOMAIN shown' : \E k \in DOMAIN shown'[i] : Shows(shown[i][k], k, v, w)'
      BY <2>1 DEF IsRead
    <3>2. shown'[i] = batch.cells \/ (i \in DOMAIN shown /\ shown'[i] = shown[i])
      BY <1>0, <2>3
    <3> QED BY <1>1, <3>1, <3>2 DEF IsRead, Shows
  <2> QED BY <1>5, <2>1, <2>2, <2>3
<1> QED BY <1>2, <1>3, <1>4, <1>6, <1>7, <1>8
        DEF Next, Login, ChangeMembership, PostMessage, TrashMessage, Tick, vars

LEMMA NumbersInit == Init => Numbers /\ Drops
BY DEF Init, NoBatch, Numbers, IsRead, Drops

LEMMA NumbersNext == Typed /\ Logins /\ Numbers /\ [Next]_vars => Numbers'
<1> SUFFICES ASSUME Typed, Logins, Numbers, [Next]_vars,
                    NEW v \in Nat, NEW w \in Window, IsRead(v, w)'
             PROVE  Read(v, w)'
  BY DEF Numbers
<1>1. CASE Start
  <2>1. batch'.cells = <<>> /\ batch'.cur = Unread /\ shown' = <<>>
    BY <1>1 DEF Start, NoBatch
  <2> QED BY <2>1 DEF IsRead
<1>2. CASE ~Start
  <2>1. Drifts /\ batch.now \in Int
    BY <1>2, StepDrifts, Cells
  <2>2. Read(v, w) /\ w.end <= batch.now
    <3>1. CASE IsRead(v, w)
      <4>1. \E k \in Columns : w \in {current(batch.now, k), previous(current(batch.now, k))}
        BY <3>1, Cells DEF IsRead, Shows
      <4> QED BY <3>1, <4>1, Windows DEF Numbers
    <3>2. CASE v = compute(w) /\ \E k \in Columns : w \in {current(batch.now, k), previous(current(batch.now, k))}
      BY <3>2, Windows, Fresh
    <3> QED BY <1>2, <3>1, <3>2, OneMore
  <2> QED BY <2>1, <2>2, ReadDrifts
<1> QED BY <1>1, <1>2

\* What a window selects now is no more than what was read of it, and what
\* changed.
LEMMA NotMore ==
  ASSUME Typed, NEW v \in Nat, NEW w \in Window, Read(v, w)
  PROVE  compute(w) <= v + Cardinality(changed)
<1>1. PICK X \in SUBSET (Users \cup Messages) : Reading(v, w, X)
  BY DEF Read
<1>2. IsFiniteSet(X) /\ IsFiniteSet(changed)
  <2>1. IsFiniteSet(Users \cup Messages)
    BY KpiFinite, FS_Union
  <2> QED BY <1>1, <2>1, FS_Subset, TouchedFinite
<1>3. /\ Cardinality(Subjects(w)) \in Nat /\ Cardinality(X) \in Nat /\ Cardinality(changed) \in Nat
      /\ Cardinality(Subjects(w)) <= Cardinality(X) + Cardinality(changed)
  BY <1>1, <1>2, CoveredByTwo DEF Reading
<1>4. /\ compute(w) = Cardinality(Subjects(w)) + Cardinality(OwnMails(w))
      /\ Cardinality(OwnMails(w)) \in Nat
  BY ComputeCounts, FiniteSources DEF Typed
<1>5. v = Cardinality(X) + Cardinality(OwnMails(w))
  BY <1>1 DEF Reading
<1> QED BY <1>3, <1>4, <1>5

Later == \A i \in DOMAIN shown :
  /\ \A k \in DOMAIN batch.cells \cap DOMAIN shown[i] :
       /\ batch.cells[k].cur  <= shown[i][k].cur  + Cardinality(changed)
       /\ batch.cells[k].prev <= shown[i][k].prev + Cardinality(changed)
  /\ batch.cur # Unread /\ Column \in DOMAIN shown[i] =>
       batch.cur <= shown[i][Column].cur + Cardinality(changed)

LEMMA LaterInit == Init => Later
BY DEF Init, Later

\* What was shown in a column bounds what is read for it.
LEMMA ColumnNotMore ==
  ASSUME Typed, Numbers, NEW i \in DOMAIN shown, NEW k \in DOMAIN shown[i]
  PROVE  /\ compute(current(batch.now, k)) <= shown[i][k].cur + Cardinality(changed)
         /\ compute(previous(current(batch.now, k))) <= shown[i][k].prev + Cardinality(changed)
<1>1. k \in Columns /\ shown[i][k] \in Cell
  BY Cells
<1>2. shown[i][k].cur \in Nat /\ shown[i][k].prev \in Nat
  BY <1>1 DEF Cell
<1>3. /\ IsRead(shown[i][k].cur, current(batch.now, k))
      /\ IsRead(shown[i][k].prev, previous(current(batch.now, k)))
  BY DEF IsRead, Shows
<1>4. current(batch.now, k) \in Window /\ previous(current(batch.now, k)) \in Window
  BY <1>1, Windows
<1>5. /\ Read(shown[i][k].cur, current(batch.now, k))
      /\ Read(shown[i][k].prev, previous(current(batch.now, k)))
  BY <1>2, <1>3, <1>4 DEF Numbers
<1> QED BY <1>2, <1>4, <1>5, NotMore

LEMMA LaterNext == Typed /\ Numbers /\ Later /\ [Next]_vars => Later'
<1> SUFFICES ASSUME Typed, Numbers, Later, [Next]_vars PROVE Later'
  OBVIOUS
<1>0. /\ batch \in Batch /\ batch.cells \in Seq(Cell) /\ shown \in Seq(Seq(Cell))
      /\ DOMAIN batch.cells = 1 .. Len(batch.cells) /\ Len(batch.cells) \in Nat
      /\ Cardinality(changed) \in Nat /\ batch.cur \in Nat \cup {Unread} /\ Unread \notin Nat
      /\ \A k \in DOMAIN batch.cells : batch.cells[k].cur \in Nat /\ batch.cells[k].prev \in Nat
      /\ \A i \in DOMAIN shown : \A k \in DOMAIN shown[i] :
           shown[i][k].cur \in Nat /\ shown[i][k].prev \in Nat
  BY Cells, TouchedFinite, KpiConstants DEF Typed, TypeOK, Cell
<1>1. ASSUME ~Start
      PROVE  Cardinality(changed') \in Nat /\ Cardinality(changed) <= Cardinality(changed')
  <2>1. changed \subseteq changed'
    BY <1>1, StepDrifts DEF Drifts
  <2>2. IsFiniteSet(changed') /\ Cardinality(changed') \in Nat
    <3>1. changed' \subseteq Users \cup Messages
      BY NextTyped DEF Typed, TypeOK
    <3>2. IsFiniteSet(Users \cup Messages)
      BY KpiFinite, FS_Union
    <3> QED BY <3>1, <3>2, SmallerSubset
  <2> QED BY <2>1, <2>2, SmallerSubset
<1>2. ASSUME ~Start, shown' = shown, batch'.cells = batch.cells, batch'.cur \in {Unread, batch.cur}
      PROVE  Later'
  <2>1. Column' = Column
    BY <1>2 DEF Column
  <2> SUFFICES ASSUME NEW i \in DOMAIN shown
               PROVE  /\ \A k \in DOMAIN batch.cells \cap DOMAIN shown[i] :
                           /\ batch.cells[k].cur  <= shown[i][k].cur  + Cardinality(changed')
                           /\ batch.cells[k].prev <= shown[i][k].prev + Cardinality(changed')
                      /\ batch.cur # Unread /\ Column \in DOMAIN shown[i] =>
                           batch.cur <= shown[i][Column].cur + Cardinality(changed')
    BY <1>2, <2>1 DEF Later
  <2>2. ASSUME NEW k \in DOMAIN batch.cells \cap DOMAIN shown[i]
        PROVE  /\ batch.cells[k].cur  <= shown[i][k].cur  + Cardinality(changed')
               /\ batch.cells[k].prev <= shown[i][k].prev + Cardinality(changed')
    <3>1. /\ batch.cells[k].cur  <= shown[i][k].cur  + Cardinality(changed)
          /\ batch.cells[k].prev <= shown[i][k].prev + Cardinality(changed)
      BY DEF Later
    <3>2. /\ batch.cells[k].cur \in Nat /\ batch.cells[k].prev \in Nat
          /\ shown[i][k].cur \in Nat /\ shown[i][k].prev \in Nat
      BY <1>0
    <3>3. /\ Cardinality(changed) \in Nat /\ Cardinality(changed') \in Nat
          /\ Cardinality(changed) <= Cardinality(changed')
      BY <1>0, <1>1, <1>2
    <3> QED BY <3>1, <3>2, <3>3
  <2>3. ASSUME batch.cur # Unread, Column \in DOMAIN shown[i]
        PROVE  batch.cur <= shown[i][Column].cur + Cardinality(changed')
    <3>1. batch.cur <= shown[i][Column].cur + Cardinality(changed)
      BY <2>3 DEF Later
    <3>2. batch.cur \in Nat /\ shown[i][Column].cur \in Nat
      BY <1>0, <2>3
    <3>3. /\ Cardinality(changed) \in Nat /\ Cardinality(changed') \in Nat
          /\ Cardinality(changed) <= Cardinality(changed')
      BY <1>0, <1>1, <1>2
    <3> HIDE DEF Column
    <3> QED BY <3>1, <3>2, <3>3
  <2> QED BY <2>2, <2>3
<1>3. ASSUME batch'.cells = <<>>, batch'.cur = Unread PROVE Later'
  BY <1>3 DEF Later
<1>4. CASE Start
  BY <1>3, <1>4 DEF Start, NoBatch
<1>5. CASE ReadCurrent
  <2>1. batch' = [batch EXCEPT !.cur = compute(current(batch.now, Column))] /\ ~Start
    BY <1>5 DEF ReadCurrent, Start, End
  <2>2. /\ batch'.cells = batch.cells /\ batch'.cur = compute(current(batch.now, Column))
        /\ shown' = shown /\ changed' = changed /\ batch.pc = "read"
    BY <1>0, <1>5, <2>1 DEF Batch, ReadCurrent, world
  <2>3. Column' = Column
    BY <2>2 DEF Column
  <2> HIDE DEF Column
  <2>4. ASSUME NEW i \in DOMAIN shown, Column \in DOMAIN shown[i]
        PROVE  batch'.cur <= shown[i][Column].cur + Cardinality(changed)
    <3>1. PICK k \in DOMAIN shown[i] : k = Column
      BY <2>4
    <3> QED BY <2>2, <3>1, ColumnNotMore
  <2> QED BY <2>2, <2>3, <2>4 DEF Later
<1>6. CASE ReadPrevious
  <2> DEFINE prev == compute(previous(current(batch.now, Column)))
             cell == [cur |-> batch.cur, prev |-> prev, margin |-> margin(batch.cur, prev)]
  <2>1. /\ batch' = [batch EXCEPT !.cur = Unread, !.cells = Append(@, cell),
                       !.pc = IF Column = Len(Spans) THEN "post" ELSE @]
        /\ shown' = shown /\ changed' = changed /\ batch.cur # Unread
    BY <1>6 DEF ReadPrevious, End, world
  <2>2. cell.cur = batch.cur /\ cell.prev = prev
    OBVIOUS
  <2>3. batch'.cells = Append(batch.cells, cell) /\ batch'.cur = Unread
    BY <1>0, <2>1 DEF Batch
  <2> HIDE DEF cell, prev
  <2>4. \A k \in DOMAIN batch'.cells :
          \/ k \in DOMAIN batch.cells /\ batch'.cells[k] = batch.cells[k]
          \/ k = Column /\ batch'.cells[k] = cell
    BY <1>0, <2>3 DEF Column
  <2> HIDE DEF Column
  <2>5. ASSUME NEW i \in DOMAIN shown, NEW k \in DOMAIN batch'.cells \cap DOMAIN shown[i]
        PROVE  /\ batch'.cells[k].cur  <= shown[i][k].cur  + Cardinality(changed)
               /\ batch'.cells[k].prev <= shown[i][k].prev + Cardinality(changed)
    <3>1. CASE k \in DOMAIN batch.cells /\ batch'.cells[k] = batch.cells[k]
      BY <3>1 DEF Later
    <3>2. CASE k = Column /\ batch'.cells[k] = cell
      <4>1. batch.cur <= shown[i][k].cur + Cardinality(changed)
        BY <2>1, <3>2 DEF Later
      <4>2. prev <= shown[i][k].prev + Cardinality(changed)
        BY <3>2, ColumnNotMore DEF prev
      <4> QED BY <2>2, <3>2, <4>1, <4>2
    <3> QED BY <2>4, <3>1, <3>2
  <2> QED BY <2>1, <2>3, <2>5 DEF Later
<1>7. CASE ReadFails \/ Enqueue
  <2>1. batch.pc # "idle" /\ (batch' = NextRecipient
          \/ batch' = [batch EXCEPT !.pc = "post", !.cur = Unread, !.cells = <<>>])
    BY <1>7 DEF ReadFails, Enqueue
  <2>2. batch'.cells = <<>> /\ batch'.cur = Unread
    BY <1>0, <2>1, NextRecipientTyped DEF Batch
  <2> QED BY <1>3, <2>2
<1>8. CASE Post
  <2>1. batch'.cells = batch.cells /\ batch'.cur = batch.cur /\ shown' = shown /\ ~Start
    BY <1>0, <1>8 DEF Post, Batch, Start
  <2> QED BY <1>2, <2>1
<1>9. ASSUME ~Start, UNCHANGED <<batch, shown>> PROVE Later'
  BY <1>2, <1>9
<1> QED BY <1>4, <1>5, <1>6, <1>7, <1>8, <1>9
        DEF Next, Login, ChangeMembership, PostMessage, TrashMessage, Tick, vars

LEMMA DropsNext == Typed /\ Drops /\ [Next]_vars => Drops'
<1> SUFFICES ASSUME Typed, Drops, [Next]_vars PROVE Drops'
  OBVIOUS
<1>0. /\ batch \in Batch /\ batch.cells \in Seq(Cell) /\ batch.cur \in Nat \cup {Unread}
  BY Cells DEF Typed, TypeOK
<1>1. ASSUME batch'.cells \in {<<>>, batch.cells} PROVE Drops'
  BY <1>1 DEF Drops
<1>2. CASE ReadPrevious
  <2> DEFINE prev == compute(previous(current(batch.now, Column)))
             cell == [cur |-> batch.cur, prev |-> prev, margin |-> margin(batch.cur, prev)]
  <2>1. /\ batch' = [batch EXCEPT !.cur = Unread, !.cells = Append(@, cell),
                       !.pc = IF Column = Len(Spans) THEN "post" ELSE @]
        /\ batch.cur \in Nat /\ prev \in Nat
    BY <1>0, <1>2, ComputeCounts DEF ReadPrevious, End, Typed
  <2>2. cell.margin = "down" => cell.cur < cell.prev
    <3> HIDE DEF prev
    <3> QED BY <2>1, MarginTyped
  <2>3. batch'.cells = Append(batch.cells, cell)
    BY <1>0, <2>1 DEF Batch
  <2> HIDE DEF cell
  <2>4. \A k \in DOMAIN batch'.cells :
          \/ k \in DOMAIN batch.cells /\ batch'.cells[k] = batch.cells[k]
          \/ batch'.cells[k] = cell
    BY <1>0, <2>3
  <2> QED BY <2>2, <2>4 DEF Drops
<1>3. CASE ReadFails \/ Enqueue
  <2>1. batch.pc # "idle" /\ (batch' = NextRecipient
          \/ batch' = [batch EXCEPT !.pc = "post", !.cur = Unread, !.cells = <<>>])
    BY <1>3 DEF ReadFails, Enqueue
  <2>2. batch'.cells = <<>>
    BY <1>0, <2>1, NextRecipientTyped DEF Batch
  <2> QED BY <1>1, <2>2
<1>4. CASE Start \/ ReadCurrent \/ Post
  <2>1. batch'.cells \in {<<>>, batch.cells}
    BY <1>0, <1>4 DEF Start, ReadCurrent, Post, NoBatch, Batch
  <2> QED BY <1>1, <2>1
<1>5. ASSUME batch' = batch PROVE Drops'
  BY <1>1, <1>5
<1> QED BY <1>2, <1>3, <1>4, <1>5
        DEF Next, Login, ChangeMembership, PostMessage, TrashMessage, Tick, vars

-----------------------------------------------------------------------------
(* The theorems *)

KpisInv == Typed /\ Logins /\ Numbers /\ Later /\ Drops

LEMMA KpisInvariant == Spec => []KpisInv
<1>1. Init => KpisInv
  BY InitTyped, LoginsInit, NumbersInit, LaterInit DEF KpisInv
<1>2. KpisInv /\ [Next]_vars => KpisInv'
  BY NextTyped, LoginsNext, NumbersNext, LaterNext, DropsNext DEF KpisInv
<1> QED BY <1>1, <1>2, PTL DEF Spec

\* What was read over a window, as a set.
LEMMA CellRead ==
  ASSUME Typed, Numbers, NEW k \in DOMAIN batch.cells
  PROVE  /\ Read(batch.cells[k].cur, current(batch.now, k))
         /\ Read(batch.cells[k].prev, previous(current(batch.now, k)))
<1>1. k \in Columns /\ batch.cells[k] \in Cell
  BY Cells
<1>2. batch.cells[k].cur \in Nat /\ batch.cells[k].prev \in Nat
  BY <1>1 DEF Cell
<1>3. /\ IsRead(batch.cells[k].cur, current(batch.now, k))
      /\ IsRead(batch.cells[k].prev, previous(current(batch.now, k)))
  BY DEF IsRead, Shows
<1>4. current(batch.now, k) \in Window /\ previous(current(batch.now, k)) \in Window
  BY <1>1, Windows
<1> QED BY <1>2, <1>3, <1>4 DEF Numbers

\* Later mails of a batch never show more than earlier ones, give or take the
\* memberships and messages changed meanwhile (the windows of one now,
\* kpi.rs's compute for every recipient).
THEOREM LaterMails == Spec => []LaterMailsNeverMore
<1>1. KpisInv => LaterMailsNeverMore
  BY DEF KpisInv, Later, LaterMailsNeverMore
<1> QED BY <1>1, KpisInvariant, PTL

\* A shorter column never shows more than a longer one, give or take who was
\* touched while the columns were read (WINDOW_SPANS_DAYS ends at one now).
THEOREM Nesting == Spec => []ColumnsNest
<1>1. ASSUME KpisInv, NEW i \in DOMAIN batch.cells, NEW k \in DOMAIN batch.cells, i < k
      PROVE  batch.cells[i].cur <= batch.cells[k].cur + Cardinality(Touched)
  <2>0. Typed /\ Numbers /\ TypeOK
    BY <1>1 DEF KpisInv, Typed
  <2>1. PICK Xi \in SUBSET (Users \cup Messages) : Reading(batch.cells[i].cur, current(batch.now, i), Xi)
    BY <2>0, CellRead DEF Read
  <2>2. PICK Xk \in SUBSET (Users \cup Messages) : Reading(batch.cells[k].cur, current(batch.now, k), Xk)
    BY <2>0, CellRead DEF Read
  <2>3. ASSUME NEW t \in Times \cup {Never}, In(t, current(batch.now, i))
        PROVE  In(t, current(batch.now, k))
    <3>1. i \in Columns /\ k \in Columns /\ batch.now \in Int
      BY <2>0, Cells
    <3>2. Spans[i] \in Nat /\ Spans[k] \in Nat /\ Spans[i] < Spans[k]
      BY <1>1, <3>1, KpiConstants
    <3>3. t # Never /\ batch.now - Spans[i] <= t /\ t < batch.now
      BY <2>3 DEF In, current
    <3>4. t \in Int
      BY <3>3, KpiConstants DEF Times
    <3> QED BY <3>1, <3>2, <3>3, <3>4 DEF In, current
  <2>4. Subjects(current(batch.now, i)) \subseteq Subjects(current(batch.now, k))
    <3>1. /\ \A u \in active : lastLogin[u] \in Times \cup {Never}
          /\ \A m \in kept : date[m] \in Times \cup {Never}
      BY <2>0 DEF TypeOK
    <3> QED BY <2>3, <3>1 DEF Subjects
  <2>5. OwnMails(current(batch.now, i)) \subseteq OwnMails(current(batch.now, k))
    <3>1. \A x \in DOMAIN own : own[x] \in Times \cup {Never}
      BY <2>0 DEF TypeOK
    <3> QED BY <2>3, <3>1 DEF OwnMails
  <2>6. Xi \subseteq Xk \cup Touched
    <3>1. Xi \subseteq Subjects(current(batch.now, i)) \cup Touched
      BY <2>1 DEF Reading
    <3>2. Subjects(current(batch.now, k)) \subseteq Xk \cup changed
      BY <2>2 DEF Reading
    <3>3. Subjects(current(batch.now, k)) \cap changed \subseteq Touched
      BY <2>0, TouchedFinite
    <3> QED BY <2>4, <3>1, <3>2, <3>3
  <2>7. IsFiniteSet(Xk) /\ IsFiniteSet(Touched)
    <3>1. IsFiniteSet(Users \cup Messages)
      BY KpiFinite, FS_Union
    <3> QED BY <2>0, <2>2, <3>1, FS_Subset, TouchedFinite
  <2>8. /\ Cardinality(Xi) \in Nat /\ Cardinality(Xk) \in Nat /\ Cardinality(Touched) \in Nat
        /\ Cardinality(Xi) <= Cardinality(Xk) + Cardinality(Touched)
    BY <2>6, <2>7, CoveredByTwo
  <2>9. /\ Cardinality(OwnMails(current(batch.now, i))) \in Nat
        /\ Cardinality(OwnMails(current(batch.now, k))) \in Nat
        /\ Cardinality(OwnMails(current(batch.now, i))) <= Cardinality(OwnMails(current(batch.now, k)))
    BY <2>0, <2>5, FiniteSources, SmallerSubset
  <2>10. /\ batch.cells[i].cur = Cardinality(Xi) + Cardinality(OwnMails(current(batch.now, i)))
         /\ batch.cells[k].cur = Cardinality(Xk) + Cardinality(OwnMails(current(batch.now, k)))
    BY <2>1, <2>2 DEF Reading
  <2> QED BY <2>8, <2>9, <2>10
<1>2. KpisInv => ColumnsNest
  BY <1>1 DEF ColumnsNest
<1> QED BY <1>2, KpisInvariant, PTL

\* A drop shown for Connected Users is a drop in who logged in, give or take
\* who was touched (the single last_login of count_connected, the margin).
THEOREM RealDrop == Spec => []DropIsReal
<1>1. ASSUME KpisInv, Connected, NEW i \in DOMAIN batch.cells, batch.cells[i].margin = "down"
      PROVE  Cardinality(LoggedIn(current(batch.now, i)))
               < Cardinality(LoggedIn(previous(current(batch.now, i)))) + Cardinality(Touched)
  <2> DEFINE w  == current(batch.now, i)
             pw == previous(w)
             A  == LoggedIn(w) \cap Touched
  <2>0. Typed /\ Numbers /\ Logins /\ TypeOK /\ i \in Columns /\ batch.now \in Int
    BY <1>1, Cells DEF KpisInv, Typed
  <2>1. PICK X \in SUBSET (Users \cup Messages) : Reading(batch.cells[i].cur, w, X)
    BY <2>0, CellRead DEF Read
  <2>2. PICK Y \in SUBSET (Users \cup Messages) : Reading(batch.cells[i].prev, pw, Y)
    BY <2>0, CellRead DEF Read
  <2>3. Cardinality(X) < Cardinality(Y)
    <3>1. batch.cells[i].cur < batch.cells[i].prev
      BY <1>1 DEF KpisInv, Drops
    <3>2. \A z : OwnMails(z) = {}
      BY <1>1 DEF OwnMails
    <3>3. /\ batch.cells[i].cur = Cardinality(X) + Cardinality({})
          /\ batch.cells[i].prev = Cardinality(Y) + Cardinality({})
      BY <2>1, <2>2, <3>2 DEF Reading
    <3>4. Cardinality({}) = 0
      BY FS_EmptySet
    <3>5. IsFiniteSet(X) /\ IsFiniteSet(Y)
      <4>1. IsFiniteSet(Users \cup Messages)
        BY KpiFinite, FS_Union
      <4> QED BY <4>1, FS_Subset
    <3>6. Cardinality(X) \in Nat /\ Cardinality(Y) \in Nat
      BY <3>5, FS_CardinalityType
    <3> QED BY <3>1, <3>3, <3>4, <3>6
  <2>4. w = [start |-> batch.now - Spans[i], end |-> batch.now] /\ Spans[i] \in Nat \ {0} /\ pw.end = w.start
    BY <2>0, KpiConstants DEF current, previous
  <2> HIDE DEF w, pw
  \* Who logged in and was not touched has their last login in the window.
  <2>5. LoggedIn(w) \subseteq X \cup A
    <3> SUFFICES ASSUME NEW u \in LoggedIn(w), u \notin Touched PROVE u \in X
      OBVIOUS
    <3>1. PICK t \in Times : u \in active /\ <<u, t>> \in logins /\ In(t, w)
      BY DEF LoggedIn
    <3>2. u \in Users /\ Times \subseteq Int /\ lastLogin[u] \in Times \cup {Never}
      BY <2>0, <3>1, KpiConstants DEF TypeOK, Times
    <3>3. lastLogin[u] # Never /\ t <= lastLogin[u]
      BY <2>0, <3>1, <3>2 DEF Logins
    <3>4. u \notin changed /\ ~(lastLogin[u] >= batch.now)
      <4>1. key # "kpi_mail_message_total"
        BY <1>1 DEF Connected
      <4> QED BY <3>2, <3>3, <4>1 DEF Touched
    <3>5. lastLogin[u] \in Int /\ t \in Int
      BY <3>2, <3>3
    <3>6. In(lastLogin[u], w)
      BY <2>0, <2>4, <3>1, <3>3, <3>4, <3>5 DEF In
    <3>7. u \in Subjects(w)
      BY <1>1, <3>1, <3>6 DEF Subjects
    <3> QED BY <2>1, <3>4, <3>7 DEF Reading
  <2>6. Y \subseteq LoggedIn(pw) \cup (Y \cap Touched)
    <3> SUFFICES ASSUME NEW u \in Y, u \notin Touched PROVE u \in LoggedIn(pw)
      OBVIOUS
    <3>1. u \in Subjects(pw)
      BY <2>2 DEF Reading
    <3>2. u \in active /\ In(lastLogin[u], pw)
      BY <1>1, <3>1 DEF Subjects
    <3>3. u \in Users /\ lastLogin[u] \in Times \cup {Never} /\ lastLogin[u] # Never
      BY <2>0, <3>2 DEF TypeOK, In
    <3>4. <<u, lastLogin[u]>> \in logins
      BY <2>0, <3>3 DEF Logins
    <3> QED BY <3>2, <3>3, <3>4 DEF LoggedIn
  \* Whoever was counted in the window before had not come back since.
  <2>7. A \cap (Y \cap Touched) = {}
    <3> SUFFICES ASSUME NEW u \in A, u \in Y PROVE FALSE
      OBVIOUS
    <3>1. PICK t \in Times : <<u, t>> \in logins /\ In(t, w)
      BY DEF LoggedIn
    <3>2. w.start <= t /\ t < batch.now
      BY <2>4, <3>1 DEF In
    <3>3. ~(pw.end <= t /\ t < batch.now)
      BY <1>1, <2>2, <3>1 DEF Reading
    <3> QED BY <2>4, <3>2, <3>3
  <2>8. /\ IsFiniteSet(X) /\ IsFiniteSet(Y) /\ IsFiniteSet(A) /\ IsFiniteSet(Y \cap Touched)
        /\ IsFiniteSet(LoggedIn(w)) /\ IsFiniteSet(LoggedIn(pw)) /\ IsFiniteSet(Touched)
    <3>1. IsFiniteSet(Users \cup Messages)
      BY KpiFinite, FS_Union
    <3>2. LoggedIn(w) \subseteq Users /\ LoggedIn(pw) \subseteq Users
      BY <2>0 DEF LoggedIn, TypeOK
    <3>3. IsFiniteSet(LoggedIn(w)) /\ IsFiniteSet(LoggedIn(pw))
      BY <3>2, KpiFinite, FS_Subset
    <3>4. IsFiniteSet(X) /\ IsFiniteSet(Y)
      BY <3>1, FS_Subset
    <3>5. IsFiniteSet(Touched)
      BY <2>0, TouchedFinite
    <3> QED BY <3>3, <3>4, <3>5, FS_Subset
  <2> HIDE DEF A
  <2>9. Cardinality(LoggedIn(w)) <= Cardinality(X) + Cardinality(A)
    BY <2>5, <2>8, CoveredByTwo
  <2>10. Cardinality(Y) <= Cardinality(LoggedIn(pw)) + Cardinality(Y \cap Touched)
    BY <2>6, <2>8, CoveredByTwo
  <2>11. Cardinality(A) + Cardinality(Y \cap Touched) <= Cardinality(Touched)
    <3>1. Cardinality(A \cup (Y \cap Touched)) =
            Cardinality(A) + Cardinality(Y \cap Touched) - Cardinality(A \cap (Y \cap Touched))
      BY <2>8, FS_Union
    <3>2. A \cup (Y \cap Touched) \subseteq Touched
      BY DEF A
    <3>3. Cardinality(A \cup (Y \cap Touched)) <= Cardinality(Touched)
      BY <2>8, <3>2, SmallerSubset
    <3>4. Cardinality(A \cap (Y \cap Touched)) = 0
      BY <2>7, FS_EmptySet
    <3>5. Cardinality(A) \in Nat /\ Cardinality(Y \cap Touched) \in Nat /\ Cardinality(Touched) \in Nat
      BY <2>8, FS_CardinalityType
    <3> QED BY <3>1, <3>3, <3>4, <3>5
  <2>12. /\ Cardinality(X) \in Nat /\ Cardinality(Y) \in Nat /\ Cardinality(A) \in Nat
         /\ Cardinality(Y \cap Touched) \in Nat /\ Cardinality(Touched) \in Nat
         /\ Cardinality(LoggedIn(w)) \in Nat /\ Cardinality(LoggedIn(pw)) \in Nat
    BY <2>8, FS_CardinalityType
  <2>13. Cardinality(LoggedIn(w)) < Cardinality(LoggedIn(pw)) + Cardinality(Touched)
    BY <2>3, <2>9, <2>10, <2>11, <2>12
  <2> QED BY <2>13 DEF w, pw
<1>2. KpisInv => DropIsReal
  BY <1>1 DEF DropIsReal, Connected
<1> QED BY <1>2, KpisInvariant, PTL
=============================================================================
