------------------------- MODULE NotificationsProofs -------------------------
(***************************************************************************)
(* Theorems about Notifications, for any number of events and callbacks,   *)
(* any batch size and any number of attempts.                              *)
(*                                                                         *)
(* A dispatch acts on what it read: Carried says what its locals promise   *)
(* of the table and of the mails, however old they are; Once adds what     *)
(* holds of them as long as dispatches do not overlap.                     *)
(***************************************************************************)
EXTENDS Notifications, FiniteSetTheorems, TLAPS

\* The rows a dispatch holds exist, with at most as many attempts read as there
\* were errors; the one it has sent was delivered, the one it counts failed once more.
Carried ==
  \A k \in Ticks :
    LET d == dispatch[k]
    IN /\ \A n \in d.todo : row[n] # None /\ d.read[n] <= failures[n]
       /\ d.pc \in {"mark", "count"} => d.cur \in d.todo
       /\ d.pc = "mark" => mails[d.cur] > 0
       /\ d.pc = "count" => d.read[d.cur] + 1 <= failures[d.cur]

IInv == TypeOK /\ Carried /\ RecordIsTruthful /\ PendingIsSelectable

LEMMA InvInit == Init => IInv
<1> SUFFICES ASSUME Init PROVE IInv
  OBVIOUS
<1>1. NoDispatch \in Dispatches /\ NoDispatch.pc = "idle" /\ NoDispatch.todo = {}
  BY ConstantsAssumption DEF NoDispatch, Dispatches
<1>2. \A k \in Ticks : dispatch[k] = NoDispatch
  BY DEF Init
<1>3. TypeOK
  BY <1>1 DEF Init, TypeOK
<1>4. Carried
  BY <1>1, <1>2 DEF Carried
<1> QED BY <1>3, <1>4 DEF Init, IInv, RecordIsTruthful, PendingIsSelectable

\* Counting more mails and more errors keeps every record truthful.
LEMMA RecordStays ==
  ASSUME TypeOK, TypeOK', RecordIsTruthful, PendingIsSelectable, UNCHANGED row,
         \A n \in Notifs : mails[n] <= mails'[n] /\ failures[n] <= failures'[n]
  PROVE  RecordIsTruthful' /\ PendingIsSelectable'
<1>1. \A n \in Notifs : row[n] # None => row[n].attempts \in Nat
  BY DEF TypeOK, Rows
<1>2. \A n \in Notifs : /\ mails[n] \in Nat /\ mails'[n] \in Nat
                        /\ failures[n] \in Nat /\ failures'[n] \in Nat
  BY DEF TypeOK
<1> QED BY <1>1, <1>2, ConstantsAssumption DEF RecordIsTruthful, PendingIsSelectable

\* A new row is pending, with no attempt, and no dispatch holds it yet.
LEMMA ScheduleStep ==
  ASSUME IInv, NEW n \in Notifs, Schedule(n)
  PROVE  IInv'
<1>1. CASE row[n] # None
  BY <1>1 DEF IInv, Schedule, NewRow, tableVars, sentVars, TypeOK, Carried,
              RecordIsTruthful, PendingIsSelectable
<1>2. CASE row[n] = None
  <2> DEFINE new == [status |-> "PENDING", attempts |-> 0]
  <2>1. Cardinality(Existing) \in Nat
    BY ConstantsAssumption, FS_Subset, FS_CardinalityType DEF Existing
  <2>2. /\ row' = [row EXCEPT ![n] = new]
        /\ created' = [created EXCEPT ![n] = Cardinality(Existing)]
        /\ scheduling' = scheduling \ {n}
        /\ UNCHANGED <<dispatch, mails, failures, overlapped, calls, mishaps>>
    BY <1>2 DEF Schedule, NewRow, sentVars
  <2>3. new \in Rows /\ new # None /\ new.status = "PENDING" /\ new.attempts = 0
    BY ConstantsAssumption DEF Rows, Statuses
  <2> HIDE DEF new
  <2>4. TypeOK'
    BY <2>1, <2>2, <2>3 DEF IInv, TypeOK
  <2>5. Carried'
    <3>1. \A m \in Notifs : row[m] # None => row'[m] # None
      BY <2>2, <2>3 DEF IInv, TypeOK
    <3> QED BY <2>2, <3>1 DEF IInv, TypeOK, Dispatches, Carried
  <2>6. RecordIsTruthful' /\ PendingIsSelectable'
    BY <2>2, <2>3, ConstantsAssumption DEF IInv, TypeOK, RecordIsTruthful, PendingIsSelectable
  <2> QED BY <2>4, <2>5, <2>6 DEF IInv
<1> QED BY <1>1, <1>2

\* A dispatch starts with the rows it may select, and their attempts.
LEMMA StartStep ==
  ASSUME IInv, NEW k \in Ticks, DispatchStart(k)
  PROVE  IInv'
<1>1. PICK S \in Batches \ {{}} :
        dispatch' = [dispatch EXCEPT ![k] =
          [NoDispatch EXCEPT !.pc = "send", !.todo = S,
             !.read = [n \in Notifs |-> IF n \in S THEN row[n].attempts ELSE 0]]]
  BY DEF DispatchStart
<1> DEFINE read == [n \in Notifs |-> IF n \in S THEN row[n].attempts ELSE 0]
           d == [pc |-> "send", todo |-> S, read |-> read, cur |-> None]
<1>2. /\ dispatch' = [dispatch EXCEPT ![k] = d]
      /\ overlapped' \in BOOLEAN
      /\ UNCHANGED <<scheduling, row, created, mails, failures, calls, mishaps>>
  BY <1>1 DEF DispatchStart, NoDispatch, tableVars, sentVars, IInv, TypeOK
<1>3. S \subseteq Notifs /\ \A n \in S : Selectable(n)
  BY DEF Batches
<1>4. read \in [Notifs -> 0..(MaxAttempts - 1)]
  BY <1>3, ConstantsAssumption DEF IInv, TypeOK, Rows, Selectable
<1>5. d \in Dispatches
  BY <1>3, <1>4 DEF Dispatches
<1>6. \A n \in S : row[n] # None /\ read[n] <= failures[n]
  BY <1>3 DEF Selectable, IInv, RecordIsTruthful
<1>7. d.pc = "send" /\ d.todo = S /\ d.read = read
  OBVIOUS
<1> HIDE DEF d, read
<1>8. TypeOK'
  BY <1>2, <1>5 DEF IInv, TypeOK
<1>9. Carried'
  BY <1>2, <1>6, <1>7 DEF IInv, TypeOK, Carried
<1> QED BY <1>2, <1>8, <1>9 DEF IInv, RecordIsTruthful, PendingIsSelectable

\* An attempt to send: the mail may be delivered, the attempt may end in an
\* error, and the dispatch goes on accordingly.
LEMMA SendStep ==
  ASSUME IInv, NEW k \in Ticks, NEW n \in Notifs,
         Deliver(k, n) \/ SendFails(k, n) \/ DeliveredUnheard(k, n)
  PROVE  IInv'
<1>1. dispatch[k] \in Dispatches /\ n \in dispatch[k].todo
  BY DEF IInv, TypeOK, Deliver, SendFails, DeliveredUnheard, Oldest
<1>2. PICK pc \in {"mark", "count"} :
        /\ dispatch' = [dispatch EXCEPT ![k].pc = pc, ![k].cur = n]
        /\ pc = "mark" => mails' = [mails EXCEPT ![n] = @ + 1]
        /\ pc = "count" => failures' = [failures EXCEPT ![n] = @ + 1]
  BY DEF Deliver, SendFails, DeliveredUnheard
<1>3. /\ mails' = mails \/ mails' = [mails EXCEPT ![n] = @ + 1]
      /\ failures' = failures \/ failures' = [failures EXCEPT ![n] = @ + 1]
      /\ mishaps' = mishaps \/ mishaps' = mishaps + 1
      /\ UNCHANGED <<scheduling, row, created, overlapped, calls>>
  BY DEF Deliver, SendFails, DeliveredUnheard, Mishap, tableVars
<1>4. \A m \in Notifs : /\ mails[m] \in Nat /\ failures[m] \in Nat
                        /\ mails'[m] \in Nat /\ mails[m] <= mails'[m]
                        /\ failures'[m] \in Nat /\ failures[m] <= failures'[m]
  BY <1>3 DEF IInv, TypeOK
<1>5. TypeOK'
  <2>1. dispatch' \in [Ticks -> Dispatches]
    BY <1>1, <1>2 DEF IInv, TypeOK, Dispatches
  <2> QED BY <1>3, <2>1 DEF IInv, TypeOK
<1>6. Carried'
  <2> SUFFICES ASSUME NEW j \in Ticks
               PROVE  LET d == dispatch'[j]
                      IN /\ \A m \in d.todo : row'[m] # None /\ d.read[m] <= failures'[m]
                         /\ d.pc \in {"mark", "count"} => d.cur \in d.todo
                         /\ d.pc = "mark" => mails'[d.cur] > 0
                         /\ d.pc = "count" => d.read[d.cur] + 1 <= failures'[d.cur]
    BY DEF Carried
  <2>1. dispatch[j] \in Dispatches
    BY DEF IInv, TypeOK
  <2>2. \A m \in dispatch[j].todo : row'[m] # None /\ dispatch[j].read[m] <= failures'[m]
    <3>1. \A m \in dispatch[j].todo : m \in Notifs /\ dispatch[j].read[m] \in Nat
      BY <2>1, ConstantsAssumption DEF Dispatches
    <3> QED BY <1>3, <1>4, <3>1 DEF IInv, Carried
  <2>3. CASE j = k
    <3>1. /\ dispatch'[j].todo = dispatch[j].todo /\ dispatch'[j].read = dispatch[j].read
          /\ dispatch'[j].pc = pc /\ dispatch'[j].cur = n
      BY <1>2, <2>1, <2>3 DEF IInv, TypeOK, Dispatches
    <3>2. dispatch[j].read[n] \in Nat /\ dispatch[j].read[n] <= failures[n]
      BY <1>1, <2>1, <2>3, ConstantsAssumption DEF Dispatches, IInv, Carried
    <3>3. pc = "mark" => mails'[n] > 0
      BY <1>2, <1>4 DEF IInv, TypeOK
    <3>4. pc = "count" => dispatch[j].read[n] + 1 <= failures'[n]
      BY <1>2, <1>4, <3>2 DEF IInv, TypeOK
    <3> QED BY <1>1, <2>2, <2>3, <3>1, <3>3, <3>4
  <2>4. CASE j # k
    <3>1. dispatch'[j] = dispatch[j]
      BY <1>2, <2>4 DEF IInv, TypeOK
    <3>2. dispatch[j].pc = "mark" => mails'[dispatch[j].cur] > 0
      BY <1>4, <2>1 DEF IInv, Carried, Dispatches
    <3>3. dispatch[j].pc = "count" =>
            dispatch[j].read[dispatch[j].cur] + 1 <= failures'[dispatch[j].cur]
      <4> SUFFICES ASSUME dispatch[j].pc = "count"
                   PROVE  dispatch[j].read[dispatch[j].cur] + 1 <= failures'[dispatch[j].cur]
        OBVIOUS
      <4>1. dispatch[j].cur \in Notifs
        BY <2>1 DEF IInv, Carried, Dispatches
      <4>2. dispatch[j].read[dispatch[j].cur] \in Nat
        BY <2>1, <4>1, ConstantsAssumption DEF Dispatches
      <4> QED BY <1>4, <4>1, <4>2 DEF IInv, Carried
    <3> QED BY <2>2, <3>1, <3>2, <3>3 DEF IInv, Carried
  <2> QED BY <2>3, <2>4
<1> QED BY <1>3, <1>4, <1>5, <1>6, RecordStays DEF IInv

\* The dispatch goes on with less to do, and with nothing sent or counted.
LEMMA AdvanceShape ==
  ASSUME IInv, NEW k \in Ticks, dispatch[k].pc \in {"mark", "count"}, Advance(k)
  PROVE  \E d \in Dispatches :
           /\ dispatch' = [dispatch EXCEPT ![k] = d]
           /\ d.pc \in {"idle", "send"}
           /\ d.todo \subseteq dispatch[k].todo \ {dispatch[k].cur}
           /\ \A n \in d.todo : d.read[n] = dispatch[k].read[n]
<1> DEFINE old == dispatch[k]
           rest == old.todo \ {old.cur}
           read == [old.read EXCEPT ![old.cur] = 0]
           next == [NoDispatch EXCEPT !.pc = "send", !.todo = rest, !.read = read]
           d == IF rest = {} THEN NoDispatch ELSE next
<1>1. old \in Dispatches /\ old.cur \in Notifs
  BY DEF IInv, TypeOK, Carried, Dispatches
<1>2. dispatch' = [dispatch EXCEPT ![k] = d]
  BY Zenon DEF Advance
<1>3. NoDispatch \in Dispatches /\ NoDispatch.pc = "idle" /\ NoDispatch.todo = {}
  BY ConstantsAssumption DEF NoDispatch, Dispatches
<1>4. /\ next \in Dispatches
      /\ next.pc = "send" /\ next.todo = rest /\ next.read = read
  <2>1. read \in [Notifs -> 0..(MaxAttempts - 1)]
    BY <1>1, ConstantsAssumption DEF Dispatches
  <2>2. rest \in SUBSET Notifs
    BY <1>1 DEF Dispatches
  <2> HIDE DEF read, rest
  <2> QED BY <1>3, <2>1, <2>2 DEF Dispatches
<1>5. \A n \in rest : next.read[n] = old.read[n]
  BY <1>1, <1>4 DEF Dispatches
<1> HIDE DEF next
<1>6. d \in Dispatches /\ d.pc \in {"idle", "send"} /\ d.todo \subseteq rest
  BY <1>3, <1>4
<1>7. \A n \in d.todo : d.read[n] = old.read[n]
  BY <1>3, <1>4, <1>5
<1> HIDE DEF d
<1> QED BY <1>2, <1>6, <1>7

\* An update that records what happened to the row the dispatch is at.
LEMMA UpdateStep ==
  ASSUME IInv, NEW k \in Ticks, dispatch[k].pc \in {"mark", "count"}, Advance(k),
         NEW r \in Rows, row' = [row EXCEPT ![dispatch[k].cur] = r],
         r.status = "SENT" => mails[dispatch[k].cur] > 0,
         r.attempts <= failures[dispatch[k].cur],
         r.status = "FAILED" => failures[dispatch[k].cur] >= MaxAttempts,
         r.status = "PENDING" => r.attempts < MaxAttempts,
         UNCHANGED <<scheduling, created, mails, failures, overlapped, calls, mishaps>>
  PROVE  IInv'
<1>1. PICK d \in Dispatches :
        /\ dispatch' = [dispatch EXCEPT ![k] = d]
        /\ d.pc \in {"idle", "send"}
        /\ d.todo \subseteq dispatch[k].todo
        /\ \A n \in d.todo : d.read[n] = dispatch[k].read[n]
  BY AdvanceShape
<1>2. r # None
  BY ConstantsAssumption
<1>3. TypeOK'
  BY <1>1 DEF IInv, TypeOK
<1>4. \A n \in Notifs : row[n] # None => row'[n] # None
  BY <1>2 DEF IInv, TypeOK
<1>5. Carried'
  <2>1. \A j \in Ticks : dispatch[j] \in Dispatches
    BY DEF IInv, TypeOK
  <2> SUFFICES ASSUME NEW j \in Ticks
               PROVE  LET e == dispatch'[j]
                      IN /\ \A n \in e.todo : row'[n] # None /\ e.read[n] <= failures'[n]
                         /\ e.pc \in {"mark", "count"} => e.cur \in e.todo
                         /\ e.pc = "mark" => mails'[e.cur] > 0
                         /\ e.pc = "count" => e.read[e.cur] + 1 <= failures'[e.cur]
    BY DEF Carried
  <2>2. \A n \in dispatch[j].todo : row'[n] # None /\ dispatch[j].read[n] <= failures'[n]
    BY <1>4, <2>1 DEF IInv, Carried, Dispatches
  <2>3. CASE j = k
    BY <1>1, <2>2, <2>3 DEF IInv, TypeOK
  <2>4. CASE j # k
    <3>1. dispatch'[j] = dispatch[j]
      BY <1>1, <2>4 DEF IInv, TypeOK
    <3> QED BY <2>2, <3>1 DEF IInv, Carried
  <2> QED BY <2>3, <2>4
<1>6. RecordIsTruthful' /\ PendingIsSelectable'
  <2> SUFFICES ASSUME NEW n \in Notifs, row'[n] # None
               PROVE  /\ row'[n].status = "SENT" => mails[n] > 0
                      /\ row'[n].attempts <= failures[n]
                      /\ row'[n].status = "FAILED" => failures[n] >= MaxAttempts
                      /\ row'[n].status = "PENDING" => row'[n].attempts < MaxAttempts
    BY DEF RecordIsTruthful, PendingIsSelectable
  <2>1. CASE n = dispatch[k].cur
    BY <2>1 DEF IInv, TypeOK
  <2>2. CASE n # dispatch[k].cur
    <3>1. row'[n] = row[n]
      BY <2>2 DEF IInv, TypeOK
    <3> QED BY <3>1 DEF IInv, RecordIsTruthful, PendingIsSelectable
  <2> QED BY <2>1, <2>2
<1> QED BY <1>3, <1>5, <1>6 DEF IInv

\* The update to SENT follows a delivery.
LEMMA MarkStep ==
  ASSUME IInv, NEW k \in Ticks, MarkSent(k)
  PROVE  IInv'
<1> DEFINE cur == dispatch[k].cur
           r == [row[cur] EXCEPT !.status = "SENT"]
<1>1. dispatch[k].pc = "mark" /\ Advance(k) /\ row' = [row EXCEPT ![cur] = r]
  BY DEF MarkSent
<1>2. cur \in Notifs /\ row[cur] # None /\ mails[cur] > 0
  BY <1>1 DEF IInv, TypeOK, Carried, Dispatches
<1>3. row[cur] \in Rows
  BY <1>2 DEF IInv, TypeOK
<1>4. r \in Rows /\ r.status = "SENT" /\ r.attempts = row[cur].attempts
  BY <1>3 DEF Rows, Statuses
<1>5. r.attempts <= failures[cur]
  BY <1>2, <1>4 DEF IInv, RecordIsTruthful
<1>6. UNCHANGED <<scheduling, created, mails, failures, overlapped, calls, mishaps>>
  BY DEF MarkSent, sentVars
<1> HIDE DEF r
<1> QED BY <1>1, <1>2, <1>4, <1>5, <1>6, UpdateStep

\* The catch's update follows an error, one more than there were attempts read.
LEMMA CountStep ==
  ASSUME IInv, NEW k \in Ticks, CountAttempt(k)
  PROVE  IInv'
<1> DEFINE cur == dispatch[k].cur
           next == NextAttempts(k)
           r == [status |-> IF GivenUp(next) THEN "FAILED" ELSE "PENDING", attempts |-> next]
<1>1. dispatch[k].pc = "count" /\ Advance(k) /\ row' = [row EXCEPT ![cur] = r]
  BY DEF CountAttempt
<1>2. cur \in Notifs /\ failures[cur] \in Nat /\ next <= failures[cur]
  BY <1>1 DEF IInv, TypeOK, Carried, Dispatches, NextAttempts
<1>3. next \in 1..MaxAttempts
  BY <1>2, ConstantsAssumption DEF IInv, TypeOK, Dispatches, NextAttempts
<1> HIDE DEF next
<1>4. r \in Rows
  BY <1>3, ConstantsAssumption DEF Rows, Statuses
<1>5. /\ r.attempts = next
      /\ r.status = "FAILED" => next >= MaxAttempts
      /\ r.status = "PENDING" => ~(next >= MaxAttempts)
      /\ r.status # "SENT"
  BY DEF GivenUp
<1>6. UNCHANGED <<scheduling, created, mails, failures, overlapped, calls, mishaps>>
  BY DEF CountAttempt, sentVars
<1> HIDE DEF r
<1>7. r.status = "FAILED" => failures[cur] >= MaxAttempts
  BY <1>2, <1>3, <1>5, ConstantsAssumption
<1>8. r.status = "PENDING" => r.attempts < MaxAttempts
  BY <1>3, <1>5, ConstantsAssumption
<1> QED BY <1>1, <1>2, <1>4, <1>5, <1>6, <1>7, <1>8, UpdateStep

\* The update to SENT fails: one error more, and the catch is next.
LEMMA MarkFailsStep ==
  ASSUME IInv, NEW k \in Ticks, MarkFails(k)
  PROVE  IInv'
<1> DEFINE cur == dispatch[k].cur
<1>1. /\ dispatch[k].pc = "mark"
      /\ failures' = [failures EXCEPT ![cur] = @ + 1]
      /\ dispatch' = [dispatch EXCEPT ![k].pc = "count"]
      /\ mishaps' = mishaps + 1
      /\ UNCHANGED <<scheduling, row, created, mails, overlapped, calls>>
  BY DEF MarkFails, Mishap, tableVars
<1>2. dispatch[k] \in Dispatches /\ cur \in dispatch[k].todo /\ cur \in Notifs
  BY <1>1 DEF IInv, TypeOK, Carried, Dispatches
<1>3. \A n \in Notifs : /\ failures[n] \in Nat /\ failures'[n] \in Nat
                        /\ failures[n] <= failures'[n] /\ mails[n] \in Nat
  BY <1>1 DEF IInv, TypeOK
<1>4. failures'[cur] = failures[cur] + 1
  BY <1>1, <1>2 DEF IInv, TypeOK
<1>5. TypeOK'
  <2>1. dispatch' \in [Ticks -> Dispatches]
    BY <1>1, <1>2 DEF IInv, TypeOK, Dispatches
  <2> HIDE DEF cur
  <2>2. failures' \in [Notifs -> Nat]
    <3>1. failures \in [Notifs -> Nat]
      BY DEF IInv, TypeOK
    <3> QED BY <1>1, <1>2, <3>1
  <2> QED BY <1>1, <2>1, <2>2 DEF IInv, TypeOK
<1>6. Carried'
  <2> SUFFICES ASSUME NEW j \in Ticks
               PROVE  LET d == dispatch'[j]
                      IN /\ \A n \in d.todo : row'[n] # None /\ d.read[n] <= failures'[n]
                         /\ d.pc \in {"mark", "count"} => d.cur \in d.todo
                         /\ d.pc = "mark" => mails'[d.cur] > 0
                         /\ d.pc = "count" => d.read[d.cur] + 1 <= failures'[d.cur]
    BY DEF Carried
  <2>1. dispatch[j] \in Dispatches
    BY DEF IInv, TypeOK
  <2>2. \A n \in Notifs : dispatch[j].read[n] \in Nat
    BY <2>1, ConstantsAssumption DEF Dispatches
  <2>3. \A n \in dispatch[j].todo : n \in Notifs /\ row'[n] # None /\ dispatch[j].read[n] <= failures'[n]
    BY <1>1, <1>3, <2>1, <2>2 DEF IInv, Carried, Dispatches
  <2>4. CASE j = k
    <3>1. /\ dispatch'[j].todo = dispatch[j].todo /\ dispatch'[j].read = dispatch[j].read
          /\ dispatch'[j].pc = "count" /\ dispatch'[j].cur = cur
      BY <1>1, <2>1, <2>4 DEF IInv, TypeOK, Dispatches
    <3>2. dispatch[j].read[cur] <= failures[cur]
      BY <1>2, <2>4 DEF IInv, Carried
    <3> QED BY <1>2, <1>3, <1>4, <2>2, <2>3, <2>4, <3>1, <3>2
  <2>5. CASE j # k
    <3>1. dispatch'[j] = dispatch[j]
      BY <1>1, <2>5 DEF IInv, TypeOK
    <3>2. dispatch[j].pc \in {"mark", "count"} => dispatch[j].cur \in dispatch[j].todo
      BY DEF IInv, Carried
    <3>3. dispatch[j].pc = "mark" => mails'[dispatch[j].cur] > 0
      BY <1>1 DEF IInv, Carried
    <3>4. ASSUME dispatch[j].pc = "count"
          PROVE  dispatch[j].read[dispatch[j].cur] + 1 <= failures'[dispatch[j].cur]
      <4>1. dispatch[j].cur \in Notifs
        BY <2>3, <3>2, <3>4
      <4>2. dispatch[j].read[dispatch[j].cur] + 1 <= failures[dispatch[j].cur]
        BY <3>4 DEF IInv, Carried
      <4> QED BY <1>3, <2>2, <4>1, <4>2
    <3> QED BY <2>3, <3>1, <3>2, <3>3, <3>4
  <2> QED BY <2>4, <2>5
<1> QED BY <1>1, <1>3, <1>5, <1>6, RecordStays DEF IInv

\* A dispatch that stops, or all of them, promises nothing any more.
LEMMA StopStep ==
  ASSUME IInv, Crash \/ \E k \in Ticks : CountFails(k)
  PROVE  IInv'
<1>1. NoDispatch \in Dispatches /\ NoDispatch.pc = "idle" /\ NoDispatch.todo = {}
  BY ConstantsAssumption DEF NoDispatch, Dispatches
<1>2. /\ \A k \in Ticks : dispatch'[k] = NoDispatch \/ dispatch'[k] = dispatch[k]
      /\ dispatch' \in [Ticks -> Dispatches]
      /\ scheduling' \in SUBSET Notifs /\ mishaps' = mishaps + 1
      /\ UNCHANGED <<row, created, mails, failures, overlapped, calls>>
  BY <1>1 DEF Crash, CountFails, Mishap, tableVars, sentVars, IInv, TypeOK
<1>3. TypeOK'
  BY <1>2 DEF IInv, TypeOK
<1>4. Carried'
  BY <1>1, <1>2 DEF IInv, Carried
<1> QED BY <1>2, <1>3, <1>4 DEF IInv, RecordIsTruthful, PendingIsSelectable

LEMMA InvStep == IInv /\ [Next]_vars => IInv'
<1> SUFFICES ASSUME IInv, [Next]_vars PROVE IInv'
  OBVIOUS
<1> USE DEF tableVars, sentVars
<1>1. ASSUME NEW n \in Notifs, Call(n) PROVE IInv'
  BY <1>1 DEF Call, IInv, TypeOK, Carried, RecordIsTruthful, PendingIsSelectable
<1>2. ASSUME NEW n \in Notifs, ScheduleFails(n) PROVE IInv'
  BY <1>2 DEF ScheduleFails, Mishap, IInv, TypeOK, Carried, RecordIsTruthful, PendingIsSelectable
<1>3. ASSUME NEW n \in Notifs, Schedule(n) PROVE IInv'
  BY <1>3, ScheduleStep
<1>4. ASSUME NEW k \in Ticks, DispatchStep(k) PROVE IInv'
  BY <1>4, StartStep, SendStep, MarkStep, CountStep DEF DispatchStep
<1>5. ASSUME NEW k \in Ticks, NEW n \in Notifs, DeliveredUnheard(k, n) PROVE IInv'
  BY <1>5, SendStep
<1>6. ASSUME NEW k \in Ticks, MarkFails(k) PROVE IInv'
  BY <1>6, MarkFailsStep
<1>7. ASSUME NEW k \in Ticks, CountFails(k) PROVE IInv'
  BY <1>7, StopStep
<1>8. CASE Crash
  BY <1>8, StopStep
<1>9. CASE UNCHANGED vars
  BY <1>9 DEF vars, IInv, TypeOK, Carried, RecordIsTruthful, PendingIsSelectable
<1> QED BY <1>1, <1>2, <1>3, <1>4, <1>5, <1>6, <1>7, <1>8, <1>9 DEF Next

LEMMA Invariance == Spec => []IInv
<1> QED BY InvInit, InvStep, PTL DEF Spec

\* The table and the calls under way keep their types; a row's attempts never
\* pass MaxAttempts, however stale the attempts an update is computed from.
THEOREM TypeCorrect == Spec => []TypeOK
<1>1. IInv => TypeOK
  BY DEF IInv
<1> QED BY <1>1, Invariance, PTL

\* A row is SENT only after a delivery, FAILED only after MaxAttempts errors,
\* whichever dispatches overlap and whatever failed or crashed.
THEOREM RecordsAreTruthful == Spec => []RecordIsTruthful
<1>1. IInv => RecordIsTruthful
  BY DEF IInv
<1> QED BY <1>1, Invariance, PTL

\* No PENDING row is out of the reach of the dispatch's query.
THEOREM PendingRowsAreSelectable == Spec => []PendingIsSelectable
<1>1. IInv => PendingIsSelectable
  BY DEF IInv
<1> QED BY <1>1, Invariance, PTL

-----------------------------------------------------------------------------
(* One mail each. As long as no two dispatches were ever under way at once,*)
(* the one there is holds PENDING rows only, and a delivered mail's row is *)
(* SENT or about to be, unless something went wrong.                       *)

Alone == \A j, k \in Ticks : Busy(j) /\ Busy(k) => j = k

HoldsPending == \A k \in Ticks : Busy(k) => \A n \in dispatch[k].todo : row[n].status = "PENDING"

Settled(n) ==
  \/ row[n] # None /\ row[n].status = "SENT"
  \/ \E k \in Ticks : dispatch[k].pc = "mark" /\ dispatch[k].cur = n

MailsExplained ==
  \A n \in Notifs : mails[n] <= mishaps \/ (mails[n] <= 1 + mishaps /\ Settled(n))

Once == ~overlapped => Alone /\ HoldsPending /\ MailsExplained

\* What went wrong explains a mail more.
LEMMA MailsStayExplained ==
  ASSUME TypeOK, TypeOK', MailsExplained, mails' = mails,
         \/ mishaps' = mishaps /\ \A n \in Notifs : Settled(n) => Settled(n)'
         \/ mishaps' = mishaps + 1
  PROVE  MailsExplained'
<1>1. \A n \in Notifs : mails[n] \in Nat
  BY DEF TypeOK
<1>2. mishaps \in Nat
  BY DEF TypeOK
<1> QED BY <1>1, <1>2 DEF MailsExplained

\* No row in the dispatch's hands has been settled.
LEMMA HeldIsUnsettled ==
  ASSUME IInv, Alone, HoldsPending, MailsExplained, NEW k \in Ticks, NEW n \in dispatch[k].todo,
         dispatch[k].pc \in {"send", "count"}
  PROVE  /\ n \in Notifs /\ ~ Settled(n) /\ mails[n] <= mishaps
<1>1. n \in Notifs /\ Busy(k)
  BY DEF IInv, TypeOK, Dispatches, Busy
<1>2. ~ \E j \in Ticks : dispatch[j].pc = "mark"
  BY <1>1 DEF Alone, Busy
<1>3. row[n].status = "PENDING"
  BY <1>1 DEF HoldsPending
<1> QED BY <1>1, <1>2, <1>3 DEF Settled, MailsExplained

\* The steps of what is no dispatch.
LEMMA OnceSchedule ==
  ASSUME IInv, IInv', Once, NEW n \in Notifs, Call(n) \/ ScheduleFails(n) \/ Schedule(n)
  PROVE  Once'
<1> SUFFICES ASSUME ~overlapped PROVE Alone' /\ HoldsPending' /\ MailsExplained'
  BY DEF Once, Call, ScheduleFails, Schedule
<1>1. /\ UNCHANGED <<dispatch, mails>> /\ mishaps' \in {mishaps, mishaps + 1}
      /\ \A m \in Notifs : row[m] # None => row'[m] = row[m]
  BY DEF Call, ScheduleFails, Schedule, Mishap, NewRow, tableVars, sentVars, IInv, TypeOK
<1>2. \A k \in Ticks : \A m \in dispatch[k].todo : m \in Notifs /\ row[m] # None
  BY DEF IInv, TypeOK, Dispatches, Carried
<1>3. Alone' /\ HoldsPending'
  BY <1>1, <1>2 DEF Once, Alone, HoldsPending, Busy
<1>4. \A m \in Notifs : Settled(m) => Settled(m)'
  BY <1>1 DEF Settled
<1> QED BY <1>1, <1>3, <1>4, MailsStayExplained DEF Once, IInv

LEMMA OnceStart ==
  ASSUME IInv, IInv', Once, NEW k \in Ticks, DispatchStart(k)
  PROVE  Once'
<1> SUFFICES ASSUME ~overlapped' PROVE Alone' /\ HoldsPending' /\ MailsExplained'
  BY DEF Once
<1>1. ~overlapped /\ (\A j \in Ticks : ~Busy(j)) /\ UNCHANGED <<row, mails, mishaps>>
  BY DEF DispatchStart, tableVars, sentVars
<1>2. PICK S \in Batches \ {{}} :
        dispatch' = [dispatch EXCEPT ![k] =
          [NoDispatch EXCEPT !.pc = "send", !.todo = S,
             !.read = [n \in Notifs |-> IF n \in S THEN row[n].attempts ELSE 0]]]
  BY DEF DispatchStart
<1>3. /\ \A j \in Ticks : j # k => dispatch'[j] = dispatch[j]
      /\ dispatch'[k].pc = "send" /\ dispatch'[k].todo = S
  BY <1>2 DEF IInv, TypeOK, NoDispatch
<1>4. \A n \in S : row[n].status = "PENDING"
  BY DEF Batches, Selectable
<1>5. Alone' /\ HoldsPending'
  BY <1>1, <1>3, <1>4 DEF Alone, HoldsPending, Busy
<1>6. \A n \in Notifs : Settled(n) => Settled(n)'
  BY <1>1, <1>3 DEF Settled, Busy
<1> QED BY <1>1, <1>5, <1>6, MailsStayExplained DEF Once, IInv

LEMMA OnceSend ==
  ASSUME IInv, IInv', Once, NEW k \in Ticks, NEW n \in Notifs,
         Deliver(k, n) \/ SendFails(k, n) \/ DeliveredUnheard(k, n)
  PROVE  Once'
<1> SUFFICES ASSUME ~overlapped PROVE Alone' /\ HoldsPending' /\ MailsExplained'
  BY DEF Once, Deliver, SendFails, DeliveredUnheard
<1>1. /\ dispatch[k].pc = "send" /\ n \in dispatch[k].todo /\ UNCHANGED row
      /\ \A j \in Ticks : j # k => dispatch'[j] = dispatch[j]
      /\ dispatch'[k].pc \in {"mark", "count"} /\ dispatch'[k].todo = dispatch[k].todo
      /\ dispatch'[k].cur = n
  BY DEF Deliver, SendFails, DeliveredUnheard, Oldest, tableVars, IInv, TypeOK, Dispatches
<1>2. ~ Settled(n) /\ mails[n] <= mishaps
  BY <1>1, HeldIsUnsettled DEF Once
<1>3. Alone' /\ HoldsPending'
  BY <1>1 DEF Once, Alone, HoldsPending, Busy
<1>4. ~ \E j \in Ticks : dispatch[j].pc = "mark"
  BY <1>1 DEF Once, Alone, Busy
<1>5. \A m \in Notifs : Settled(m) => Settled(m)'
  BY <1>1, <1>4 DEF Settled
<1>6. mishaps \in Nat /\ mishaps' \in Nat /\ \A m \in Notifs : mails[m] \in Nat /\ mails'[m] \in Nat
  BY DEF IInv, TypeOK
<1>7. CASE Deliver(k, n)
  <2>1. /\ dispatch'[k].pc = "mark" /\ mishaps' = mishaps /\ mails'[n] = mails[n] + 1
        /\ \A m \in Notifs : m # n => mails'[m] = mails[m]
    BY <1>7 DEF Deliver, IInv, TypeOK, Dispatches
  <2>2. Settled(n)'
    BY <1>1, <2>1 DEF Settled
  <2>3. MailsExplained'
    BY <1>2, <1>5, <1>6, <2>1, <2>2 DEF Once, MailsExplained
  <2> QED BY <1>3, <2>3
<1>8. CASE SendFails(k, n)
  <2>1. UNCHANGED <<mails, mishaps>>
    BY <1>8 DEF SendFails
  <2> QED BY <1>3, <1>5, <2>1, MailsStayExplained DEF Once, IInv
<1>9. CASE DeliveredUnheard(k, n)
  <2>1. /\ mishaps' = mishaps + 1 /\ mails'[n] = mails[n] + 1
        /\ \A m \in Notifs : m # n => mails'[m] = mails[m]
    BY <1>9 DEF DeliveredUnheard, Mishap, IInv, TypeOK
  <2>2. MailsExplained'
    BY <1>2, <1>6, <2>1 DEF Once, MailsExplained
  <2> QED BY <1>3, <2>2
<1> QED BY <1>7, <1>8, <1>9

LEMMA OnceUpdate ==
  ASSUME IInv, IInv', Once, NEW k \in Ticks, MarkSent(k) \/ CountAttempt(k)
  PROVE  Once'
<1> SUFFICES ASSUME ~overlapped PROVE Alone' /\ HoldsPending' /\ MailsExplained'
  BY DEF Once, MarkSent, CountAttempt
<1> DEFINE cur == dispatch[k].cur
<1>1. /\ dispatch[k].pc \in {"mark", "count"} /\ Advance(k) /\ UNCHANGED <<mails, mishaps>>
      /\ cur \in Notifs /\ row[cur] # None /\ cur \in dispatch[k].todo
      /\ \A m \in Notifs : m # cur => row'[m] = row[m]
      /\ dispatch[k].pc = "mark" => row'[cur].status = "SENT" /\ row'[cur] # None
  <2>1. cur \in Notifs /\ row[cur] # None /\ cur \in dispatch[k].todo
    BY DEF MarkSent, CountAttempt, IInv, TypeOK, Dispatches, Carried
  <2>2. dispatch[k].pc = "mark" => row'[cur].status = "SENT" /\ row'[cur] # None
    <3>1. SUFFICES ASSUME dispatch[k].pc = "mark" PROVE row'[cur].status = "SENT" /\ row'[cur] # None
      OBVIOUS
    <3>2. row'[cur] = [row[cur] EXCEPT !.status = "SENT"] /\ row[cur] \in Rows
      BY <2>1, <3>1 DEF MarkSent, CountAttempt, IInv, TypeOK
    <3> QED BY <3>2, ConstantsAssumption DEF Rows, Statuses
  <2> QED BY <2>1, <2>2 DEF MarkSent, CountAttempt, sentVars, IInv, TypeOK
<1>2. PICK d \in Dispatches :
        /\ dispatch' = [dispatch EXCEPT ![k] = d]
        /\ d.pc \in {"idle", "send"}
        /\ d.todo \subseteq dispatch[k].todo \ {cur}
  BY <1>1, AdvanceShape
<1>3. /\ \A j \in Ticks : j # k => dispatch'[j] = dispatch[j] /\ ~Busy(j)
      /\ dispatch'[k] = d /\ Busy(k)
  BY <1>1, <1>2 DEF Once, Alone, Busy, IInv, TypeOK
<1>4. Alone'
  BY <1>3 DEF Alone, Busy
<1>5. HoldsPending'
  <2>1. \A m \in d.todo : m \in Notifs /\ m # cur /\ row[m].status = "PENDING"
    BY <1>2, <1>3 DEF Once, HoldsPending, Dispatches
  <2> QED BY <1>1, <1>3, <2>1 DEF HoldsPending, Busy
<1>6. ASSUME NEW m \in Notifs, Settled(m) PROVE Settled(m)'
  <2>1. CASE m = cur
    <3>1. CASE dispatch[k].pc = "mark"
      BY <1>1, <2>1, <3>1 DEF Settled
    <3>2. CASE dispatch[k].pc = "count"
      BY <1>1, <1>6, <2>1, <3>2, HeldIsUnsettled DEF Once
    <3> QED BY <1>1, <3>1, <3>2
  <2>2. CASE m # cur
    BY <1>1, <1>3, <1>6, <2>2 DEF Settled, Busy
  <2> QED BY <2>1, <2>2
<1> QED BY <1>1, <1>4, <1>5, <1>6, MailsStayExplained DEF Once, IInv

LEMMA OnceMishap ==
  ASSUME IInv, IInv', Once, Crash \/ \E k \in Ticks : MarkFails(k) \/ CountFails(k)
  PROVE  Once'
<1> SUFFICES ASSUME ~overlapped PROVE Alone' /\ HoldsPending' /\ MailsExplained'
  BY DEF Once, Crash, MarkFails, CountFails
<1>1. /\ mishaps' = mishaps + 1 /\ UNCHANGED <<row, mails>>
  BY DEF Crash, MarkFails, CountFails, Mishap, tableVars, sentVars
<1>2. \A j \in Ticks : /\ Busy(j)' => Busy(j)
                       /\ Busy(j)' => dispatch'[j].todo = dispatch[j].todo
  BY DEF Crash, MarkFails, CountFails, Busy, NoDispatch, IInv, TypeOK, Dispatches
<1>3. Alone' /\ HoldsPending'
  BY <1>1, <1>2 DEF Once, Alone, HoldsPending
<1> QED BY <1>1, <1>3, MailsStayExplained DEF Once, IInv

LEMMA OnceStep == IInv /\ IInv' /\ Once /\ [Next]_vars => Once'
<1> SUFFICES ASSUME IInv, IInv', Once, [Next]_vars PROVE Once'
  OBVIOUS
<1>1. CASE UNCHANGED vars
  BY <1>1 DEF vars, tableVars, sentVars, Once, Alone, HoldsPending, MailsExplained, Settled, Busy
<1> QED BY <1>1, OnceSchedule, OnceStart, OnceSend, OnceUpdate, OnceMishap DEF Next, DispatchStep

\* A mail is delivered once, and once more for each lost answer, failed update
\* or crash, as long as dispatches do not overlap, for any batch and any number
\* of callbacks: what a dispatch read when it started is still to be sent when
\* its turn comes.
THEOREM EachIsMailedOnce == Spec => []MailedOnce
<1>1. Init => Once
  <2>1. Init => \A k \in Ticks : dispatch[k].pc = "idle"
    BY DEF Init, NoDispatch
  <2>2. Init => \A n \in Notifs : mails[n] <= mishaps
    BY DEF Init
  <2> QED BY <2>1, <2>2 DEF Once, Alone, HoldsPending, MailsExplained, Busy
<1>2. IInv /\ IInv' /\ Once /\ [Next]_vars => Once'
  BY OnceStep
<1>3. IInv /\ Once => MailedOnce
  BY DEF IInv, TypeOK, Once, MailsExplained, MailedOnce
<1> QED BY <1>1, <1>2, <1>3, Invariance, PTL DEF Spec

=============================================================================
