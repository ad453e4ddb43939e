---------------------------- MODULE Notifications ----------------------------
(***************************************************************************)
(* The notification pipeline of the worker (apps/worker/src/notifications):*)
(* scheduleNotification, fired and forgotten by the handlers of            *)
(* PaymentLifecycle, leaves a PENDING row; the timer callback dispatches   *)
(* the oldest PENDING rows by mail, one after the other, and records what  *)
(* became of each in a later update.                                       *)
(*                                                                         *)
(* setInterval does not wait for the previous callback, so dispatches may  *)
(* overlap. Each works on the rows it read when it started.                *)
(***************************************************************************)
EXTENDS Integers, FiniteSets

CONSTANTS
  Notifs,        \* the (payment, event) pairs: the key of payment_notifications
  Ticks,         \* timer callbacks that may be under way at once
  BatchSize, MaxAttempts,
  None,
  MaxCalls, MaxMishaps   \* bounds

\* enum payment_notification_status, and a row's columns.
Statuses == {"PENDING", "SENT", "FAILED"}
Rows == [status : Statuses, attempts : 0..MaxAttempts]

ASSUME ConstantsAssumption ==
  /\ IsFiniteSet(Notifs)
  /\ BatchSize \in Nat \ {0}
  /\ MaxAttempts \in Nat \ {0}
  /\ None \notin Notifs \cup Rows

VARIABLES
  scheduling,    \* scheduleNotification calls under way
  row,           \* table payment_notifications: status and attempts, or None
  created,       \* the order in which the rows were created
  dispatch,      \* sendPendingNotifications: the call of each callback
  mails,         \* how often each mail was delivered
  failures,      \* how often the attempt to send it ended in an error
  overlapped,    \* two dispatches were under way at once
  calls, mishaps

tableVars == <<row, created>>
sentVars == <<mails, failures>>
vars == <<scheduling, tableVars, dispatch, sentVars, overlapped, calls, mishaps>>

\* todo: the rows still to be sent; read: the attempts each was read with;
\* cur: the one being sent.
NoDispatch == [pc |-> "idle", todo |-> {}, read |-> [n \in Notifs |-> 0], cur |-> None]

Busy(k) == dispatch[k].pc # "idle"

\* The batch is gone through from the oldest row to the newest.
Oldest(S) == {n \in S : \A m \in S : created[n] <= created[m]}

Init ==
  /\ scheduling = {}
  /\ row = [n \in Notifs |-> None]
  /\ created = [n \in Notifs |-> 0]
  /\ dispatch = [k \in Ticks |-> NoDispatch]
  /\ mails = [n \in Notifs |-> 0]
  /\ failures = [n \in Notifs |-> 0]
  /\ overlapped = FALSE
  /\ calls = 0 /\ mishaps = 0

Mishap == mishaps < MaxMishaps /\ mishaps' = mishaps + 1

-----------------------------------------------------------------------------
(* scheduleNotification *)

\* A handler calls it after its transition, and goes on. The same event may be
\* called for twice: two expiry jobs that overlap both report what they expired.
Call(n) ==
  /\ calls < MaxCalls
  /\ calls' = calls + 1
  /\ scheduling' = scheduling \cup {n}
  /\ UNCHANGED <<tableVars, dispatch, sentVars, overlapped, mishaps>>

Existing == {n \in Notifs : row[n] # None}

\* Mutant: the upsert starts the notification again.
NewRowAlways(n) == TRUE

\* The upsert does nothing to a row that exists.
NewRow(n) == row[n] = None

Schedule(n) ==
  /\ n \in scheduling
  /\ scheduling' = scheduling \ {n}
  /\ IF NewRow(n)
     THEN /\ row' = [row EXCEPT ![n] = [status |-> "PENDING", attempts |-> 0]]
          /\ created' = IF row[n] = None THEN [created EXCEPT ![n] = Cardinality(Existing)]
                        ELSE created
     ELSE UNCHANGED tableVars
  /\ UNCHANGED <<dispatch, sentVars, overlapped, calls, mishaps>>

\* The recipient's query or the upsert fails: logged, and forgotten.
ScheduleFails(n) ==
  /\ n \in scheduling
  /\ Mishap
  /\ scheduling' = scheduling \ {n}
  /\ UNCHANGED <<tableVars, dispatch, sentVars, overlapped, calls>>

-----------------------------------------------------------------------------
(* sendPendingNotifications *)

Selectable(n) == row[n] # None /\ row[n].status = "PENDING" /\ row[n].attempts < MaxAttempts

\* The oldest selectable rows, BatchSize of them if there are as many.
Batches ==
  LET pending == {n \in Notifs : Selectable(n)}
  IN {S \in SUBSET pending :
        /\ \A n \in S, m \in pending \ S : created[n] < created[m]
        /\ Cardinality(S) <= BatchSize
        /\ Cardinality(S) < BatchSize => S = pending}

\* A callback gets to its dispatch and finds rows.
DispatchStart(k) ==
  /\ ~Busy(k)
  /\ \E S \in Batches \ {{}} :
       dispatch' = [dispatch EXCEPT ![k] =
         [NoDispatch EXCEPT !.pc = "send", !.todo = S,
            !.read = [n \in Notifs |-> IF n \in S THEN row[n].attempts ELSE 0]]]
  /\ overlapped' = (overlapped \/ \E j \in Ticks : Busy(j))
  /\ UNCHANGED <<scheduling, tableVars, sentVars, calls, mishaps>>

\* sendEmail: the server accepts the mail ...
Deliver(k, n) ==
  /\ dispatch[k].pc = "send" /\ n \in Oldest(dispatch[k].todo)
  /\ mails' = [mails EXCEPT ![n] = @ + 1]
  /\ dispatch' = [dispatch EXCEPT ![k].pc = "mark", ![k].cur = n]
  /\ UNCHANGED <<scheduling, tableVars, failures, overlapped, calls, mishaps>>

\* ... or it does not ...
SendFails(k, n) ==
  /\ dispatch[k].pc = "send" /\ n \in Oldest(dispatch[k].todo)
  /\ failures' = [failures EXCEPT ![n] = @ + 1]
  /\ dispatch' = [dispatch EXCEPT ![k].pc = "count", ![k].cur = n]
  /\ UNCHANGED <<scheduling, tableVars, mails, overlapped, calls, mishaps>>

\* ... or it does, and its answer is lost.
DeliveredUnheard(k, n) ==
  /\ dispatch[k].pc = "send" /\ n \in Oldest(dispatch[k].todo)
  /\ Mishap
  /\ mails' = [mails EXCEPT ![n] = @ + 1]
  /\ failures' = [failures EXCEPT ![n] = @ + 1]
  /\ dispatch' = [dispatch EXCEPT ![k].pc = "count", ![k].cur = n]
  /\ UNCHANGED <<scheduling, tableVars, overlapped, calls>>

\* On to the next row of the batch.
Advance(k) ==
  LET d == dispatch[k]
      rest == d.todo \ {d.cur}
  IN dispatch' = [dispatch EXCEPT ![k] =
       IF rest = {} THEN NoDispatch
       ELSE [NoDispatch EXCEPT !.pc = "send", !.todo = rest, !.read = [d.read EXCEPT ![d.cur] = 0]]]

\* The update to SENT.
MarkSent(k) ==
  /\ dispatch[k].pc = "mark"
  /\ row' = [row EXCEPT ![dispatch[k].cur].status = "SENT"]
  /\ Advance(k)
  /\ UNCHANGED <<scheduling, created, sentVars, overlapped, calls, mishaps>>

\* It fails: the catch counts an attempt although the mail is out.
MarkFails(k) ==
  /\ dispatch[k].pc = "mark"
  /\ Mishap
  /\ failures' = [failures EXCEPT ![dispatch[k].cur] = @ + 1]
  /\ dispatch' = [dispatch EXCEPT ![k].pc = "count"]
  /\ UNCHANGED <<scheduling, tableVars, mails, overlapped, calls>>

\* Mutant: one attempt too many, which the query never selects.
GivenUpTooLate(attempts) == attempts > MaxAttempts

\* Mutant: given up one attempt early.
GivenUpTooEarly(attempts) == attempts >= MaxAttempts - 1

GivenUp(attempts) == attempts >= MaxAttempts

\* Mutant: one attempt more than the row has by now.
NextAttemptsOfNow(k) == row[dispatch[k].cur].attempts + 1

\* One attempt more than the row had when it was read.
NextAttempts(k) == dispatch[k].read[dispatch[k].cur] + 1

\* The catch's update.
CountAttempt(k) ==
  /\ dispatch[k].pc = "count"
  /\ row' = [row EXCEPT ![dispatch[k].cur] =
               [status |-> IF GivenUp(NextAttempts(k)) THEN "FAILED" ELSE "PENDING",
                attempts |-> NextAttempts(k)]]
  /\ Advance(k)
  /\ UNCHANGED <<scheduling, created, sentVars, overlapped, calls, mishaps>>

\* It fails as well: the rest of the batch waits for the next dispatch.
CountFails(k) ==
  /\ dispatch[k].pc = "count"
  /\ Mishap
  /\ dispatch' = [dispatch EXCEPT ![k] = NoDispatch]
  /\ UNCHANGED <<scheduling, tableVars, sentVars, overlapped, calls>>

\* The process dies: calls and dispatches under way are gone.
Crash ==
  /\ Mishap
  /\ scheduling' = {}
  /\ dispatch' = [k \in Ticks |-> NoDispatch]
  /\ UNCHANGED <<tableVars, sentVars, overlapped, calls>>

-----------------------------------------------------------------------------

DispatchStep(k) ==
  \/ DispatchStart(k)
  \/ \E n \in Notifs : Deliver(k, n) \/ SendFails(k, n)
  \/ MarkSent(k) \/ CountAttempt(k)

Next ==
  \/ \E n \in Notifs : Call(n) \/ Schedule(n) \/ ScheduleFails(n)
  \/ \E k \in Ticks :
       \/ DispatchStep(k)
       \/ \E n \in Notifs : DeliveredUnheard(k, n)
       \/ MarkFails(k) \/ CountFails(k)
  \/ Crash

Spec == Init /\ [][Next]_vars

\* The timer fires for ever and the callbacks run; nothing is assumed of the
\* mail server, nor of the handlers that call.
Fairness == \A k \in Ticks : WF_vars(DispatchStep(k))

FairSpec == Spec /\ Fairness

-----------------------------------------------------------------------------
(* Properties *)

Dispatches == [pc : {"idle", "send", "mark", "count"}, todo : SUBSET Notifs,
               read : [Notifs -> 0..(MaxAttempts - 1)], cur : Notifs \cup {None}]

TypeOK ==
  /\ scheduling \subseteq Notifs
  /\ row \in [Notifs -> Rows \cup {None}]
  /\ created \in [Notifs -> Nat]
  /\ dispatch \in [Ticks -> Dispatches]
  /\ mails \in [Notifs -> Nat] /\ failures \in [Notifs -> Nat]
  /\ overlapped \in BOOLEAN /\ calls \in Nat /\ mishaps \in Nat

\* What is recorded happened: a SENT notification was delivered, and one was
\* given up only after MaxAttempts errors of its own, however stale the attempts
\* an overlapping dispatch writes back.
RecordIsTruthful ==
  \A n \in Notifs :
    row[n] # None =>
      /\ row[n].status = "SENT" => mails[n] > 0
      /\ row[n].attempts <= failures[n]
      /\ row[n].status = "FAILED" => failures[n] >= MaxAttempts

\* No row is left PENDING with its attempts used up, where no dispatch selects it.
PendingIsSelectable ==
  \A n \in Notifs : row[n] # None /\ row[n].status = "PENDING" => row[n].attempts < MaxAttempts

\* As long as dispatches do not overlap, a mail is delivered once, and once more
\* for each lost answer, failed update or crash.
MailedOnce == ~overlapped => \A n \in Notifs : mails[n] <= 1 + mishaps

\* No notification waits for ever, behind others or in overlapping dispatches:
\* in the end it is sent or given up, for good.
EachIsSettled ==
  \A n \in Notifs :
    row[n] # None ~> [](row[n] # None /\ row[n].status \in {"SENT", "FAILED"})

=============================================================================
