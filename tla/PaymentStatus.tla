---------------------------- MODULE PaymentStatus ----------------------------
(***************************************************************************)
(* The payment_status enum, the status sets the routes and the worker      *)
(* query by, and the status the API shows for a row (computeEffectiveStatus*)
(* and its inlined copies) with the WHERE clause that filters by it.       *)
(*                                                                         *)
(* Times are natural numbers; a null btc_expires_at is NoDeadline.         *)
(***************************************************************************)
EXTENDS Naturals

CONSTANT NoDeadline

ASSUME NoDeadlineAssumption == NoDeadline \notin Nat

\* enum payment_status
PaymentStatuses == {"PENDING", "AWAITING_PAYMENT", "SEEN_IN_MEMPOOL",
                    "CONFIRMING", "CONFIRMED", "EXPIRED", "FAILED"}

\* ACTIVE_STATUSES: the live part of a payment's lifecycle
ActiveStatuses == {"AWAITING_PAYMENT", "SEEN_IN_MEMPOOL", "CONFIRMING"}

\* The statuses of a payment whose threshold was reached and whose address
\* the worker goes on watching for overpayments.
PostThreshold == {"SEEN_IN_MEMPOOL", "CONFIRMING"}

Deadlines == Nat \cup {NoDeadline}

\* btc_expires_at <= now and btc_expires_at > now, as the routes and the SQL
\* read them: a null deadline satisfies neither.
Due(deadline, now) == deadline # NoDeadline /\ deadline <= now
Open(deadline, now) == deadline # NoDeadline /\ deadline > now

\* What the API shows for a row: EXPIRED as soon as the clock says so, even
\* before the worker's sweep, and for every active status.
EffectiveStatus(status, deadline, now) ==
  IF Due(deadline, now) /\ status \in ActiveStatuses THEN "EXPIRED" ELSE status

\* Mutant: EXPIRED selects only what the worker has swept.
MatchesStatusSwept(s, status, deadline, now) ==
  status = s /\ (s \in ActiveStatuses => deadline = NoDeadline \/ Open(deadline, now))

\* The rows one requested status contributes to buildStatusWhereClause's OR.
MatchesStatus(s, status, deadline, now) ==
  \/ /\ s \in ActiveStatuses
     /\ status = s
     /\ deadline = NoDeadline \/ Open(deadline, now)
  \/ /\ s = "EXPIRED"
     /\ \/ status = "EXPIRED"
        \/ status \in ActiveStatuses /\ Due(deadline, now)
  \/ /\ s \notin ActiveStatuses \cup {"EXPIRED"}
     /\ status = s

StatusWhere(wanted, status, deadline, now) ==
  \E s \in wanted : MatchesStatus(s, status, deadline, now)

=============================================================================
