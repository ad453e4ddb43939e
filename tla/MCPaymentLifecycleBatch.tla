---------------------- MODULE MCPaymentLifecycleBatch ----------------------
(***************************************************************************)
(* Two invoices, p1 for 2 satoshis and p2 for 1, and two ways to be paid:  *)
(*  - in parts: t1 pays one satoshi of p1 and t3 two. In the order t1, t3  *)
(*    the two rows complete p1 together; in the order t3, t1 the first one *)
(*    does and the second is an overpayment. Three blocks, or one and the  *)
(*    deadline passes; no mishaps.                                         *)
(*  - in one batch: t2 pays p1 and, by another output, p2, so that one     *)
(*    message has two addresses to go through. One block, one mishap.      *)
(***************************************************************************)
EXTENDS PaymentLifecycle

CONSTANTS p1, p2, t1, t2, t3, o1, o2, o3, o4

BatchPayments == {p1, p2}
BatchTxids == {t1, t2, t3}
BatchOutputs == {o1, o2, o3, o4}
BatchTxOf == [o \in BatchOutputs |-> IF o = o1 THEN t1 ELSE IF o = o4 THEN t3 ELSE t2]
BatchPaidTo == [o \in BatchOutputs |-> IF o = o3 THEN p2 ELSE p1]
BatchSats == [o \in BatchOutputs |-> IF o \in {o2, o4} THEN 2 ELSE 1]
BatchExpected == [p \in BatchPayments |-> IF p = p1 THEN 2 ELSE 1]

InParts ==
  /\ published \subseteq {t1, t3} /\ status[p2] = Absent
  /\ Mishaps = 0
  /\ now = MaxTime => mined <= 1
InOneBatch == published \subseteq {t2} /\ mined <= 1

\* The customers and miners keep to one of the two.
BatchNext == Next /\ (InParts \/ InOneBatch)'

BatchSpec == Init /\ [][BatchNext]_vars

=============================================================================
