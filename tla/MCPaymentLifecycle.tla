------------------------- MODULE MCPaymentLifecycle -------------------------
(* A small world for PaymentLifecycle: one invoice, paid by one transaction. *)
EXTENDS PaymentLifecycle

CONSTANTS p1, t1, o1

SinglePayments == {p1}
SingleTxids == {t1}
SingleOutputs == {o1}
SingleTxOf == [o \in SingleOutputs |-> t1]
SinglePaidTo == [o \in SingleOutputs |-> p1]
SingleSats == [o \in SingleOutputs |-> 1]
SingleExpected == [p \in SinglePayments |-> 1]

=============================================================================
