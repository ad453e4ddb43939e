------------------------- MODULE InvoiceStartProofs -------------------------
(***************************************************************************)
(* For any number of concurrent requests, retries, failures and restarts:  *)
(* the advisory lock excludes, and one window of the rate lock never gives *)
(* a payment link two payable invoices.                                    *)
(***************************************************************************)
EXTENDS InvoiceStart, FiniteSetTheorems, TLAPS

\* Who is past the lock holds it, and nobody else of the window does.
Exclusion ==
  /\ \A r \in Requests : r \in holders <=> req[r].pc \in {"recheck", "create"}
  /\ \A h, r \in holders : Window(req[r].t) = Window(req[h].t) => r = h

\* An invoice is the last thing a request does; the worker expires only what is due.
InvoicesAreFinal ==
  \A r \in Requests :
    /\ req[r].t <= now
    /\ invoice[r] # None =>
         /\ req[r].pc = "done"
         /\ invoice[r].status = "EXPIRED" => invoice[r].expires <= now

\* Between the second look and the commit, the window has no payable invoice.
RecheckHolds ==
  \A r, i \in Requests :
    req[r].pc = "create" /\ Payable(i) => Window(req[i].t) # Window(req[r].t)

IInv == TypeOK /\ Exclusion /\ InvoicesAreFinal /\ RecheckHolds /\ OnePayablePerWindow

\* What a step may do to keep the last two conjuncts: no request enters "create",
\* no window changes under an invoice, and nothing becomes payable.
LEMMA Quiet ==
  ASSUME IInv,
         \A r \in Requests : req'[r].pc = "create" => req[r].pc = "create" /\ req'[r].t = req[r].t,
         \A i \in Requests : Payable(i)' => Payable(i) /\ req'[i].t = req[i].t
  PROVE  RecheckHolds' /\ OnePayablePerWindow'
BY DEF IInv, RecheckHolds, OnePayablePerWindow

\* Nothing becomes payable when neither the invoices nor the clock change.
LEMMA SamePayable ==
  ASSUME UNCHANGED <<invoice, now>>
  PROVE  \A i : Payable(i)' = Payable(i)
BY DEF Payable, ActiveInvoices

LEMMA InvInit == Init => IInv
BY ConstantsAssumption
DEF Init, IInv, TypeOK, Exclusion, InvoicesAreFinal, RecheckHolds, OnePayablePerWindow,
    Payable, ActiveInvoices, Idle, ReqStates

-----------------------------------------------------------------------------

\* A request moves on, or is answered, without touching the table or the locks.
LEMMA RequestStep ==
  ASSUME IInv, NEW r \in Requests, UNCHANGED <<invoice, holders, now, faults>>,
         req[r].pc \notin {"recheck", "create", "done"},
         \/ \E pc \in {"find", "rate", "lock"} : req' = [req EXCEPT ![r].pc = pc]
         \/ req' = [req EXCEPT ![r].pc = "find", ![r].t = now]
         \/ \E a \in Requests \cup {None} : Answered(r, a)
  PROVE  IInv'
<1>1. \A q \in Requests : q # r => req'[q] = req[q]
  BY DEF Answered, IInv, TypeOK
<1>2. /\ req'[r].pc \in {"find", "rate", "lock", "done"}
      /\ req'[r].t \in {req[r].t, now}
      /\ req' \in [Requests -> ReqStates]
  BY ConstantsAssumption DEF Answered, IInv, TypeOK, ReqStates
<1>3. TypeOK'
  BY <1>2 DEF IInv, TypeOK
<1>4. Exclusion'
  BY <1>1, <1>2 DEF IInv, Exclusion, TypeOK
<1>5. invoice[r] = None
  BY DEF IInv, InvoicesAreFinal
<1>6. InvoicesAreFinal'
  BY <1>1, <1>2, <1>5 DEF IInv, InvoicesAreFinal, TypeOK
<1>7. \A i \in Requests : Payable(i)' => Payable(i) /\ req'[i].t = req[i].t
  BY <1>1, <1>5, SamePayable DEF Payable, ActiveInvoices
<1>8. \A q \in Requests : req'[q].pc = "create" => req[q].pc = "create" /\ req'[q].t = req[q].t
  BY <1>1, <1>2
<1> QED BY <1>3, <1>4, <1>6, <1>7, <1>8, Quiet DEF IInv

\* A transaction ends without an invoice: found one, failed, or was retried.
LEMMA TransactionEnds ==
  ASSUME IInv, NEW r \in Requests, UNCHANGED <<invoice, now>>, faults' \in Nat,
         Release(r), InTransaction(r),
         \/ \E a \in Requests \cup {None} : Answered(r, a)
         \/ req[r].attempt < MaxRetries /\ req' = [req EXCEPT ![r].pc = "lock", ![r].attempt = @ + 1]
  PROVE  IInv'
<1>1. \A q \in Requests : q # r => req'[q] = req[q]
  BY DEF Answered, IInv, TypeOK
<1>2. /\ req'[r].pc \in {"lock", "done"}
      /\ req'[r].t = req[r].t
      /\ req' \in [Requests -> ReqStates]
  BY ConstantsAssumption DEF Answered, IInv, TypeOK, ReqStates
<1>3. TypeOK'
  BY <1>2 DEF IInv, TypeOK, Release
<1>4. Exclusion'
  BY <1>1, <1>2 DEF IInv, Exclusion, TypeOK, Release
<1>5. invoice[r] = None
  BY DEF IInv, InvoicesAreFinal, InTransaction
<1>6. InvoicesAreFinal'
  BY <1>1, <1>2, <1>5 DEF IInv, InvoicesAreFinal, TypeOK
<1>7. \A i \in Requests : Payable(i)' => Payable(i) /\ req'[i].t = req[i].t
  BY <1>1, <1>2, SamePayable
<1>8. \A q \in Requests : req'[q].pc = "create" => req[q].pc = "create" /\ req'[q].t = req[q].t
  BY <1>1, <1>2
<1> QED BY <1>3, <1>4, <1>6, <1>7, <1>8, Quiet DEF IInv

\* The invoice is committed and the lock released, whether the payer hears of it or not.
LEMMA Commit ==
  ASSUME IInv, NEW r \in Requests, NEW a \in Requests \cup {None},
         req[r].pc = "create", invoice' = [invoice EXCEPT ![r] = NewInvoice(r)],
         Release(r), Answered(r, a), now' = now, faults' \in Nat
  PROVE  IInv'
<1>1. \A q \in Requests : q # r => req'[q] = req[q] /\ invoice'[q] = invoice[q]
  BY DEF Answered, IInv, TypeOK
<1>2. /\ req'[r].pc = "done" /\ req'[r].t = req[r].t
      /\ req' \in [Requests -> ReqStates]
  <2>1. req[r] \in ReqStates /\ 1 \in 1..MaxRetries
    BY ConstantsAssumption DEF IInv, TypeOK
  <2>2. [req[r] EXCEPT !.pc = "done", !.attempt = 1, !.answer = a] \in ReqStates
    BY <2>1 DEF ReqStates
  <2>3. req' = [req EXCEPT ![r] = [req[r] EXCEPT !.pc = "done", !.attempt = 1, !.answer = a]]
    BY DEF Answered, IInv, TypeOK, ReqStates
  <2> QED BY <2>1, <2>2, <2>3 DEF IInv, TypeOK, ReqStates
<1>3. NewInvoice(r) \in InvoiceStates /\ NewInvoice(r).status = "AWAITING_PAYMENT"
  BY ConstantsAssumption DEF NewInvoice, InvoiceStates, PaymentStatuses, IInv, TypeOK, ReqStates
<1>4. invoice'[r] = NewInvoice(r)
  BY DEF IInv, TypeOK
<1>5. TypeOK'
  BY <1>2, <1>3 DEF IInv, TypeOK, Release
<1>6. Exclusion'
  BY <1>1, <1>2 DEF IInv, Exclusion, TypeOK, Release
<1>7. InvoicesAreFinal'
  BY <1>1, <1>2, <1>3, <1>4 DEF IInv, InvoicesAreFinal, TypeOK
<1>8. \A i \in Requests : i # r => (Payable(i)' <=> Payable(i))
  BY <1>1 DEF Payable, ActiveInvoices
<1>9. \A q \in Requests : q # r /\ req[q].pc = "create" => Window(req[q].t) # Window(req[r].t)
  BY DEF IInv, Exclusion
<1>10. RecheckHolds'
  BY <1>1, <1>2, <1>8, <1>9 DEF IInv, RecheckHolds
<1>11. OnePayablePerWindow'
  BY <1>1, <1>2, <1>8 DEF IInv, RecheckHolds, OnePayablePerWindow
<1> QED BY <1>5, <1>6, <1>7, <1>10, <1>11 DEF IInv

LEMMA InvStep == IInv /\ [Next]_vars => IInv'
<1> SUFFICES ASSUME IInv, [Next]_vars PROVE IInv'
  OBVIOUS
<1>1. CASE AdvanceClock
  <2>1. TypeOK' /\ Exclusion' /\ InvoicesAreFinal'
    BY <1>1 DEF AdvanceClock, IInv, TypeOK, Exclusion, InvoicesAreFinal, InvoiceStates, ReqStates
  <2>2. \A i \in Requests : Payable(i)' => Payable(i) /\ req'[i].t = req[i].t
    BY <1>1 DEF AdvanceClock, Payable, ActiveInvoices, IInv, TypeOK, InvoiceStates
  <2> QED BY <1>1, <2>1, <2>2, Quiet DEF AdvanceClock, IInv
<1>2. CASE Restart
  <2>1. \A r \in Requests :
          /\ req'[r].t = req[r].t
          /\ req'[r].pc \in {"new", "done"} /\ (req[r].pc = "done" => req'[r].pc = "done")
    BY <1>2 DEF Restart, IInv, TypeOK, ReqStates
  <2>2. req' \in [Requests -> ReqStates]
    <3>1. \A r \in Requests : req[r] \in ReqStates /\ 1 \in 1..MaxRetries
      BY ConstantsAssumption DEF IInv, TypeOK
    <3>2. \A r \in Requests : [req[r] EXCEPT !.pc = "done", !.attempt = 1] \in ReqStates
      BY <3>1 DEF ReqStates
    <3> QED BY <1>2, <3>1, <3>2 DEF Restart
  <2>3. TypeOK' /\ Exclusion' /\ InvoicesAreFinal'
    <3>1. TypeOK'
      <4>1. holders' = {} /\ faults' = faults + 1 /\ UNCHANGED <<invoice, now>>
        BY <1>2 DEF Restart
      <4> QED BY <2>2, <4>1 DEF IInv, TypeOK
    <3>2. Exclusion'
      BY <1>2, <2>1 DEF Restart, Exclusion
    <3>3. InvoicesAreFinal'
      BY <1>2, <2>1 DEF Restart, IInv, InvoicesAreFinal
    <3> QED BY <3>1, <3>2, <3>3
  <2>4. \A i \in Requests : Payable(i)' => Payable(i) /\ req'[i].t = req[i].t
    BY <1>2, <2>1, SamePayable DEF Restart
  <2> QED BY <2>1, <2>3, <2>4, Quiet DEF IInv
<1>3. ASSUME NEW i \in Requests, WorkerMoves(i) PROVE IInv'
  <2>1. PICK next \in PaymentStatuses :
          /\ \/ next # "EXPIRED" /\ invoice[i].status \in ActiveStatuses
             \/ Due(invoice[i].expires, now)
             \/ invoice[i].status = "EXPIRED"
          /\ next = "EXPIRED" => Due(invoice[i].expires, now)
          /\ invoice' = [invoice EXCEPT ![i].status = next]
    BY <1>3 DEF WorkerMoves, ActiveStatuses, PostThreshold
  <2>2. /\ invoice[i] \in InvoiceStates /\ req' = req /\ now' = now /\ holders' = holders
        /\ faults' = faults
    BY <1>3 DEF WorkerMoves, IInv, TypeOK
  <2>3. /\ invoice'[i] \in InvoiceStates /\ invoice'[i].expires = invoice[i].expires
        /\ invoice'[i].status = next
        /\ \A j \in Requests : j # i => invoice'[j] = invoice[j]
        /\ invoice' \in [Requests -> InvoiceStates \cup {None}]
    BY <2>1, <2>2 DEF IInv, TypeOK, InvoiceStates
  <2>4. TypeOK' /\ Exclusion'
    BY <2>2, <2>3 DEF IInv, TypeOK, Exclusion
  <2>5. InvoicesAreFinal'
    BY <1>3, <2>1, <2>2, <2>3 DEF IInv, InvoicesAreFinal, WorkerMoves, Due
  <2>6. Payable(i)' => Payable(i)
    <3>1. CASE invoice[i].status \in ActiveStatuses
      BY <1>3, <2>2, <2>3, <3>1 DEF Payable, ActiveInvoices, WorkerMoves
    <3>2. CASE invoice[i].expires <= now
      BY <2>2, <2>3, <3>2 DEF Payable, ActiveInvoices, IInv, TypeOK, InvoiceStates
    <3>3. CASE invoice[i].status = "EXPIRED"
      BY <1>3, <3>2, <3>3 DEF IInv, InvoicesAreFinal, WorkerMoves
    <3> QED BY <2>1, <3>1, <3>2, <3>3 DEF Due
  <2>7. \A j \in Requests : Payable(j)' => Payable(j) /\ req'[j].t = req[j].t
    BY <2>2, <2>3, <2>6 DEF Payable, ActiveInvoices
  <2> QED BY <2>2, <2>4, <2>5, <2>7, Quiet DEF IInv
<1>4. ASSUME NEW r \in Requests, Arrive(r) \/ Refuse(r) \/ FindActive(r) \/ GetRateAndAddress(r)
      PROVE IInv'
  <2>1. /\ UNCHANGED <<invoice, holders, now, faults>>
        /\ req[r].pc \notin {"recheck", "create", "done"}
        /\ \/ \E pc \in {"find", "rate", "lock"} : req' = [req EXCEPT ![r].pc = pc]
           \/ req' = [req EXCEPT ![r].pc = "find", ![r].t = now]
           \/ \E a \in Requests \cup {None} : Answered(r, a)
    BY <1>4 DEF Arrive, Refuse, FindActive, GetRateAndAddress, Newest, ActiveInvoices
  <2> QED BY <2>1, RequestStep
<1>5. ASSUME NEW r \in Requests, TakeLock(r) PROVE IInv'
  <2>1. /\ req'[r].pc = "recheck" /\ req'[r].t = req[r].t
        /\ \A q \in Requests : q # r => req'[q] = req[q]
        /\ req' \in [Requests -> ReqStates]
        /\ holders' = holders \cup {r} /\ UNCHANGED <<invoice, now, faults>>
    BY <1>5 DEF TakeLock, IInv, TypeOK, ReqStates
  <2>2. invoice[r] = None
    BY <1>5 DEF TakeLock, IInv, InvoicesAreFinal
  <2>3. TypeOK' /\ InvoicesAreFinal'
    BY <2>1, <2>2 DEF IInv, TypeOK, InvoicesAreFinal
  <2>4. \A h \in holders : Window(req[h].t) # Window(req[r].t)
    BY <1>5 DEF TakeLock, WindowFree
  <2>5. Exclusion'
    BY <2>1, <2>4 DEF IInv, Exclusion, TypeOK
  <2>6. \A i \in Requests : Payable(i)' => Payable(i) /\ req'[i].t = req[i].t
    BY <2>1, SamePayable
  <2>7. \A q \in Requests : req'[q].pc = "create" => req[q].pc = "create" /\ req'[q].t = req[q].t
    BY <2>1
  <2> QED BY <2>3, <2>5, <2>6, <2>7, Quiet DEF IInv
<1>6. ASSUME NEW r \in Requests, Recheck(r) PROVE IInv'
  <2>1. CASE ActiveInvoices(req[r].t) = {}
    <3>1. /\ req'[r].pc = "create" /\ req'[r].t = req[r].t
          /\ \A q \in Requests : q # r => req'[q] = req[q]
          /\ req' \in [Requests -> ReqStates]
          /\ UNCHANGED <<holders, invoice, now, faults>>
      BY <1>6, <2>1 DEF Recheck, IInv, TypeOK, ReqStates
    <3>2. invoice[r] = None /\ req[r].pc = "recheck"
      BY <1>6 DEF Recheck, IInv, InvoicesAreFinal
    <3>3. TypeOK' /\ InvoicesAreFinal' /\ Exclusion'
      BY <3>1, <3>2 DEF IInv, TypeOK, InvoicesAreFinal, Exclusion
    <3>4. \A i \in Requests : ~ Payable(i)
      BY <2>1 DEF Payable, ActiveInvoices, IInv, InvoicesAreFinal, TypeOK, InvoiceStates, ReqStates
    <3>5. \A i \in Requests : ~ Payable(i)'
      BY <3>1, <3>4, SamePayable
    <3> QED BY <3>3, <3>5 DEF IInv, RecheckHolds, OnePayablePerWindow
  <2>2. CASE ActiveInvoices(req[r].t) # {}
    <3>1. /\ UNCHANGED <<invoice, now>> /\ faults' \in Nat /\ Release(r) /\ InTransaction(r)
          /\ \E a \in Requests \cup {None} : Answered(r, a)
      BY <1>6, <2>2 DEF Recheck, InTransaction, Newest, ActiveInvoices, IInv, TypeOK
    <3> QED BY <3>1, TransactionEnds
  <2> QED BY <2>1, <2>2
<1>7. ASSUME NEW r \in Requests, Create(r) \/ CommitUnheard(r) PROVE IInv'
  <2>1. \E a \in Requests \cup {None} :
          /\ req[r].pc = "create" /\ invoice' = [invoice EXCEPT ![r] = NewInvoice(r)]
          /\ Release(r) /\ Answered(r, a) /\ now' = now /\ faults' \in Nat
    BY <1>7 DEF Create, CommitUnheard, IInv, TypeOK
  <2> QED BY <2>1, Commit
<1>8. ASSUME NEW r \in Requests, TransactionFails(r) PROVE IInv'
  <2>1. /\ UNCHANGED <<invoice, now>> /\ faults' \in Nat /\ Release(r) /\ InTransaction(r)
        /\ \/ \E a \in Requests \cup {None} : Answered(r, a)
           \/ /\ req[r].attempt < MaxRetries
              /\ req' = [req EXCEPT ![r].pc = "lock", ![r].attempt = @ + 1]
    BY <1>8 DEF TransactionFails, CanRetry, IInv, TypeOK
  <2> QED BY <2>1, TransactionEnds
<1>9. CASE UNCHANGED vars
  BY <1>9 DEF vars, IInv, TypeOK, Exclusion, InvoicesAreFinal, RecheckHolds, OnePayablePerWindow,
              Payable, ActiveInvoices
<1> QED BY <1>1, <1>2, <1>3, <1>4, <1>5, <1>6, <1>7, <1>8, <1>9 DEF Next, Handle

\* The inductive invariant holds throughout.
LEMMA Invariance == Spec => []IInv
BY InvInit, InvStep, PTL DEF Spec

\* Requests whose time stamps fall into one window never leave the link with
\* two payable invoices: the second look is taken under the window's lock, with
\* everything that was committed before in sight.
THEOREM OneInvoicePerWindow == Spec => []OnePayablePerWindow
<1>1. IInv => OnePayablePerWindow
  BY DEF IInv
<1> QED BY <1>1, Invariance, PTL

\* Every variable keeps its type, the number of attempts its bound included.
THEOREM TypeCorrect == Spec => []TypeOK
<1>1. IInv => TypeOK
  BY DEF IInv
<1> QED BY <1>1, Invariance, PTL

\* No failure, retry or restart leaves an advisory lock behind.
THEOREM LocksAreReleased == Spec => []NoOrphanLock
<1>1. IInv => NoOrphanLock
  BY DEF IInv, Exclusion, NoOrphanLock, TypeOK
<1> QED BY <1>1, Invariance, PTL

-----------------------------------------------------------------------------
(* How many invoices can be payable at once.                               *)

\* An invoice lives for the lock's length, from its request's time stamp.
LivesOneWindow == \A r \in Requests : invoice[r] # None => invoice[r].expires = req[r].t + Lock

LEMMA LivesStep == IInv /\ LivesOneWindow /\ [Next]_vars => LivesOneWindow'
<1> SUFFICES ASSUME IInv, LivesOneWindow, [Next]_vars PROVE LivesOneWindow'
  OBVIOUS
<1>0. /\ req \in [Requests -> ReqStates] /\ invoice \in [Requests -> InvoiceStates \cup {None}]
      /\ \A r \in Requests : req[r] \in ReqStates
  BY DEF IInv, TypeOK
<1>1. CASE AdvanceClock \/ UNCHANGED vars
  BY <1>1 DEF AdvanceClock, vars, LivesOneWindow
<1>2. CASE Restart
  BY <1>0, <1>2 DEF Restart, ReqStates, LivesOneWindow
<1>3. ASSUME NEW i \in Requests, WorkerMoves(i) PROVE LivesOneWindow'
  <2>1. PICK next \in PaymentStatuses : invoice' = [invoice EXCEPT ![i].status = next]
    BY <1>3 DEF WorkerMoves
  <2>2. req' = req /\ invoice[i] \in InvoiceStates /\ invoice[i] # None
    BY <1>0, <1>3 DEF WorkerMoves
  <2>3. invoice'[i].expires = invoice[i].expires
    BY <1>0, <2>1, <2>2 DEF InvoiceStates
  <2>4. \A j \in Requests : j # i => invoice'[j] = invoice[j]
    BY <1>0, <2>1
  <2> QED BY <2>2, <2>3, <2>4 DEF LivesOneWindow
<1>4. ASSUME NEW r \in Requests,
             Arrive(r) \/ Refuse(r) \/ FindActive(r) \/ GetRateAndAddress(r) \/ TakeLock(r)
               \/ Recheck(r) \/ TransactionFails(r)
      PROVE  LivesOneWindow'
  <2>1. UNCHANGED invoice /\ req[r].pc # "done"
    BY <1>4 DEF Arrive, Refuse, FindActive, GetRateAndAddress, TakeLock, Recheck,
                TransactionFails, InTransaction
  <2>2. invoice[r] = None
    BY <2>1 DEF IInv, InvoicesAreFinal
  <2>3. \A q \in Requests : q # r => req'[q] = req[q]
    BY <1>0, <1>4 DEF Arrive, Refuse, FindActive, GetRateAndAddress, TakeLock, Recheck,
                TransactionFails, Answered
  <2> QED BY <2>1, <2>2, <2>3 DEF LivesOneWindow
<1>5. ASSUME NEW r \in Requests, Create(r) \/ CommitUnheard(r) PROVE LivesOneWindow'
  <2>1. PICK a : invoice' = [invoice EXCEPT ![r] = NewInvoice(r)] /\ Answered(r, a)
    BY <1>5 DEF Create, CommitUnheard
  <2>2. invoice'[r].expires = req[r].t + Lock /\ req'[r].t = req[r].t
    BY <1>0, <2>1 DEF Answered, NewInvoice, ReqStates
  <2>3. \A q \in Requests : q # r => req'[q] = req[q] /\ invoice'[q] = invoice[q]
    BY <1>0, <2>1 DEF Answered
  <2> QED BY <2>2, <2>3 DEF LivesOneWindow
<1> QED BY <1>1, <1>2, <1>3, <1>4, <1>5 DEF Next, Handle

LEMMA LivesInvariance == Spec => []LivesOneWindow
<1>1. Init => LivesOneWindow
  BY DEF Init, LivesOneWindow
<1> QED BY <1>1, LivesStep, Invariance, PTL DEF Spec

\* A moment less than one window later is in the same window or the next one.
LEMMA NextWindow ==
  ASSUME NEW t \in Nat, NEW n \in Nat, t <= n, n < t + Lock
  PROVE  Window(t) \in {Window(n), Window(n) - 1}
<1>1. Lock \in Nat /\ Lock > 0
  BY ConstantsAssumption
<1>2. /\ Window(t) \in Int /\ Window(n) \in Int
      /\ Lock * Window(t) <= t /\ t < Lock * Window(t) + Lock
      /\ Lock * Window(n) <= n /\ n < Lock * Window(n) + Lock
  BY <1>1 DEF Window
<1>3. Window(t) <= Window(n)
  BY <1>1, <1>2
<1>4. Window(n) <= Window(t) + 1
  BY <1>1, <1>2
<1> QED BY <1>2, <1>3, <1>4

\* A payable invoice's request came in less than one window ago: it belongs to
\* the current window or to the one before, and each has one at most.
LEMMA TwoWindows == IInv /\ LivesOneWindow => AtMostTwoPayable
<1> SUFFICES ASSUME IInv, LivesOneWindow PROVE AtMostTwoPayable
  OBVIOUS
<1> DEFINE P == {i \in Requests : Payable(i)}
           W == {Window(now), Window(now) - 1}
           f == [i \in P |-> Window(req[i].t)]
<1>1. ASSUME NEW i \in P PROVE f[i] \in W
  <2>1. req[i].t \in Nat /\ now \in Nat /\ req[i].t <= now
    BY DEF IInv, TypeOK, ReqStates, InvoicesAreFinal
  <2>2. now < req[i].t + Lock
    BY DEF Payable, ActiveInvoices, LivesOneWindow
  <2> QED BY <2>1, <2>2, NextWindow
<1>2. f \in Injection(P, W)
  <2>1. f \in [P -> W]
    BY <1>1
  <2>2. \A i, j \in P : f[i] = f[j] => i = j
    BY DEF IInv, OnePayablePerWindow
  <2> QED BY <2>1, <2>2 DEF Injection, IsInjective
<1>3. IsFiniteSet(W) /\ Cardinality(W) <= 2
  <2>1. IsFiniteSet({Window(now)}) /\ Cardinality({Window(now)}) = 1
    BY FS_Singleton
  <2>2. W = {Window(now)} \cup {Window(now) - 1}
    OBVIOUS
  <2> QED BY <2>1, <2>2, FS_AddElement
<1>4. IsFiniteSet(P) /\ Cardinality(P) <= Cardinality(W)
  BY <1>2, <1>3, FS_Injection
<1>5. Cardinality(P) \in Nat /\ Cardinality(W) \in Nat
  BY <1>3, <1>4, FS_CardinalityType
<1> QED BY <1>3, <1>4, <1>5 DEF AtMostTwoPayable

\* A payment link never has three payable invoices, however many payers ask at
\* once: an invoice lives exactly as long as a window of the lock.
THEOREM AtMostTwoInvoices == Spec => []AtMostTwoPayable
BY TwoWindows, Invariance, LivesInvariance, PTL

=============================================================================
