---------------------------- MODULE InvoiceStart ----------------------------
(***************************************************************************)
(* POST /api/public/payment-links/[token]/start: the payers of one payment *)
(* link ask for an invoice, and get the link's active one or a new one.    *)
(*                                                                         *)
(* A request takes its time stamp, looks for an active invoice, locks a    *)
(* rate and obtains an address, and only then opens the transaction that   *)
(* takes the advisory lock of its window, looks again, and creates. Every  *)
(* await is a place where another request runs. The database runs          *)
(* READ COMMITTED: a query sees what was committed before it started.      *)
(*                                                                         *)
(* Requests for different links share nothing here, so one link is         *)
(* modelled; what the rate cache serves is left out.                       *)
(***************************************************************************)
EXTENDS PaymentStatus, Integers, FiniteSets

CONSTANTS
  Requests,
  Lock,           \* rateLockMinutes: the life of an invoice, and of a window
  MaxRetries,
  None,
  MaxTime, MaxFaults   \* bounds

ASSUME ConstantsAssumption ==
  /\ IsFiniteSet(Requests)
  /\ Lock \in Nat \ {0}
  /\ MaxRetries \in Nat \ {0}
  /\ None \notin Requests \cup Nat

VARIABLES
  req,        \* the requests, each with what its handler holds
  invoice,    \* table payments: the invoice a request created, or None
  holders,    \* the requests that hold the advisory lock of their window
  now,
  faults

vars == <<req, invoice, holders, now, faults>>

Window(t) == t \div Lock

Idle == [pc |-> "new", t |-> 0, attempt |-> 1, answer |-> None]

Answered(r, answer) ==
  req' = [req EXCEPT ![r].pc = "done", ![r].attempt = 1, ![r].answer = answer]

\* findActivePayment, and the query the transaction repeats, for the time
\* stamp t: the invoices either may return (the newest; ties are possible).
ActiveInvoices(t) ==
  {i \in Requests : /\ invoice[i] # None
                    /\ invoice[i].status \in ActiveStatuses
                    /\ invoice[i].expires > t}
Newest(S) == {i \in S : \A j \in S : invoice[j].created <= invoice[i].created}

Init ==
  /\ req = [r \in Requests |-> Idle]
  /\ invoice = [r \in Requests |-> None]
  /\ holders = {}
  /\ now = 0
  /\ faults = 0

-----------------------------------------------------------------------------
(* The environment: the clock, and the worker moving the invoices along    *)
(* (PaymentLifecycle), where its handlers may still act on an expired one  *)
(* and its expiry job on one that was paid meanwhile.                      *)

AdvanceClock ==
  /\ now < MaxTime
  /\ now' = now + 1
  /\ UNCHANGED <<req, invoice, holders, faults>>

WorkerMoves(i) ==
  /\ invoice[i] # None
  /\ \E next \in PaymentStatuses :
       /\ \/ invoice[i].status = "AWAITING_PAYMENT" /\ next = "SEEN_IN_MEMPOOL"
          \/ invoice[i].status \in PostThreshold /\ next \in {"CONFIRMING", "CONFIRMED"}
          \/ /\ invoice[i].status \in ActiveStatuses \cup {"CONFIRMED"}
             /\ Due(invoice[i].expires, now) /\ next = "EXPIRED"
          \/ /\ invoice[i].status = "EXPIRED"
             /\ next \in PostThreshold \cup {"CONFIRMED"}
       /\ invoice' = [invoice EXCEPT ![i].status = next]
  /\ UNCHANGED <<req, holders, now, faults>>

-----------------------------------------------------------------------------
(* The handler *)

\* The time stamp every later decision goes by.
Arrive(r) ==
  /\ req[r].pc = "new"
  /\ req' = [req EXCEPT ![r].pc = "find", ![r].t = now]
  /\ UNCHANGED <<invoice, holders, now, faults>>

\* The link is gone, or its product's currency or amount is refused.
Refuse(r) ==
  /\ req[r].pc = "find"
  /\ Answered(r, None)
  /\ UNCHANGED <<invoice, holders, now, faults>>

\* findActivePayment, without the lock.
FindActive(r) ==
  LET active == ActiveInvoices(req[r].t)
  IN /\ req[r].pc = "find"
     /\ IF active = {} THEN req' = [req EXCEPT ![r].pc = "rate"]
        ELSE \E i \in Newest(active) : Answered(r, i)
     /\ UNCHANGED <<invoice, holders, now, faults>>

\* getRateWithFallback and allocateBtcAddress, or the failure of one of them or
\* of validateSats.
GetRateAndAddress(r) ==
  /\ req[r].pc = "rate"
  /\ \/ req' = [req EXCEPT ![r].pc = "lock"]
     \/ Answered(r, None)
  /\ UNCHANGED <<invoice, holders, now, faults>>

\* Mutant: the lock is not taken.
WindowUnlocked(r) == TRUE

WindowFree(r) == \A h \in holders : Window(req[h].t) # Window(req[r].t)

\* The lock goes with the transaction, committed or rolled back.
Release(r) == holders' = holders \ {r}

\* pg_advisory_xact_lock on the link and the window of the time stamp.
TakeLock(r) ==
  /\ req[r].pc = "lock"
  /\ WindowFree(r)
  /\ holders' = holders \cup {r}
  /\ req' = [req EXCEPT ![r].pc = "recheck"]
  /\ UNCHANGED <<invoice, now, faults>>

\* The same query, now under the lock; an invoice found ends the transaction.
Recheck(r) ==
  LET active == ActiveInvoices(req[r].t)
  IN /\ req[r].pc = "recheck"
     /\ IF active = {}
        THEN req' = [req EXCEPT ![r].pc = "create"] /\ UNCHANGED holders
        ELSE (\E i \in Newest(active) : Answered(r, i)) /\ Release(r)
     /\ UNCHANGED <<invoice, now, faults>>

\* Mutant: the invoice lives from its creation.
InvoiceFromNow(r) == [status |-> "AWAITING_PAYMENT", created |-> now,
                      expires |-> now + Lock]

NewInvoice(r) == [status |-> "AWAITING_PAYMENT", created |-> now,
                  expires |-> req[r].t + Lock]

\* payments.create and the commit, which releases the lock.
Create(r) ==
  /\ req[r].pc = "create"
  /\ invoice' = [invoice EXCEPT ![r] = NewInvoice(r)]
  /\ Release(r)
  /\ Answered(r, r)
  /\ UNCHANGED <<now, faults>>

InTransaction(r) == req[r].pc \in {"lock", "recheck", "create"}

\* Mutant: one retry too many.
CanRetryOnceMore(r) == req[r].attempt <= MaxRetries

CanRetry(r) == req[r].attempt < MaxRetries

\* The transaction fails and is rolled back: a deadlock or a serialization
\* failure is tried again, anything else (a time-out waiting for the lock) or
\* the last attempt's failure is answered with an error.
TransactionFails(r) ==
  /\ InTransaction(r)
  /\ faults < MaxFaults
  /\ faults' = faults + 1
  /\ Release(r)
  /\ \/ /\ CanRetry(r)
        /\ req' = [req EXCEPT ![r].pc = "lock", ![r].attempt = @ + 1]
     \/ Answered(r, None)
  /\ UNCHANGED <<invoice, now>>

\* The commit succeeds but the connection breaks: the payer gets an error.
CommitUnheard(r) ==
  /\ req[r].pc = "create"
  /\ faults < MaxFaults
  /\ faults' = faults + 1
  /\ invoice' = [invoice EXCEPT ![r] = NewInvoice(r)]
  /\ Release(r)
  /\ Answered(r, None)
  /\ UNCHANGED <<now>>

\* The web server stops: requests under way are lost, their transactions are
\* rolled back.
Restart ==
  /\ faults < MaxFaults
  /\ faults' = faults + 1
  /\ req' = [r \in Requests |->
               IF req[r].pc \in {"new", "done"} THEN req[r]
               ELSE [req[r] EXCEPT !.pc = "done", !.attempt = 1]]
  /\ holders' = {}
  /\ UNCHANGED <<invoice, now>>

-----------------------------------------------------------------------------

Handle(r) ==
  \/ FindActive(r)
  \/ GetRateAndAddress(r)
  \/ TakeLock(r) \/ Recheck(r) \/ Create(r)

Next ==
  \/ AdvanceClock \/ Restart
  \/ \E r \in Requests :
       \/ WorkerMoves(r)
       \/ Arrive(r) \/ Refuse(r) \/ Handle(r)
       \/ TransactionFails(r) \/ CommitUnheard(r)

Spec == Init /\ [][Next]_vars

-----------------------------------------------------------------------------
(* Properties *)

InvoiceStates == [status : PaymentStatuses, created : Nat, expires : Nat]
ReqStates ==
  [pc : {"new", "find", "rate", "lock", "recheck", "create", "done"},
   t : Nat, attempt : 1..MaxRetries, answer : Requests \cup {None}]

ASSUME NoneIsNoInvoice == None \notin InvoiceStates

TypeOK ==
  /\ req \in [Requests -> ReqStates]
  /\ invoice \in [Requests -> InvoiceStates \cup {None}]
  /\ holders \subseteq Requests
  /\ now \in Nat /\ faults \in Nat

\* The payer can still be asked to pay it.
Payable(i) == i \in ActiveInvoices(now)

\* Requests of one window never leave the link with two payable invoices,
\* whatever is retried, fails or runs at once.
OnePayablePerWindow ==
  \A i, j \in Requests :
    Payable(i) /\ Payable(j) /\ Window(req[i].t) = Window(req[j].t) => i = j

\* A window and the next one at most: an invoice lives from the time stamp of its
\* request, however long that request took, so a link never has three payable
\* invoices, whichever windows their requests fell in.
AtMostTwoPayable == Cardinality({i \in Requests : Payable(i)}) <= 2

\* A lock is held by a request that is inside its transaction, and by one of its
\* window: nothing a payer waits for is held by a request that failed or is over.
NoOrphanLock ==
  \A h \in holders :
    /\ req[h].pc \in {"recheck", "create"}
    /\ \A r \in holders : Window(req[r].t) = Window(req[h].t) => r = h

\* "Serialize active invoice creation for (payment_link_id + active window) to
\* prevent duplicates." (the comment above the transaction) The key is a bucket
\* of the clock: two requests on both sides of its boundary are not serialized.
NoDuplicateInvoices == \A i, j \in Requests : Payable(i) /\ Payable(j) => i = j

=============================================================================
