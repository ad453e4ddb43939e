------------------------------- MODULE PayPage -------------------------------
(***************************************************************************)
(* The payer's page of one payment, the table's first: it fetches the      *)
(* payment once aloud, then polls it in silence while the status it shows  *)
(* may still change, counts down to the deadline, and offers a new invoice *)
(* once it shows the payment as expired. Fetches overlap, and each brings  *)
(* the status the server read for it, in any order.                        *)
(***************************************************************************)
EXTENDS PaymentTable

CONSTANT Fetches   \* bound: the fetches that can be under way together

ASSUME FetchesAssumption == IsFiniteSet(Fetches) /\ Fetches # {}

VARIABLES
  page,    \* usePaymentLinkVm's state, and what the page is doing
  fetch    \* the fetches under way

pageVars == <<tableVars, page, fetch>>

NoVm == "none"
NoFetch == [pc |-> "free"]

\* Mutant: a payment that is confirming is taken for settled.
TerminalFromConfirming == {"CONFIRMING", "CONFIRMED", "EXPIRED", "FAILED"}

TERMINAL_STATUSES == {"CONFIRMED", "EXPIRED", "FAILED"}

\* The page mounts, and its first fetch is on its way.
InitPage ==
  /\ InitTable
  /\ page = [vm |-> NoVm, loading |-> TRUE, error |-> FALSE, mounted |-> TRUE,
             renewing |-> FALSE]
  /\ \E f \in Fetches :
       fetch = [g \in Fetches |->
                  IF g = f THEN [pc |-> "sent", loud |-> TRUE] ELSE NoFetch]

Begin(f, loud) ==
  /\ fetch[f] = NoFetch
  /\ fetch' = [fetch EXCEPT ![f] = [pc |-> "sent", loud |-> loud]]
  /\ UNCHANGED tableVars

\* The interval of the polling effect, which the vm's status turns on and off.
Poll(f) ==
  /\ page.mounted
  /\ page.vm \notin TERMINAL_STATUSES \cup {NoVm}
  /\ Begin(f, FALSE)
  /\ UNCHANGED page

\* The retry button of the error page.
Retry(f) ==
  /\ page.mounted
  /\ ~ page.loading
  /\ page.vm = NoVm \/ page.error
  /\ Begin(f, TRUE)
  /\ page' = [page EXCEPT !.loading = TRUE, !.error = FALSE]

\* GET /api/public/payments/[paymentId] reads the row, and answers some time later.
Serve(f) ==
  /\ fetch[f].pc = "sent"
  /\ fetch' = [fetch EXCEPT ![f] =
       [pc |-> "back", loud |-> fetch[f].loud, status |-> Shown(1, clock)]]
  /\ UNCHANGED <<tableVars, page>>

Arrive(f) ==
  /\ fetch[f].pc = "back"
  /\ page' = IF page.mounted
             THEN [page EXCEPT !.vm = fetch[f].status, !.loading = FALSE, !.error = FALSE]
             ELSE page
  /\ fetch' = [fetch EXCEPT ![f] = NoFetch]
  /\ UNCHANGED tableVars

\* A poll that fails leaves what is on the screen; a loud fetch shows the error.
FetchFails(f) ==
  /\ fetch[f] # NoFetch
  /\ page' = IF page.mounted /\ fetch[f].loud
             THEN [page EXCEPT !.vm = NoVm, !.loading = FALSE, !.error = TRUE]
             ELSE page
  /\ fetch' = [fetch EXCEPT ![f] = NoFetch]
  /\ UNCHANGED tableVars

\* The countdown is at zero, or the server says so. A confirmed payment is no
\* exception: past its deadline it is shown as expired.
TimerExpired == Due(rows[1].deadline, clock)
ShowsExpired ==
  /\ ~ page.loading /\ ~ page.error /\ page.vm # NoVm
  /\ page.vm = "EXPIRED" \/ TimerExpired

\* The banner's button posts to the start route of the payment's link.
Regenerate ==
  /\ page.mounted /\ ~ page.renewing
  /\ ShowsExpired
  /\ page' = [page EXCEPT !.renewing = TRUE]
  /\ UNCHANGED <<tableVars, fetch>>

RegenerateFails ==
  /\ page.mounted /\ page.renewing
  /\ page' = [page EXCEPT !.renewing = FALSE]
  /\ UNCHANGED <<tableVars, fetch>>

\* The page gives way to the new invoice's, or the payer leaves it; answers
\* that come later find it unmounted.
Leave ==
  /\ page.mounted
  /\ page' = [page EXCEPT !.mounted = FALSE, !.renewing = FALSE]
  /\ UNCHANGED <<tableVars, fetch>>

NextPage ==
  \/ \E f \in Fetches : Poll(f) \/ Retry(f) \/ Serve(f) \/ Arrive(f) \/ FetchFails(f)
  \/ Regenerate \/ RegenerateFails \/ Leave
  \/ MovePayment(1) /\ UNCHANGED <<page, fetch>>
  \/ ClockTicks /\ UNCHANGED <<page, fetch>>

\* Polls go on, every fetch ends, and one that is tried again and again
\* succeeds now and then. Nothing is assumed of the payer and the payment.
PageFairness ==
  /\ WF_pageVars(\E f \in Fetches : Poll(f))
  /\ \A f \in Fetches :
       /\ WF_pageVars(Serve(f) \/ Arrive(f) \/ FetchFails(f))
       /\ SF_pageVars(Serve(f))
       /\ SF_pageVars(Arrive(f))

SpecPage == InitPage /\ [][NextPage]_pageVars /\ PageFairness

-----------------------------------------------------------------------------
(* Properties *)

\* An open page does not stay behind: again and again it shows the payment's
\* status, or one at which a payment ends, whatever polls fail and in whichever
\* order the answers come. It may stay at EXPIRED while a late confirmation goes
\* on, for it no longer asks.
OpenPageCatchesUp ==
  []<>(page.mounted /\ page.vm # NoVm
         => page.vm \in {Shown(1, clock), "CONFIRMED", "EXPIRED"})

=============================================================================
