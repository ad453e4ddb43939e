----------------------------- MODULE MCServices -----------------------------
(* The components that share no state with one another, side by side: the  *)
(* subject is chosen at the start, and only that one moves.                *)
EXTENDS Dashboard, PayPage, RateLimiter, RateCache, Supervisor, RecoveryPackage

VARIABLE subject

servicesVars == <<dashboardVars, page, fetch, limiterVars, cacheVars,
                  supervisorVars, recoveryVars, subject>>

Subjects == {"figures", "list", "page", "limiter", "cache", "supervisor", "recovery"}

\* A page that was left: nothing of it can move.
PageIsGone ==
  /\ page = [vm |-> NoVm, loading |-> FALSE, error |-> FALSE, mounted |-> FALSE,
             renewing |-> FALSE]
  /\ fetch = [f \in Fetches |-> NoFetch]

Init ==
  /\ subject \in Subjects
  /\ InitDashboard
  /\ IF subject = "page" THEN InitPage ELSE PageIsGone
  /\ InitLimiter /\ InitCache /\ InitSupervisor /\ InitRecovery

\* The figures are of one payment less than the list.
StepOf ==
  \/ /\ \/ subject = "figures" /\ NextFigures /\ Len(rows') < MaxRows
        \/ subject = "list" /\ NextList
     /\ UNCHANGED <<page, fetch, limiterVars, cacheVars, supervisorVars, recoveryVars>>
  \/ /\ subject = "page" /\ NextPage
     /\ UNCHANGED <<figures, moved, list, limiterVars, cacheVars, supervisorVars, recoveryVars>>
  \/ /\ subject = "limiter" /\ NextLimiter
     /\ UNCHANGED <<dashboardVars, page, fetch, cacheVars, supervisorVars, recoveryVars>>
  \/ /\ subject = "cache" /\ NextCache
     /\ UNCHANGED <<dashboardVars, page, fetch, limiterVars, supervisorVars, recoveryVars>>
  \/ /\ subject = "supervisor" /\ NextSupervisor
     /\ UNCHANGED <<dashboardVars, page, fetch, limiterVars, cacheVars, recoveryVars>>
  \/ /\ subject = "recovery" /\ NextRecovery
     /\ UNCHANGED <<dashboardVars, page, fetch, limiterVars, cacheVars, supervisorVars>>

Next == StepOf /\ UNCHANGED subject

\* What does not move is in a state in which its fairness asks for nothing: the
\* page is gone, the worker is down.
Spec == Init /\ [][Next]_servicesVars /\ PageFairness /\ SupervisorFairness

SpansMC == {{0, 1}, {1}}
FiltersMC == {{}, {"EXPIRED"}, {"SEEN_IN_MEMPOOL", "CONFIRMED"}}
HeadersMC == {<<"peer", NoHeader>>, <<NoHeader, "peer">>, <<NoHeader, NoHeader>>}
KeyOfMC == [old |-> "first", current |-> "second"]

=============================================================================
