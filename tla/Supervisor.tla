------------------------------ MODULE Supervisor ------------------------------
(***************************************************************************)
(* The worker process around its handlers: it boots, keeps one subscriber  *)
(* for each ZMQ topic alive, runs a round of jobs every thirty seconds and *)
(* writes a heartbeat file at the end of each; the web application's       *)
(* status route reads that file. The age of the file is counted up to the  *)
(* age at which it is stale.                                               *)
(***************************************************************************)
EXTENDS Naturals, FiniteSets

CONSTANTS
  Subscribers,             \* rawtx and rawblock
  MAX_RECONNECT_ATTEMPTS,
  StaleAge,                \* STALE_THRESHOLD_SECONDS, in ticks
  MaxRounds                \* bound: rounds under way together

ASSUME SupervisorAssumption ==
  /\ IsFiniteSet(Subscribers)
  /\ {MAX_RECONNECT_ATTEMPTS, StaleAge, MaxRounds} \subseteq Nat \ {0}

VARIABLES
  process,   \* down, booting, up
  socket,    \* the attempt of each subscriber: off, fresh, stable, waiting
  failures,  \* consecutiveFails of each
  rounds,    \* the rounds of jobs under way
  file       \* the status file: missing, torn or whole, and its age

supervisorVars == <<process, socket, failures, rounds, file>>

AllOff == [n \in Subscribers |-> "off"]
AllZero == [n \in Subscribers |-> 0]

InitSupervisor ==
  /\ process = "down"
  /\ socket = AllOff /\ failures = AllZero
  /\ rounds = 0
  /\ file = [content |-> "missing", age |-> 0]

\* process.exit, or the process is killed: nothing but the file is left.
Exits ==
  /\ process' = "down"
  /\ socket' = AllOff /\ failures' = AllZero
  /\ rounds' = 0

\* Whoever operates it starts it.
Boots ==
  /\ process = "down"
  /\ process' = "booting"
  /\ UNCHANGED <<socket, failures, rounds, file>>

\* The stale payments are expired and the watchlist is loaded; then the timer
\* and both subscribers start.
BootEnds ==
  /\ process = "booting"
  /\ process' = "up"
  /\ socket' = [n \in Subscribers |-> "fresh"]
  /\ UNCHANGED <<failures, rounds, file>>

\* main's catch, a signal, a crash at any time.
Dies == process # "down" /\ Exits /\ UNCHANGED file

-----------------------------------------------------------------------------
(* runWithReconnect *)

\* The attempt has run for MIN_STABLE_MS.
BecomesStable(n) ==
  /\ socket[n] = "fresh"
  /\ socket' = [socket EXCEPT ![n] = "stable"]
  /\ UNCHANGED <<process, failures, rounds, file>>

FailuresAfter(n) == IF socket[n] = "stable" THEN 0 ELSE failures[n] + 1

\* Mutant: a subscriber that failed too often gives up, and the worker goes on.
AttemptEndsQuietly(n) ==
  /\ socket[n] \in {"fresh", "stable"}
  /\ failures' = [failures EXCEPT ![n] = FailuresAfter(n)]
  /\ socket' = [socket EXCEPT ![n] =
       IF FailuresAfter(n) >= MAX_RECONNECT_ATTEMPTS THEN "off" ELSE "waiting"]
  /\ UNCHANGED <<process, rounds, file>>

\* The subscriber's loop ends or throws; too many short attempts in a row end
\* the process.
AttemptEnds(n) ==
  /\ socket[n] \in {"fresh", "stable"}
  /\ \/ /\ FailuresAfter(n) < MAX_RECONNECT_ATTEMPTS
        /\ failures' = [failures EXCEPT ![n] = FailuresAfter(n)]
        /\ socket' = [socket EXCEPT ![n] = "waiting"]
        /\ UNCHANGED <<process, rounds>>
     \/ /\ FailuresAfter(n) >= MAX_RECONNECT_ATTEMPTS
        /\ Exits
  /\ UNCHANGED file

Reconnects(n) ==
  /\ socket[n] = "waiting"
  /\ socket' = [socket EXCEPT ![n] = "fresh"]
  /\ UNCHANGED <<process, failures, rounds, file>>

-----------------------------------------------------------------------------
(* The timer's rounds and the heartbeat *)

\* The interval does not wait for the round before.
RoundStarts ==
  /\ process = "up" /\ rounds < MaxRounds
  /\ rounds' = rounds + 1
  /\ UNCHANGED <<process, socket, failures, file>>

\* Every job's failure is caught; the heartbeat is written last, or cannot be.
RoundEnds ==
  /\ rounds > 0
  /\ rounds' = rounds - 1
  /\ file' \in {[content |-> "whole", age |-> 0], file}
  /\ UNCHANGED <<process, socket, failures>>

\* The file is written in place: a process killed meanwhile leaves part of it.
DiesWriting ==
  /\ rounds > 0
  /\ file' = [content |-> "torn", age |-> 0]
  /\ Exits

FileAges ==
  /\ file.content = "whole" /\ file.age <= StaleAge
  /\ file' = [file EXCEPT !.age = @ + 1]
  /\ UNCHANGED <<process, socket, failures, rounds>>

\* GET /api/worker/status
StatusOk == file.content = "whole" /\ file.age <= StaleAge

NextSupervisor ==
  \/ Boots \/ BootEnds \/ Dies
  \/ \E n \in Subscribers : BecomesStable(n) \/ AttemptEnds(n) \/ Reconnects(n)
  \/ RoundStarts \/ RoundEnds \/ DiesWriting \/ FileAges

\* Time passes: attempts get old, back-offs end and the file ages. Nothing is
\* assumed of the node, the operator and the jobs.
SupervisorFairness ==
  /\ \A n \in Subscribers : WF_supervisorVars(BecomesStable(n)) /\ WF_supervisorVars(Reconnects(n))
  /\ WF_supervisorVars(FileAges)

SpecSupervisor ==
  InitSupervisor /\ [][NextSupervisor]_supervisorVars /\ SupervisorFairness

-----------------------------------------------------------------------------
(* Properties *)

\* The worker never goes on without one of its topics: again and again, each
\* subscriber is in an attempt that lasts or the process is not up, ended by the
\* subscriber's failures or for another reason, however often it is started
\* again. And a worker that stays down is reported so in the end, whatever its
\* last write left in the file. (An attempt that lasts is a stable one whether or
\* not the node sends anything: this says nothing of a silent node.)
SubscribersAreNotGivenUp ==
  /\ \A n \in Subscribers : []<>(process # "up" \/ socket[n] = "stable")
  /\ <>[](process = "down") => <>[](~ StatusOk)

=============================================================================
